SPECIFICATION Spec
CONSTANTS
  a = a  b = b  c1 = c1  c2 = c2  h = h  k1 = k1  k2 = k2  r1 = r1  r2 = r2  r3 = r3  n1 = n1  u1 = u1  s1 = s1
  NoInstance = NoInstance  NoRun = NoRun  NoItem = NoItem  NoAsk = NoAsk  NoHost = NoHost
  Instance = {a, b}
  Run = {r1, r2, r3}
  Notice = {}  Input = {}  Steer = {}
  Leased = {a, b}
  HostOf <- OneHost
  Renew = "every"
  Ttl = 1
  Caller = {c1}
  Ask <- TurnAsks
  Tx = {}
  CancelTurns = {}
  Delivers = {}
  Limited = FALSE
  Replies = {"completed"}
  Endings = {"failed"}
  Unended = {"interrupted"}
  Attempts = 2
  MaxPending = 1
  Retries = 2
  MaxTurn = 2
  MaxWrites = 0
  Faults = {}
  MaxFaults = 0
  MaxNow = 2
  MaxRev = 4
  MaxInc = 1
CHECK_DEADLOCK FALSE
PROPERTIES SealedTurnsEndAsSealed
