SPECIFICATION Spec
CONSTANTS
  a = a  b = b  c1 = c1  c2 = c2  h = h  k1 = k1  k2 = k2  r1 = r1  r2 = r2  r3 = r3  n1 = n1  u1 = u1  s1 = s1
  NoInstance = NoInstance  NoRun = NoRun  NoItem = NoItem  NoAsk = NoAsk  NoHost = NoHost
  Instance = {a}
  Run = {r1, r2, r3}
  Notice = {}  Input = {}  Steer = {}
  Leased = {}
  HostOf <- OneHost
  Renew = "commit"
  Ttl = 1
  Caller = {c1, c2}
  Ask <- RepeatedAsks
  Tx = {}
  CancelTurns = {}
  Delivers = {}
  Limited = TRUE
  Replies = {}
  Endings = {"completed"}
  Unended = {}
  Attempts = 2
  MaxPending = 1
  Retries = 2
  MaxTurn = 2
  MaxWrites = 0
  Faults = {"shutdown", "store", "cut"}
  MaxFaults = 2
  MaxNow = 0
  MaxRev = 3
  MaxInc = 1
CHECK_DEADLOCK FALSE
SYMMETRY Callers
INVARIANTS ShutdownLeavesNoWriter LetGoTurnsHaveNoWriter KeyNamesOneTurn
