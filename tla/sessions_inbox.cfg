SPECIFICATION Spec
CONSTANTS
  a = a  b = b  c1 = c1  c2 = c2  h = h  k1 = k1  k2 = k2  r1 = r1  r2 = r2  r3 = r3  n1 = n1  u1 = u1  s1 = s1
  NoInstance = NoInstance  NoRun = NoRun  NoItem = NoItem  NoAsk = NoAsk  NoHost = NoHost
  Instance = {a}
  Run = {r1, r2, r3}
  Notice = {n1}  Input = {s1}  Steer = {s1}
  Leased = {}
  HostOf <- TwoHosts
  Renew = "none"
  Ttl = 1
  Caller = {c1}
  Ask <- InboxAsks
  Tx = {}
  CancelTurns = {1}
  Delivers = {n1, s1}
  Limited = FALSE
  Replies = {}
  Endings = {"completed", "partial"}
  Unended = {"failed"}
  Attempts = 2
  MaxPending = 2
  Retries = 2
  MaxTurn = 3
  MaxWrites = 0
  Faults = {}
  MaxFaults = 0
  MaxNow = 0
  MaxRev = 8
  MaxInc = 1
CHECK_DEADLOCK FALSE
INVARIANTS InboxAgreesWithJournal InputsAnsweredOnce DropsAreEarned
