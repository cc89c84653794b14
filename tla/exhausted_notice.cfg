SPECIFICATION FairSpec
CONSTANTS
  x1 = x1  x2 = x2  w1 = w1  w2 = w2  n1 = n1  n2 = n2  u1 = u1  none = none r1 = r1
  here = here  elsewhere = elsewhere
  Instance = {here, elsewhere}
  Run = {r1}
  Notice = {n1}
  Input = {u1}
  Steer = {}
  NoInstance = none
  NoRun = none
  NoItem = none
  Attempts = 1
  Session = {x1}
  Worker = {w1}
  Backlog <- Both
  Resume = "Before"
  DrainAttempts = 2
  TakeOver = TRUE
  Endings = {"completed", "failed"}
  Closes = {"cancelled", "turn.interrupted"}
  MaxFailures = 1
  MaxEnqueued = 0
  MaxForeign = 0
  MaxCloses = 0
  MaxErrors = 0
  MaxRestarts = 1
  MaxEvents = 1
  MaxShutdowns = 0
PROPERTIES BacklogIsWorkedOff
