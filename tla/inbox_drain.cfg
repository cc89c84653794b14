SPECIFICATION FairSpec
CONSTANTS
  x1 = x1  x2 = x2  w1 = w1  w2 = w2  n1 = n1  n2 = n2  u1 = u1  none = none r1 = r1
  here = here  elsewhere = elsewhere
  Instance = {here, elsewhere}
  Run = {r1}
  Notice = {n1, n2}
  Input = {u1}
  Steer = {}
  NoInstance = none
  NoRun = none
  NoItem = none
  Attempts = 2
  Session = {x1}
  Worker = {w1, w2}
  Backlog <- Both
  Resume = "Before"
  DrainAttempts = 2
  TakeOver = TRUE
  Endings = {"completed", "partial"}
  Closes = {"cancelled", "turn.interrupted"}
  MaxFailures = 1
  MaxEnqueued = 1
  MaxForeign = 1
  MaxCloses = 1
  MaxErrors = 1
  MaxRestarts = 1
  MaxEvents = 1
  MaxShutdowns = 1
INVARIANTS HistoryAgreesWithHead RunningJobsHaveOneWorker FailedRunsAreBounded
PROPERTIES TakeoversAreSighted AnsweredInputsAreNotBegun BacklogIsWorkedOffOrDropped
