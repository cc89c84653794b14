SPECIFICATION FairSpec
CONSTANTS
  i1 = i1  i2 = i2  b1 = b1  NoId = NoId
  Id = {i1, i2}
  Background = {b1}
  Sender <- Senders
  Command = {"hello", "begin", "foreign", "shutdown"}
  MaxPendingWrites = 1
  MaxBegins = 1
  MaxShort = 1
  MaxControl = 1
  MaxReads = 3
  MaxEvents = 1
  MaxFaults = 1
CHECK_DEADLOCK FALSE
INVARIANTS ReportIsTheLastWord CleanExitAnsweredAll
PROPERTIES StopsReturn
