SPECIFICATION Spec
CONSTANTS
  s1 = s1
  Reply <- SomeReplies
  Streaming = TRUE
  AnswersBad = TRUE
  RequireCompletion = FALSE
  MalformedLimit = 2
  MaxCutCorrectives = 1
  NudgeAfter = 1
  BreakAfter = 2
  MaxSteps = 3
  ToolConcurrency = 2
  Steer = {s1}
  Signature = {"g"}
  MaxHosted = 1
CHECK_DEADLOCK FALSE
INVARIANTS BufferIsWellFormed JournalIsTheTail FinalTextIsTheLastReply
PROPERTIES ShownStepsAreNotResent
