SPECIFICATION FairSpec
CONSTANTS
  t1 = t1  f1 = f1  f2 = f2
  Task = {t1}
  Fiber = {f1, f2}
  MaxRunning = 1
  MaxPending = 1
  DrainAttempts = 1
  Endings = {"completed", "failed"}
  MaxQuestions = 1
  MaxSteers = 1
  MaxCalls = 2
  MaxCuts = 1
INVARIANTS OneOutcome InitialWorkRunsOnce NoticeTellsTheOutcome CancelledMeansStopped WorkGoesOnWithTheAnswer
PROPERTIES OutcomesAreTold QuestionsReachTheParent AnswersContinueTheTask
