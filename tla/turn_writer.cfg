SPECIFICATION Spec
CONSTANTS
  a1 = a1  a2 = a2  t1 = t1  f1 = f1  e1 = e1  w1 = w1  z = z
  Call <- SomeCalls
  KindOf <- SomeKinds
  After <- SomeFibers
  ScopeEnd = z
  NoCall = NoCall
  Capacity = 1
  Batch = 2
CHECK_DEADLOCK FALSE
INVARIANTS StoredWithoutHoles EndIsTheLastWord AnswersTellTheStore EndingHasAnEnd
PROPERTIES ClosedScopeAnswersAll
