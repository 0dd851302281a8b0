SPECIFICATION BackendSpec
CONSTANTS
  None = None
  Callers <- MCCallers
  LastAddress = 1
  MaxOperations = 4
  MaxFrames = 1
INVARIANTS
  AnswerIsOwn
  NotDestroyedInUse
PROPERTIES
  EveryCallReturns
  DeadlinesRelease
CHECK_DEADLOCK FALSE
