SPECIFICATION Spec
CONSTANTS
  c1 = c1
  c2 = c2
  Client <- MCClient
  Nobody = Nobody
  RequestMax <- MCRequestMax
  BufferMax = 1
  Impolite = TRUE
INVARIANTS
  Serialised
PROPERTIES
  ImplementsEvaluator
  StopReturns
  LockIsReleased
CHECK_DEADLOCK FALSE
