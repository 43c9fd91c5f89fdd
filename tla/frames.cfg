SPECIFICATION Spec
CONSTANTS
  FrameMax = 3
  HeaderMax = 7
  Stalls = FALSE
INVARIANTS
  TypeOK
  AnsweredInOrder
  ClosedForCause
PROPERTIES
  EveryFrameAnswered
CHECK_DEADLOCK FALSE
