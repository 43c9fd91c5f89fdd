SPECIFICATION Spec
CONSTANTS
  Number = {n1}
  NoValue = no_value
  VarMax = 2
  ClosureMax = 3
  UpvalueMax = 1
  CapturesMax = 1
  StackMax = 4
  FramesMax = 2
  BlocksCapture = TRUE
  OpenErrors = FALSE
INVARIANTS
  UpvaluesFollowVariables
