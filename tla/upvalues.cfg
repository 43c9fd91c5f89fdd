SPECIFICATION Spec
CONSTANTS
  Number = {n1}
  NoValue = no_value
  VarMax = 2
  ClosureMax = 3
  UpvalueMax = 2
  CapturesMax = 2
  StackMax = 4
  FramesMax = 3
  BlocksCapture = FALSE
  OpenErrors = FALSE
CONSTRAINT SharedOrNested
INVARIANTS
  UpvaluesFollowVariables
  TypeOK
  OneUpvaluePerVariable
  OpenListSorted
PROPERTIES
  ImplementsVariables
