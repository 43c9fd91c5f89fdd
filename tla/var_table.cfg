SPECIFICATION Spec
CONSTANTS
  Name <- MCName
  Value = {v1, v2}
  Undefined = Undefined
  Hash <- MCHash
  NULL = NULL
  InitCap = 2
  CapMax = 8
INVARIANTS
  TypeOK
  NeverFull
PROPERTIES
  ImplementsGlobals
