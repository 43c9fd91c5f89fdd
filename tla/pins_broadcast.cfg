SPECIFICATION Spec
CONSTANTS
  Handlers = {"OP_VECTORIZE", "OP_VECTORIZE_CALL"}
  Kinds = {"array", "scalar"}
  MethodsMax = 0
  CallsMax = 2
  TempRootsMax = 16
INVARIANTS
  NothingLost
