SPECIFICATION Spec
CONSTANTS
  Handlers = {"OP_CONCAT", "OP_ARRAY", "OP_MAP", "OP_MAKE", "OP_CALL", "OP_INDEX_GET", "OP_ZIP_MAP", "OP_OBJECT_TYPE", "OP_REDUCE_CALL", "OP_VECTORIZE_CALL"}
  Kinds = {"array", "map"}
  MethodsMax = 3
  CallsMax = 4
  TempRootsMax = 16
INVARIANTS
  NothingLost
PROPERTIES
  PinsPaired
