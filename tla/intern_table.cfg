SPECIFICATION Spec
CONSTANTS
  String <- MCString
  Chars <- MCChars
  Hash <- MCHash
  NULL = NULL
  Tombstone = Tombstone
  InitCap = 4
  CapMax = 16
INVARIANTS
  TypeOK
  TableIsLive
  CountsMatch
  ProbesEnd
PROPERTIES
  ImplementsStringSet
CHECK_DEADLOCK FALSE
