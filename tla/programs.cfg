SPECIFICATION FairSpec
CONSTANTS
  Programs <- MCPrograms
  ConstantsMax = 16
  LocalsMax = 6
  UpvaluesMax = 3
  FramesMax = 4
  StackMax = 12
  TextOrder <- MCTextOrder
  Substrings <- MCSubstrings
INVARIANTS
  TypeOK
  CodeIsBalanced
PROPERTIES
  ImplementsMeaning
  Finishes
CHECK_DEADLOCK FALSE
