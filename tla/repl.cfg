SPECIFICATION Spec
CONSTANTS
  Letters <- MCLetters
  Digits <- MCDigits
  Vocabularies <- MCVocabularies
  LineMax = 10
  InputMax = 24
INVARIANTS
  TypedIsFiled
  TokensAreLexemes
  PositionsTrue
  OperatorsBindAsDocumented
PROPERTIES
  GivesUpWhenHopeless
CHECK_DEADLOCK FALSE
