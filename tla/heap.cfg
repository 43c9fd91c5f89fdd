SPECIFICATION Spec
CONSTANTS
  Obj = {o1, o2, o3}
  ScriptClosure = script_closure
  ScriptFn = script_fn
  Texts = {t1, t2}
  Names = {g}
  NoText = no_text
  Containers = {"MAP"}
  Size <- MCSize
  MinThreshold = 2
  InitThreshold = 2
  GCStress = FALSE
  StackMax = 3
  FramesMax = 2
  TempRootsMax = 1
  CompilerRootsMax = 2
  BlocksCapture = FALSE
  OpenErrors = FALSE
SYMMETRY Symmetry
CONSTRAINT GraphStringsOrPins
INVARIANTS
  TypeOK
  NoReachableFreed
  StringsCanonical
  BytesAccounted
  GrowthBounded
PROPERTIES
  CollectionIsPrecise
