SPECIFICATION FairSpec
CONSTANTS
  Obj = {o1, o2, o3, o4}
  ScriptClosure = script_closure
  ScriptFn = script_fn
  Texts = {t1}
  Names = {}
  NoText = no_text
  Containers = {}
  Size <- MCSize
  MinThreshold = 2
  InitThreshold = 2
  GCStress = TRUE
  StackMax = 3
  FramesMax = 2
  TempRootsMax = 0
  CompilerRootsMax = 2
  BlocksCapture = FALSE
  OpenErrors = FALSE
PROPERTIES
  ImplementsAbstractHeap
  CollectionEnds
CONSTRAINT ByKind
