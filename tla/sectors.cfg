SPECIFICATION Spec
CONSTANTS
  BlockSize = 3
  NumBlocks = 5
  Nil = Nil
  Run = Run
  None = None
  Batches <- Room
  CtrlLens = {1, 2, 3}
  MaxPatches = 4
INVARIANTS SectorsTypeOK FreeListSound FreeIsBlank FilesKept ReadBack Reorderable
CHECK_DEADLOCK FALSE
