SPECIFICATION Spec
CONSTANTS
  BlockSize = 3
  NumBlocks = 5
  Nil = Nil
  Run = Run
  None = None
  Batches <- Room
  CtrlLens = {1, 2}
  MaxPatches = 3
INVARIANT CleanKeeps
CHECK_DEADLOCK FALSE
