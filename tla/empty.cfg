SPECIFICATION Spec
CONSTANTS
  BlockSize = 3
  NumBlocks = 5
  Nil = Nil
  Run = Run
  None = None
  Batches <- Emptying
  CtrlLens = {1}
  MaxPatches = 4
INVARIANT EmptyKeeps
CHECK_DEADLOCK FALSE
