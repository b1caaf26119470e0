SPECIFICATION Spec
CONSTANTS
  NULL = NULL
  NoEnt = NoEnt
  Grow = 3
  Cfgs <- AllCfgs
  MaxFlashes = 3
  MaxRemovals = 1
INVARIANTS TreeTypeOK TreeRight ListsSound InTables
CHECK_DEADLOCK FALSE
