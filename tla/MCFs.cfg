SPECIFICATION Spec
CONSTANTS
  Procs = {p1, p2}
  NINODE = 3
  ninodes = 4
  Names = {"a", "b"}
  NDIRECT = 1
  NINDIRECT = 1
  nblocks = 3
  Calls <- TreeCalls
  MaxCalls = 3
  Trees <- SomeTrees
  Crashes = TRUE
  None = None
CHECK_DEADLOCK FALSE
SYMMETRY Symmetry
INVARIANTS
  LinksCounted
  BlocksOwned
  RefsExact
  OnlyDotDotPanics
  OnlyIputDeadlocks
