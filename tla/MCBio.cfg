SPECIFICATION FairSpec
CONSTANTS
  Procs = {p1, p2}
  Writers = {p1}
  NBUF = 2
  Blocks = {1, 2, 3}
  Written = {2}
  Vals = {0, 1}
  MaxHold = 2
  MaxInUse = 2
  ReadFails = FALSE
  None = None
INVARIANTS
  RefcntExact
PROPERTIES
  IsBlockStore
  BreadReturns
