SPECIFICATION FairSpec
CONSTANTS
  Procs = {p1, p2}
  Blocks = {a, b, c}
  Vals = {0, 1}
  InitVal = 0
  MAXOPBLOCKS = 2
  LOGSIZE = 4
  nlog = 4
  OpBlocks = 1
INVARIANTS
  NoPanic
PROPERTIES
  CrashAtomic
  SleepersWake
