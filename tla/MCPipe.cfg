SPECIFICATION FairSpec
CONSTANTS
  Readers = {r1}
  Writers = {w1, w2}
  PIPESIZE = 2
  CtrMod = 4
  Vals = {0, 1}
  Writes <- LongWrite
  Reads = {1, 2}
INVARIANTS
  FreedIsUnused
  SleepsForAReason
PROPERTIES
  IsByteStream
  WritersWake
