SPECIFICATION Spec
CONSTANTS
  CPUs = {c1, c2}
  Threads = {t1, t2}
  Others = {d, kmem}
  Inner = {kmem}
  ptable = ptable
  None = None
SYMMETRY Symmetry
INVARIANTS
  Exclusive
  NoInterruptInside
  FlagRestored
