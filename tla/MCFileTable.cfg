SPECIFICATION Spec
CONSTANTS
  Procs = {p1, p2}
  initproc = p1
  NOFILE = 2
  NFILE = 3
  Inodes = {i1}
  Pages = {x1}
  MAXFILE = 2
  MaxWrite = 1
  Modes <- ReadWrite
  Counts = {2}
  None = None
INVARIANTS
  RefsCounted
  InodeRefsCounted
  PipeEndsHeld
