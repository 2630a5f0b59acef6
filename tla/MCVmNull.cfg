SPECIFICATION Spec
CONSTANTS
  NFrames = 15
  Procs = {p0, p1}
  initproc = p0
  PG = 2
  NPages = 5
  Image = 4
  Loads <- NullLoads
VIEW UpToFrames
INVARIANT NoKernelFault
