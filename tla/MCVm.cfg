SPECIFICATION Spec
CONSTANTS
  NFrames = 13
  Procs = {p0, p1}
  initproc = p0
  PG = 2
  NPages = 6
  Image = 4
  Loads <- SomeLoads
VIEW UpToFrames
INVARIANTS
  OneHolder
  SizeIsMapped
  ProtectionHolds
  NoKernelFault
