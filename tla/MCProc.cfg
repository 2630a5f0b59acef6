SPECIFICATION Spec
CONSTANTS
  NPROC = 3
  CPUs = {c0, c1}
  NoCPU = NoCPU
  Chans = {ch}
  MaxPid = 3
  RunMod = 1
  Tickets = {0, 1, 2}
  KillArgs = {2}
SYMMETRY CpuSymmetry
INVARIANTS
  OneCpuPerProcess
  ResourcesOwned
  EveryProcessHasAReaper
  WaitSleepsForAReason
PROPERTIES
  StrictPriority
