SPECIFICATION FairSpec
CONSTANTS
  NPROC = 3
  CPUs = {c0}
  NoCPU = NoCPU
  Chans = {ch}
  MaxPid = 3
  RunMod = 1
  Tickets = {0, 1, 2}
  KillArgs = {2}
PROPERTIES
  RoundRobin
  LowPriorityRuns
  OrphansReaped
