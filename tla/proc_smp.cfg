SPECIFICATION Spec
CONSTANTS
  c0 = c0
  c1 = c1
  tick = tick
  none = none
  NPROC = 3
  MAXPRIO = 1
  CPUs <- TwoCpus
  BootCpu = c0
  NoCPU = none
  Chans <- OnlyTicks
  TicksChan = tick
  MAX_BUDGET = 1
  TICKS_TO_PROMOTE = 1
  MAXPID = 4
  KillPids = {2}
  SetPrios = {}
INVARIANT ListInv
INVARIANT RunningOnOneCpu
INVARIANT EmbryoOwned
INVARIANT WaiterHasNoZombie
