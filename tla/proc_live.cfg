SPECIFICATION FairSpec
CONSTANTS
  c0 = c0
  c1 = c1
  tick = tick
  none = none
  NPROC = 2
  MAXPRIO = 2
  CPUs <- OneCpu
  BootCpu = c0
  NoCPU = none
  Chans <- OnlyTicks
  TicksChan = tick
  MAX_BUDGET = 2
  TICKS_TO_PROMOTE = 2
  MAXPID = 3
  KillPids = {2}
  SetPrios = {0}
PROPERTY NoStarvation
PROPERTY KilledLeavesUser
INVARIANT ReadyPriority
