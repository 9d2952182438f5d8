SPECIFICATION FairSpec
CONSTANTS
    NPROC = 3
    CPUs = {c0, c1}
    NoCPU = NoCPU
    Chans = {ch}
    MAXPID = 4
    KillPids = {2}
PROPERTY LifeSpec
PROPERTY RunnableRuns
INVARIANT WaiterHasNoZombie
