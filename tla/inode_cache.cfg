SPECIFICATION Spec
CONSTANTS
    Procs = {p, q, r}
    NINODE = 2
    ninodes = 2
    MaxLinks = 2
    MaxKept = 1
INVARIANT ValidIsDisk
INVARIANT AllocatedIffInUse
INVARIANT NoSleeperStranded
SYMMETRY Symmetry
