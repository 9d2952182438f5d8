SPECIFICATION Spec
CONSTANTS
    Procs = {p, q}
    none = none
    NINODES = 3
    MaxLinks = 3
    Calls <- SmallCalls
INVARIANT UniqueNames
INVARIANT LinkCounts
INVARIANT NoLockCycle
INVARIANT NoNamePanic
SYMMETRY Symmetry
