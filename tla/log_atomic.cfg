SPECIFICATION Spec
CONSTANTS
    Callers = {p, q, r}
    Values = {u, v}
    NHOME = 3
    MAXOPBLOCKS = 2
    LOGSIZE = 4
    nlog = 4
INVARIANT DurableWhenQuiet
INVARIANT NoLostWakeup
PROPERTY AtomicSpec
SYMMETRY Symmetry
