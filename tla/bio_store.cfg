SPECIFICATION Spec
CONSTANTS
    Procs = {p, q}
    NBUF = 2
    Blocks = {x, y, z}
    Values = {u, v}
    MAXDIRTY = 1
    BadBlocks = {z}
    NoBlock = NoBlock
    NoProc = NoProc
CHECK_DEADLOCK FALSE
INVARIANT OneBufferPerBlock
PROPERTY StoreSpec
