SPECIFICATION FairSpec
CONSTANTS
    a = a
    b = b
    Byte = {a, b}
    Readers = {r, s}
    Writers = {w}
    Users = {r, w}
    PIPESIZE = 2
    UINT = 4
    Messages <- Long
    ReadSizes = {1, 3}
    Killable = {r, w}
INVARIANT NoUseAfterFree
PROPERTY FifoStep
PROPERTY WriteReturns
PROPERTY ReadReturns
CHECK_DEADLOCK FALSE
