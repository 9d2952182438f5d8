CONSTANTS
    MAXARGS = 3
    INPUT_BUF = 8
    WRAP = 16
    NPROC = 6
    NPIPE = 2
    NOFILE = 5
    PIPESIZE = 1
    NBUF = 8
    BUFSIZE = 3
    Programs = {"cat", "echo"}
    Typed <- Sessions
    MaxLine = 5
SPECIFICATION Spec
INVARIANTS ParserIsRight ExactDescriptors ForegroundDone
CHECK_DEADLOCK FALSE
PROPERTIES LineInputSpec InputIsAwaited
