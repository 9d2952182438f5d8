SPECIFICATION Spec
CONSTANTS
    Procs = {p, q}
    root = p
    NFILE = 3
    NOFILE = 2
    Inodes = {i}
    Pages = {g}
INVARIANT RefCount
INVARIANT ObjectsHaveOwners
INVARIANT NoNestedOp
