SPECIFICATION Spec
CONSTANTS
    Procs = {p, q}
    init = p
    NPAGES = 13
    PGSIZE = 2
    NPTENTRIES = 2
    KERNBASE = 8
    Programs = {1}
    Deltas = {3}
INVARIANT PagesSeparate
INVARIANT NothingLost
