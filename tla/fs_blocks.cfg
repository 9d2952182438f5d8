SPECIFICATION Spec
CONSTANTS
    Procs = {p, q}
    Inodes = {r, i}
    root = r
    Files = {f, g}
    NBLOCKS = 5
    BSIZE = 2
    NDIRECT = 1
    LOGSIZE = 6
    Counts = {5}
    Values = {2, 5}
    ImageSizes = {1}
    MaxEntries = 5
    none = none
INVARIANT BlocksOwned
INVARIANT InodeSaved
 
PROPERTY ContentsSpec
SYMMETRY Symmetry
