SPECIFICATION Spec
CONSTANTS
    t1 = t1
    t2 = t2
    t3 = t3
    f1 = f1
    f2 = f2
    Tasks <- MCTasks
    Files <- MCFiles
    THREAD_MAX_FD = 2
    StdFds = 1
    ArchiveSize = 1
    Counts <- MCCounts
    Offsets <- MCOffsets
    MaxPos = 2
SYMMETRY Symmetry
CHECK_DEADLOCK FALSE
INVARIANTS FilesOwned
PROPERTIES PositionsApart
