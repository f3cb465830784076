SPECIFICATION Spec
CONSTANTS
    t1 = t1
    t2 = t2
    Clients <- MCClients
    CACHE_NUM = 2
    MIN_CACHE_ORDER = 1
    HEADER = 1
    PAGE_SIZE = 11
    PageNum = 3
    MaxHeld = 2
SYMMETRY Symmetry
CHECK_DEADLOCK FALSE
INVARIANTS NoOverlap RightCache ChunksKept
