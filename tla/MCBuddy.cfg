SPECIFICATION Spec
CONSTANTS
    MAX_ORDER = 3
    PAGE_SIZE = 2
    MaxBlocks = 2
    Regions <- MCRegions
    MaxRegions = 2
INVARIANTS ListsAgree NoOverlap GrantFits Coalesced
CHECK_DEADLOCK FALSE
