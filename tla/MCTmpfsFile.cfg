SPECIFICATION Spec
CONSTANTS
    h1 = h1
    h2 = h2
    a = a
    b = b
    junk = junk
    Handles <- MCHandles
    Bytes <- MCBytes
    Junk <- junk
    Buffers <- MCBuffers
    Counts <- MCCounts
    Offsets <- MCOffsets
    DEFAULT_FILE_SIZE = 2
    SIZE_MAX = 15
    MaxPos = 5
INVARIANTS FitsBuffer
PROPERTIES Implements
CHECK_DEADLOCK FALSE
