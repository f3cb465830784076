SPECIFICATION VfsSpec
CONSTANTS
    t1 = t1
    t2 = t2
    Threads <- MCThreads
    Names <- MCNames
    Components <- MCComponents
    strlen <- MCstrlen
    Prefix <- MCPrefix
    Paths <- MCPaths
    Archives <- MCArchives
    cpio_addr = 8
    MAX_CHILDREN = 2
    MaxVnodes = 8
CHECK_DEADLOCK FALSE
INVARIANTS TreeOK DotDotInverse NamesAgree ArchiveListed
PROPERTIES NamesStable
