SPECIFICATION Spec
CONSTANTS
    idle = idle
    t1 = t1
    Threads <- MCThreads
    Idle <- idle
    Period <- MCPeriod
    Requests <- MCRequests
    MaxRequests = 2
    MaxTime = 7
CHECK_DEADLOCK FALSE
INVARIANTS UnlinksHead OneKeepSchedule TimerSet
