SPECIFICATION FairSpec
CONSTANTS
    t1 = t1
    t2 = t2
    idle = idle
    Threads <- MCThreads
    Idle <- idle
    Sigs <- MCSigs
    SIGKILL = 2
    MaxSignals = 2
    MaxStacks = 2
    MaxFrames = 2
INVARIANTS ProgramKept StacksOwned FramesLeft
PROPERTY SigkillKills
CHECK_DEADLOCK FALSE
