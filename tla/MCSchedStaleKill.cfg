SPECIFICATION Spec
CONSTANTS
    MaxTasks = 4
    KillTargets <- MCKillUser
    AllocFails = FALSE
    Preemptible = TRUE
INVARIANT KillsLiveTask
