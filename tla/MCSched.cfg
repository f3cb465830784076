SPECIFICATION FairSpec
CONSTANTS
    MaxTasks = 4
    KillTargets <- MCKillAll
    AllocFails = TRUE
    Preemptible = FALSE
INVARIANTS QueueDiscipline NoUseAfterFree NoLostTask ExitSwitches
PROPERTIES NoOvertaking ReadyRuns ZombieReaped
CHECK_DEADLOCK FALSE
