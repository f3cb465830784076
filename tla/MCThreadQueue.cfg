SPECIFICATION Spec
CONSTANTS
    MaxTasks = 4
    MaxInside = 2
CHECK_DEADLOCK FALSE
INVARIANTS ListsIntact ForkWindow
PROPERTIES ListSteps
