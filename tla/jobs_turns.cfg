SPECIFICATION Spec
CONSTANTS
    NJobs = 1
    Kinds = {"plain", "checked", "scheduled"}
    MaxTasksPerJob = 3
    FailuresThatPause = 2
    FailuresThatSwitchOff = 2
    FixTasksPerLine = 1
    TaskBudget = 1
    Every = 1
    ListedTasks = {1, 2}
    Delays = {0, 1}
    MaxCommands = 0
    MaxFaults = 1
INVARIANTS
    SomeTaskIsNotPassedOver
PROPERTIES
    FinishedStaysFinished
    EveryTaskGetsItsTurn
CHECK_DEADLOCK FALSE
