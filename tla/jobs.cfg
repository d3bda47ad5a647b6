SPECIFICATION Spec
CONSTANTS
    NJobs = 2
    Kinds = {"plain"}
    MaxTasksPerJob = 1
    FailuresThatPause = 1
    FailuresThatSwitchOff = 2
    FixTasksPerLine = 1
    TaskBudget = 1
    Every = 1
    ListedTasks = {1}
    Delays = {0}
    MaxCommands = 2
    MaxFaults = 1
INVARIANTS
    JobsTypeOK
    MarkedJobsStandStill
PROPERTIES
    OnlyTheRunReportsItsTask
CHECK_DEADLOCK FALSE
