SPECIFICATION Spec
CONSTANTS
    NJobs = 1
    Kinds = {"checked"}
    MaxTasksPerJob = 3
    FailuresThatPause = 2
    FailuresThatSwitchOff = 2
    FixTasksPerLine = 1
    TaskBudget = 1
    Every = 1
    ListedTasks = {2}
    Delays = {0}
    MaxCommands = 0
    MaxFaults = 0
INVARIANTS
    NeverClosedOnARedCheck
CHECK_DEADLOCK FALSE
