CONSTANTS
    MaxTasks = 1
    Budgets = {0, 1}
    MaxCutOffsSentBack = 1
    MaxFailedParses = 1
    MaxDoneCheckNudges = 1
    RewindsAllowed = 1
    RewindAfter = 2
    StallsBeforeStop = 2
    MaxCalls = 2
    QueuedMessages = 1
    MaxRefusals = 2

SPECIFICATION Spec

CHECK_DEADLOCK FALSE

INVARIANTS
    TurnTypeOK
    NoTaskIsLost

PROPERTY
    ATaskEnds
