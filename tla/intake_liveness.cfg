SPECIFICATION FairSpec
CONSTANTS
    Capacity = 2
    Kinds <- MCKinds
    MaxSequence = 2
    InboxCapacity = 1
    TakeMayFail = FALSE
    MaxUnmarked = 0
    MaxDeaths = 1
    MaxJobTurns = 1
PROPERTIES
    EveryMessageIsFinished
    StoppedTaskEnds
CHECK_DEADLOCK FALSE
