SPECIFICATION Spec
CONSTANTS
    Capacity = 2
    Kinds <- MCKinds
    MaxSequence = 2
    InboxCapacity = 1
    TakeMayFail = FALSE
    MaxUnmarked = 0
    MaxDeaths = 0
    MaxJobTurns = 0
INVARIANT
    StopIsKept
CHECK_DEADLOCK FALSE
