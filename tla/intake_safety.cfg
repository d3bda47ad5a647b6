SPECIFICATION Spec
CONSTANTS
    Capacity = 2
    Kinds <- MCKinds
    MaxSequence = 3
    InboxCapacity = 1
    TakeMayFail = TRUE
    MaxUnmarked = 1
    MaxDeaths = 1
    MaxJobTurns = 1
INVARIANTS
    IntakeTypeOK
    QueueIsBounded
    EveryTakenMessageHasOneOwner
    OneTaskAtATime
    NoLostWakeup
    FinishedIsAccountedFor
PROPERTIES
    FinishedIsForever
    QueueKeepsItsPromise
VIEW SafetyView
CHECK_DEADLOCK FALSE
