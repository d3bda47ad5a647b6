SPECIFICATION FairSpec
CONSTANTS
    Channels = {"terminal","signal"}
    MaxReplies = 2
    MaxAttempts = 1
    MaxUndelivered = 2
    OpenDuring = {"starting", "serving"}
    KilledDuring = {"starting", "serving", "stopping"}
    PeopleComeAndGo = TRUE
    StoreMayFail = TRUE
INVARIANTS
    LedgerTypeOK
    UndeliveredIsWhatIsOwed
    CopiesWereCounted
PROPERTIES
    LedgerKeepsItsPromise
    EveryReplySettles
CHECK_DEADLOCK FALSE
