SPECIFICATION Spec
CONSTANTS
    RestartLimit = 3
    RestartWindow = 1
    QuietPeriod = 2
    Archives = {"none", "good", "bad"}
    MaxTime = 4
    MaxLives = 5
INVARIANTS
    RecoveryTypeOK
    OnlyAKillHalfWayLosesTheDatabase
    OnlyBadEndsCount
PROPERTIES
    CrashLoopStartsNoTask
CHECK_DEADLOCK FALSE
