SPECIFICATION Spec
CONSTANTS
    RestartLimit = 3
    RestartWindow = 1
    QuietPeriod = 2
    Archives = {"good"}
    MaxTime = 1
    MaxLives = 3
INVARIANT
    RecoveryRunsAgain
CHECK_DEADLOCK FALSE
