SPECIFICATION Spec
CONSTANTS
    Newest = 2
    Migrating = {2}
    PerVersion = 1
    KeptReleases = 3
    MaxOrders = 1
    MaxFaults = 1
INVARIANT
    BackMeansTheOldVersionRuns
CHECK_DEADLOCK FALSE
