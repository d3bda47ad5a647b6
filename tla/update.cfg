SPECIFICATION Spec
CONSTANTS
    Newest = 4
    Migrating = {2, 4}
    PerVersion = 2
    KeptReleases = 3
    MaxOrders = 2
    MaxFaults = 3
INVARIANTS
    UpdateTypeOK
    NoAgentOnANewerDatabase
    WhatWasSaidIsRunning
    RestingLinkReadsTheDatabase
    TheOneToGoBackToIsKept
    DrainsEndWithTheirSwitch
PROPERTIES
    NoBackupUnderARunningAgent
    TheAgentComesBack
CHECK_DEADLOCK FALSE
