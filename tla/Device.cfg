SPECIFICATION FairSpec
CONSTANTS
    OtaTask = {1, 2}
    MaxCommands = 2
    MaxProvisions = 2
    MaxFailures = 1
    MaxCuts = 2
CHECK_DEADLOCK FALSE
INVARIANTS
    TypeOK
    CacheIsStored
    WholePair
    DriverIsStored
    BootCanGoOn
PROPERTIES
    SettingsKeepCredentials
    UpdateSpec
    TrialEnds
