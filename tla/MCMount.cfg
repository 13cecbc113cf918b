CONSTANTS
    MaxClients = 2
    MaxPid = 2
    MaxSuffix = 1
    IsDev = TRUE
    MaxCommands = 3
    MaxEvents = 1
SPECIFICATION FairSpec
INVARIANTS
    TypeOK
    OneServer
    UmountIsDurable
    Tracked
PROPERTIES
    MountedNotStopped
    Termination
