SPECIFICATION FairSpec
CONSTANTS
    BufLen = 4
    MaxFragment = 2
    CommandCap = 1
    MaxWrites = 4
    MaxCommands = 1
CHECK_DEADLOCK FALSE
INVARIANTS
    TypeOK
    JsonsAreSound
    Discoverable
PROPERTIES
    StreamSpec
    QueuedIsHandled
