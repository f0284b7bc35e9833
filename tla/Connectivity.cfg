SPECIFICATION FairSpec
CONSTANTS
    Clients = {c1, c2}
    NoClient = NoClient
    EventQueue = 2
    MaxProvisions = 2
CHECK_DEADLOCK FALSE
INVARIANTS
    TypeOK
    BitsAreTrue
    LinkIsFollowed
    UpMatches
    ProvisioningStartsOne
    TasksCanRun
PROPERTIES
    TasksReturn
    Reconnects
