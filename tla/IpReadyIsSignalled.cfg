SPECIFICATION Spec
CONSTANTS
    Clients = {c1, c2}
    NoClient = NoClient
    EventQueue = 2
    MaxProvisions = 1
CHECK_DEADLOCK FALSE
INVARIANTS
    IpReadyIsSignalled
