SPECIFICATION FairSpec
CONSTANTS
    Senders = {s1, s2}
    Receivers = {r1, r2}
    Length = 2
    MaxSends = 4
CHECK_DEADLOCK FALSE
INVARIANTS
    TypeOK
    SlotsAccounted
PROPERTIES
    BoundedQueueSpec
    EverythingIsReceived
