SPECIFICATION FairSpec
CONSTANTS
    SampleCap = 1
    TelemetryCap = 2
    Pumps = {p1, p2}
    MaxSeq = 4
CHECK_DEADLOCK FALSE
INVARIANTS
    TypeOK
    Accounted
    OrderIsKept
    TasksCanRun
PROPERTIES
    StreamSpec
    OneSampleAfterShutdown
    EverySampleSettles
