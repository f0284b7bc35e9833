SPECIFICATION Spec
CONSTANTS
    OtaTask = {1}
    MaxCommands = 2
    MaxProvisions = 2
    MaxFailures = 0
    MaxCuts = 1
CHECK_DEADLOCK FALSE
INVARIANT
    PulsesAreCounted
