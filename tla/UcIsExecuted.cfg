SPECIFICATION Spec
CONSTANTS
    BufLen = 4
    MaxFragment = 2
    CommandCap = 1
    MaxWrites = 1
    MaxCommands = 2
CHECK_DEADLOCK FALSE
INVARIANT
    UcIsExecuted
