SPECIFICATION Spec
CONSTANTS
    MaxCommands = 3
    KFactors = {1, 2}
    MaxPulses = 3
    Temps = {0, 1, 2}
    Vibs = {0, 1, 2}
    Readings = {0, 1, 2}
    Scales = {0, 1, 2}
    Limits = {1, 6}
    Millivolts = {0, 199, 3300}
    FrameIds = {5, 255}
    MaxSession = 3
    MaxBusOff = 1
    Moistures = {10, 60}
    Degrees = {4, 9}
    SleepTimes = {0, 5, 3600, 3601}
    MaxSilence = 26
CHECK_DEADLOCK FALSE
PROPERTY
    LatchedFaultsStay
