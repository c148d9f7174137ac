SPECIFICATION OverlapSpec
CONSTANTS
    PowerMayFail = FALSE
    MaxEdits = 0
    MaxCrashes = 0
    MaxFaults = 0
PROPERTIES
    TerminalPhasesStay
CHECK_DEADLOCK FALSE
