SPECIFICATION CliSpec
CONSTANTS
    PowerMayFail = FALSE
    MaxEdits = 0
    MaxCrashes = 1
    MaxFaults = 0
INVARIANTS
    RestoreRerunAdmitted
CHECK_DEADLOCK FALSE
