SPECIFICATION Spec
CONSTANTS
    PowerMayFail = FALSE
    MaxEdits = 0
    MaxCrashes = 1
    MaxFaults = 0
INVARIANTS
    StartedRollbackContinues
CHECK_DEADLOCK FALSE
