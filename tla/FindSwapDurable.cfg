SPECIFICATION Spec
CONSTANTS
    PowerMayFail = TRUE
    MaxEdits = 0
    MaxCrashes = 1
    MaxFaults = 1
INVARIANTS
    SwappedIsDurable
CHECK_DEADLOCK FALSE
