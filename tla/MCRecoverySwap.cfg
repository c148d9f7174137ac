SPECIFICATION Spec
CONSTANTS
    PowerMayFail = FALSE
    MaxEdits = 2
    MaxCrashes = 3
    MaxFaults = 3
INVARIANTS
    SwappedAgrees
    RetainedIsExact
PROPERTIES
    CommandsFollowPhases
    ReplacesAtomically
CHECK_DEADLOCK FALSE
