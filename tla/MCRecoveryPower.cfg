SPECIFICATION OverlapSpec
CONSTANTS
    PowerMayFail = TRUE
    MaxEdits = 2
    MaxCrashes = 3
    MaxFaults = 3
INVARIANTS
    OriginalSurvives
    CrashConsistent
    InterruptedSwapIsRecognised
PROPERTIES
    RollbackLeavesDatabase
CHECK_DEADLOCK FALSE
