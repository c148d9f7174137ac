SPECIFICATION PortalSpec
CONSTANTS
  Subjects = {"migration", "restore", "runs", "life", "catalog", "health", "directory"}
  Callers = {c1, c2}
  MaxRequests = 5
  MaxTime = 2
  MaxFaults = 1
  MaxCrashes = 1
  Latest = 3
  Automatic = 1
  Ttl = 1
  Attempts = 2
  Wiring = {TRUE, FALSE}
  Approvers = {u1}
  MaxNeeded = 1
  Window = 1
  Users = {u1}
  LoginLimit = 2
  LoginWindow = 1
  Cooldown = 1
  Retention = 0
  Drafts = {d1}
  LockTtl = 0
  MaxTable = 2
  Cleared = {2}
  MaxContent = 1
  Lifetime = 1
  SyncTtl = 0
  MaxVersion = 1
  Services = {s1, s2}
  CacheTtl = 1
  MaxUsers = 3
  Concurrency = 2
SYMMETRY Symmetry
VIEW View
INVARIANTS
  PortalTypeOK
  ProgressIsJournaled FinishedIsComplete InterruptedIsUntouched LateBatchesOnce
  FinishedRunFinishedJob DatabaseOutlivesWork
  SyncsExclusive BulkAnswerIsTrue
PROPERTIES
  UpgradesInOrder RestoreIsRecoverable HealthGoesForward
CHECK_DEADLOCK FALSE
