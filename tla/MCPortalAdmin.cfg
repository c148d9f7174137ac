SPECIFICATION PortalSpec
CONSTANTS
  Subjects = {"approvals", "access", "settings"}
  Callers = {c1, c2}
  MaxRequests = 5
  MaxTime = 2
  MaxFaults = 1
  MaxCrashes = 1
  Latest = 3
  Automatic = 1
  Ttl = 1
  Attempts = 2
  Wiring = {TRUE, FALSE}
  Approvers = {u1, u2}
  MaxNeeded = 2
  Window = 1
  Users = {u1, u2}
  LoginLimit = 2
  LoginWindow = 1
  Cooldown = 1
  Retention = 0
  Drafts = {d1, d2}
  LockTtl = 0
  MaxTable = 2
  Cleared = {2}
  MaxContent = 1
  Lifetime = 1
  SyncTtl = 0
  MaxVersion = 1
  Services = {s1, s2}
  CacheTtl = 1
  MaxUsers = 3
  Concurrency = 2
SYMMETRY Symmetry
VIEW View
INVARIANTS
  LaunchIsApproved FailedWasNotLaunched StuckOnlyAfterFailure PendingIsUndecided
  AdminRemains ResetRevokes LimitIsEnforced
  CommittedOnce RolledBackIsOut FinalStatusIsTrue
PROPERTIES
  LaunchesAsApproved RollbackIsOwn
CHECK_DEADLOCK FALSE
