SPECIFICATION AccessSpec
CONSTANTS
  Callers = {c1, c2}
  MaxRequests = 2
  MaxTime = 0
  MaxFaults = 0
  MaxCrashes = 0
  Users = {u1, u2}
  LoginLimit = 2
  LoginWindow = 1
  Cooldown = 1
  Retention = 1
INVARIANT LastAdminProtected
CHECK_DEADLOCK FALSE
