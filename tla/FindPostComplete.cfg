\* A login that fails after the maintenance has ended.
SPECIFICATION OnlineSpec
CONSTANTS
  Controllers = {cli, operator}
  Users = {admin}
  Cli = cli
  Administrator = admin
  MaxOperations = 1
  MaxTime = 0
  Ttl = 1
  MaxStops = 1
PROPERTY PostCompleteIsMarked
CHECK_DEADLOCK FALSE
