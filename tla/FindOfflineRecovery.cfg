\* A prepare, an enter, a stop, the replacement and the offline recovery.
SPECIFICATION OnlineSpec
CONSTANTS
  Controllers = {cli, operator}
  Users = {admin}
  Cli = cli
  Administrator = admin
  MaxOperations = 1
  MaxTime = 0
  Ttl = 1
  MaxStops = 1
INVARIANT InactiveIsOpen
CHECK_DEADLOCK FALSE
