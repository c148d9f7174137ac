\* Two controllers that overlap, or one replacement, its verification and
\* possibly another maintenance.
SPECIFICATION MCSpec
CONSTANTS
  Controllers = {cli, operator}
  Users = {admin, u}
  Cli = cli
  Administrator = admin
  MaxOperations = 2
  MaxTime = 1
  Ttl = 1
  MaxStops = 2
INVARIANTS
  AnswersTellTruth TransitionsHappenOnce OldSessionsRevoked
  VerifiedIsReopened VerifiedIsLoggedOut RestoredIsQuiet
PROPERTIES KeepsTheWindow RequestsDrain
CHECK_DEADLOCK FALSE
