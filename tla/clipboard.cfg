SPECIFICATION FairSpec
CONSTANTS
  Named = {a}
  Direct = {d}
  Hub = hub
  Syncing = {hub, a, d}
  MaxQueue = 2
  MaxSignals = 1
  MaxSends = 3
  MaxOld = 1
  MaxHands = 1
  MaxActs = 3
INVARIANTS
  TypeOK
  GuardMatches
  Converged
PROPERTIES
  NoEcho
  ComesToRest
CHECK_DEADLOCK FALSE
