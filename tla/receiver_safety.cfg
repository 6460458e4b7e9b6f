SPECIFICATION Spec
CONSTANTS
  Sessions = {s1, s2}
  Inputs = {k1}
  None = None
  MaxOutbound = 1
SYMMETRY Symmetry
INVARIANTS
  TypeOK
  StuckInputHasOwner
  HeldInputIsWatched
  NewestWins
PROPERTY AbortSparesLaterSessions
