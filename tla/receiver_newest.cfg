SPECIFICATION Spec
CONSTANTS
  Sessions = {s1, s2}
  Inputs = {k1}
  None = None
  MaxOutbound = 0
INVARIANTS
  NewestOwnsOutbound
