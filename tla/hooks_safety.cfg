SPECIFICATION Spec
CONSTANTS
  Twins = {"keyboard"}
  Keys = {k1}
  MaxGen = 2
  MaxQueue = 1
  MaxLosses = 1
  None = None
INVARIANTS
  TypeOK
  SlotHoldsTheHook
  LocalKeysComeUp
PROPERTIES
  KeepsKeyPromise
