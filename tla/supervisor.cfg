SPECIFICATION FairSpec
CONSTANTS
  MaxGen = 2
  Peers = {p, q}
  MaxFaults = 1
  Capture = TRUE
  None = None
  Dead = Dead
INVARIANTS
  TypeOK
  SlotIsLive
  AtMostOneLateAttempt
PROPERTIES
  NewestConnects
  ClearedSlotEndsSession
