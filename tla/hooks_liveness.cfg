SPECIFICATION FairSpec
CONSTANTS
  Twins = {"keyboard", "mouse"}
  Keys = {}
  MaxGen = 2
  MaxQueue = 1
  MaxLosses = 1
  None = None
PROPERTIES
  StopRestoresLocalInput
  OrphanedHookLetsGo
