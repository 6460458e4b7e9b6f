SPECIFICATION Spec
CONSTANTS
  Commands = {ctrl}
  Controls = {}
  Letters = {c}
  Toggles = {zenkaku}
  MaxGen = 2
  MaxQueue = 1
  MaxActs = 3
  None = None
INVARIANTS
  TypeOK
  WindowIffOn
  PassThroughIffOn
  
  CaptureHasOwner
CHECK_DEADLOCK FALSE
