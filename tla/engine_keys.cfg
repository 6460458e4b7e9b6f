SPECIFICATION Spec
CONSTANTS
  Engines = {"router"}
  Screens = {a}
  Peer = a
  Keys = {k}
  MaxThreads = 1
  MaxChannels = 1
  MaxHooks = 1
  None = None
INVARIANTS
  KeysComeHome
