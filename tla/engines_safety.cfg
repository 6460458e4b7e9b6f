SPECIFICATION Spec
CONSTANTS
  Engines = {"router", "seamless", "legacy"}
  Screens = {a}
  Peer = a
  Keys = {k}
  MaxThreads = 2
  MaxChannels = 1
  MaxHooks = 2
  None = None
INVARIANTS
  TypeOK
  OnlySlotChangesStrandKeys
PROPERTIES
  GivesInputBack
