SPECIFICATION FairSpec
CONSTANTS
  Engines = {"router", "seamless", "legacy"}
  Screens = {a, b}
  Peer = a
  Keys = {k}
  MaxThreads = 1
  MaxChannels = 1
  MaxHooks = 1
  None = None
PROPERTIES
  StopGivesInputBack
  DeadLinkReturnsControl
  DisconnectedSessionEnds
  EmergencyEndsControl
