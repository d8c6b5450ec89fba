SPECIFICATION ControlSpec
CONSTANTS
  Builds = {"ours", "otherVersion", "otherIdentity", "malformed", "badSize"}
  Timeout = 2
  MayHang = TRUE
  Chunks = 2
  HeaderSize = 2
  MaxPacket = 6
  IoSize = 2
  InitialBuffer = 3
  Sizes = {1, 2, 3, 6, 7}
  Contents = {TRUE, FALSE}
  Ahead = 2
  MaxPackets = 3
INVARIANTS
  StartupTypeOK
  OpenedWithOurAgent
  NamesCanBeOpened
  PacketsInOrder
  KeepsReading
PROPERTIES
  OpenReturns
  NoOrphanAgent
  PacketsHandled
