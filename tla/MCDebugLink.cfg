SPECIFICATION Spec
CONSTANTS
  BoxMeshXLen = 1
  BoxMeshYLen = 2
  MeshXBits = 0
  MeshXLenInBox = 1
  MeshYLenInBox = 1
  NumCores = 1
  UartBytes = 1
  TcpPackets = 1
  UartBufferBytes = 5
  ServeBytes = 1
  MaxSessions = 2
  HotBoards <- MCHotBoards
  KillAt = {"askTemp", "setDest", "put", "poll"}
  MaxConnectionAttempts = 1
  MaxLineLen = 2
INVARIANT TopologySound
PROPERTY ClientsServed
CHECK_DEADLOCK FALSE
