SPECIFICATION Spec
CONSTANTS
  BoxMeshXLen = 1
  BoxMeshYLen = 2
  MeshXBits = 0
  MeshXLenInBox = 1
  MeshYLenInBox = 1
  NumCores = 1
  UartBytes = 1
  TcpPackets = 1
  UartBufferBytes = 5
  ServeBytes = 1
  MaxSessions = 2
  HotBoards = {}
  KillAt = {"response", "getTemp"}
  MaxConnectionAttempts = 0
  MaxLineLen = 2
INVARIANTS WorkersInPlace OutputIntact
CHECK_DEADLOCK FALSE
