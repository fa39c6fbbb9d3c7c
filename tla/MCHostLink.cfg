SPECIFICATION Spec
CONSTANTS
  WordsPerReply = 4
  MaxSessions = 2
  FlitBytes = 2
  DMAFlits = 2
  SocketBytes = 3
  BridgeFlits = 1
  NumCores = 2
  NumDRAMs = 1
  InboxSlots = 1
  NumSRAMs = 1
  SendBufferFlits = 4
  MaxFlitsPerMsg = 1
  Code <- MCCode
  Data <- MCData
  Heap <- MCHeap
CHECK_DEADLOCK FALSE
INVARIANTS StreamIntact LoadedBeforeRun
PROPERTY BootCompletes
