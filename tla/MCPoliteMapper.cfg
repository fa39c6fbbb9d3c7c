CONSTANTS
  MeshX = 2
  MeshY = 2
  BoxX = 2
  BoxY = 1
  NumMailboxes = 2
  ChunksPerBeat = 3
  MaxKeyBeats = 31
  RouterBeats = 4
  ThreadsPerMailbox = 2
  ThreadsPerCore = 2
  ThreadsPerDRAM = 2
  NumPins = 2
  EdgesPerHeader = 1
  WordBits = 2
  InvalidKey = 4
  RestLimit = 1
  PlacerEffort = 2
  WordsPerReply = 4
  SRAMBase = 200
  SRAMPart = 10
  SRAMStack = 2
  DRAMTop = 100
  DRAMPart = 16
  DRAMStack = 2
  RouterBase = 1
  RouterChunk = 2
  MaxStore = 2
  PinBaseLimit = 65536
  Programs <- MCPrograms
  Configs <- MCConfigs
  DRAMChoices <- MCDRAM
SPECIFICATION Spec
INVARIANTS TablesDeliver ImageLoaded
PROPERTY SearchConverges
