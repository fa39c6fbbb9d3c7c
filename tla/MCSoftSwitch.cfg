CONSTANTS
  MeshX = 2
  NumMailboxes = 2
  ChunksPerBeat = 3
  MaxKeyBeats = 31
  RouterBeats = 9
  ThreadsPerMailbox = 2
  NumPins = 2
  EdgesPerHeader = 1
  WordBits = 2
  InvalidKey = 16
  RestLimit = 16
  IntMax = 9
  NumNeighbours = 2
  MaxTime = 5
  NetCap = 2
  Jobs <- MCJobs
SPECIFICATION SimSpec
INVARIANTS SendersExact Answers
PROPERTIES Simulates EventuallyAnswered
CHECK_DEADLOCK FALSE
