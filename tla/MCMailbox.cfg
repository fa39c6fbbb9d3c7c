SPECIFICATION Spec
CONSTANTS
  NumCores = 1
  ThreadsPerCore = 2
  NumSlots = 3
  NumSendSlots = 1
  QueueSize = 2
  McastBufferSize = 1
  MaxFlits = 2
  MaxMsgs = 3
  Lengths = {2}
  DestSets = {{1}, {0, 1}}
  Senders = {}
INVARIANTS TypeOK SlotsAccounted HeldIntact
PROPERTY Multicast
