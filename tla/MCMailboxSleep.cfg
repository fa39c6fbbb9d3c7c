SPECIFICATION FairSpec
CONSTANTS
  NumCores = 1
  ThreadsPerCore = 2
  NumSlots = 2
  NumSendSlots = 0
  QueueSize = 2
  McastBufferSize = 1
  MaxFlits = 1
  MaxMsgs = 3
  Lengths = {1}
  DestSets = {{1}}
  Senders = {0}
INVARIANTS OnePlace ReceiveReady
PROPERTIES NoLostWakeup EventuallyReady
