SPECIFICATION FairSpec
CONSTANTS
  TransmitBufferSize = 2
  TransmitBound = 1
  RecvBufferSize = 2
  MinBody = 1
  ItemsA = 3
  ItemsB = 0
  WireA = 1
  WireB = 1
  MaxItems <- MCMaxItems
  WireCap <- MCWireCap
PROPERTY EventuallyDelivered
CHECK_DEADLOCK FALSE
