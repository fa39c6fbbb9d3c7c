SPECIFICATION Spec
CONSTANTS
  TransmitBufferSize = 4
  TransmitBound = 2
  RecvBufferSize = 3
  MinBody = 1
  ItemsA = 5
  ItemsB = 0
  WireA = 2
  WireB = 1
  MaxItems <- MCMaxItems
  WireCap <- MCWireCap
INVARIANTS TypeOK NoReceiveOverflow NoAliasing PacketsIntact AckSound
PROPERTY Streams
CHECK_DEADLOCK FALSE
