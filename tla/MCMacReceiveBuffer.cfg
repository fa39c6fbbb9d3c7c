SPECIFICATION FairSpec
CONSTANTS
  Size = 4
  MaxBeats = 8
PROPERTIES WholePackets EventuallyReady EventuallyOut
CHECK_DEADLOCK FALSE
