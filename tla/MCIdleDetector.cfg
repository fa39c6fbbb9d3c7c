SPECIFICATION Spec
CONSTANTS
  NumBoards = 2
  c1 = c1
  c2 = c2
  c3 = c3
  t1 = t1
  t2 = t2
  t3 = t3
  Host = host
  Cores <- MCCores3
  Threads <- MCThreads3
  BoardOf <- MCBoardOf3
  CoreOf <- MCCoreOf3
  Votes = {TRUE, FALSE}
  MaxMsgs = 1
INVARIANTS TypeOK BarrierSafe OneToken ReleaseSound VoteUnanimous
PROPERTY DetectionSound
