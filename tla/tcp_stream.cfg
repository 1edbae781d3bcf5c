\* Empty and one-byte messages, cut anywhere, all ways to end the connection.
SPECIFICATION FairSpec
CONSTANTS
  Word = 2
  Bodies = {0, 1}
  MaxMessages = 2
  MaxReplies = 1
  Unaligned = {0, 1}
  MayBreak = TRUE
CHECK_DEADLOCK FALSE
INVARIANTS
  TypeOK
  DataWithinSession
  GoodbyeLast
PROPERTIES
  EachEndGetsStream
  EveryMessageProcessed
  CloseIsHeard
