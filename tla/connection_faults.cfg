\* A datagram is lost or a process crashes while applications connect, send and close.
SPECIFICATION LiveSpec
CONSTANTS
  EndPoint = {"a", "b"}
  ConnectTicks = 2
  MaxChecks = 2
  GoodbyeMayWait = TRUE
  MaxConnects = 1
  MaxCloses = 1
  MaxData = 1
  MaxFaults = 1
  Capacity = 2
  Reorder = FALSE
  Duplicate = FALSE
  Lossy = TRUE
INVARIANT
  NeverWithoutTimer
PROPERTIES
  AttemptEnds
  DeadPeerNoticed
CHECK_DEADLOCK FALSE
