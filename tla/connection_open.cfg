\* Nothing is lost, nobody closes: one or both ends connect.
SPECIFICATION LiveSpec
CONSTANTS
  EndPoint = {"a", "b"}
  ConnectTicks = 2
  MaxChecks = 2
  GoodbyeMayWait = FALSE
  MaxConnects = 2
  MaxCloses = 0
  MaxData = 0
  MaxFaults = 0
  Capacity = 4
  Reorder = FALSE
  Duplicate = FALSE
  Lossy = FALSE
INVARIANTS
  TypeOK
  SameSession
  KeptAlive
PROPERTY
  Established
CHECK_DEADLOCK FALSE
