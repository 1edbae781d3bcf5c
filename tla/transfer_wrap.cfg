\* The serial numbers turn over; datagrams are lost but keep their order.
SPECIFICATION Spec
CONSTANTS
  MaxSN = 6
  MaxWindow = 2
  MinWindow = 1
  SlowStart = 1
  MaxEXP = 0
  MaxIdleTicks = 1
  SendBuffer = 3
  AdvertisedWindows = {0}
  WriteMayFail = FALSE
  Capacity = 2
  Reorder = FALSE
  Duplicate = FALSE
  Lossy = TRUE
  Stream = 7
  MaxBurst = 2
  BeginOrEnd = {}
  ControlNumbers = {}
INVARIANTS
  TypeOK
  NothingForgotten
  NothingStranded
  DatagramsTimely
PROPERTY
  RefinesReliableStream
