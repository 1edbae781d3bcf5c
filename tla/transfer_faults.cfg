\* No turn of the serial numbers; datagrams are lost, reordered, duplicated, and writes fail.
SPECIFICATION Spec
CONSTANTS
  MaxSN = 12
  MaxWindow = 2
  MinWindow = 1
  SlowStart = 1
  MaxEXP = 0
  MaxIdleTicks = 1
  SendBuffer = 3
  AdvertisedWindows = {0, 2}
  WriteMayFail = TRUE
  Capacity = 2
  Reorder = TRUE
  Duplicate = TRUE
  Lossy = TRUE
  Stream = 3
  MaxBurst = 2
  BeginOrEnd = {2}
  ControlNumbers = {9}
INVARIANT
  LossListExact
PROPERTY
  RefinesReliableStream
