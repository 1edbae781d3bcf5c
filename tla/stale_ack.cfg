\* ACKs overtake one another while the serial numbers turn over.
SPECIFICATION Spec
CONSTANTS
  MaxSN = 6
  MaxWindow = 2
  MinWindow = 1
  SlowStart = 1
  MaxEXP = 0
  MaxIdleTicks = 1
  SendBuffer = 3
  AdvertisedWindows = {0, 2}
  WriteMayFail = FALSE
  Capacity = 2
  Reorder = TRUE
  Duplicate = FALSE
  Lossy = TRUE
  Stream = 5
  MaxBurst = 1
  BeginOrEnd = {}
  ControlNumbers = {}
INVARIANT
  NothingForgotten
