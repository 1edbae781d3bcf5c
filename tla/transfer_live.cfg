\* Timers that keep firing, a network that loses one datagram.
SPECIFICATION LiveSpec
CONSTANTS
  MaxSN = 6
  MaxWindow = 2
  MinWindow = 1
  SlowStart = 1
  MaxEXP = 1
  MaxIdleTicks = 1
  SendBuffer = 4
  AdvertisedWindows = {0, 2}
  WriteMayFail = FALSE
  Capacity = 3
  Reorder = FALSE
  Duplicate = FALSE
  Lossy = TRUE
  Stream = 4
  MaxBurst = 2
  BeginOrEnd = {2}
  ControlNumbers = {}
  MaxLosses = 1
INVARIANT
  DatagramsTimely
PROPERTIES
  AllDelivered
  SenderDrains
