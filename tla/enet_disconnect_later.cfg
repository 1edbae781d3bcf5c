\* One connection, one packet, disconnectLater.
SPECIFICATION FairSpec
CONSTANTS
  Slots = {s1}
  MaxIDs = 1
  MaxPackets = 1
  MaxListens = 1
  MaxTotal = 3
CHECK_DEADLOCK FALSE
PROPERTIES
  QueuedSentBeforeDisconnect
