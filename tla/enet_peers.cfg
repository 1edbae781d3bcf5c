\* One slot, so that connections follow each other in it; two hosts.
SPECIFICATION FairSpec
CONSTANTS
  Slots = {s1}
  MaxIDs = 2
  MaxPackets = 2
  MaxListens = 2
  MaxTotal = 4
CHECK_DEADLOCK FALSE
INVARIANTS
  TypeOK
  HandedInOrder
  HostOutlivesService
  RegistryExact
PROPERTIES
  OwnConnection
  QueuedIsHanded
  CloseReturns
