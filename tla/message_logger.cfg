\* Two logging threads beside the logger's own, crashes everywhere.
SPECIFICATION FairSpec
CONSTANTS
  Main = Main
  Others = {Worker}
  Logger = Logger
  MaxMessages = 1
  MayCrash = {Main, Worker, Logger}
CHECK_DEADLOCK FALSE
INVARIANTS
  OnceInOrder
  StopFlushes
PROPERTIES
  EveryMessageWritten
  StopEnds
