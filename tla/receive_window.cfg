\* Two turns of the serial numbers, every arrival order.
SPECIFICATION Spec
CONSTANTS
  MaxSN = 6
  MaxWindow = 2
  MaxIdleTicks = 2
  Stream = 13
INVARIANTS
  WindowInvariant
  RefusesOnlyDelivered
  ProgressIsReported
PROPERTY
  DeliversWholeRun
