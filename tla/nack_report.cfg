\* Windows over the numbers that equal a separator, and over the wrap.
SPECIFICATION Spec
CONSTANTS
  MaxSN = 54
  MaxWindow = 9
  WindowStarts = {1, 34, 36, 38, 40, 41, 42, 43, 44, 45, 46, 50, 52, 54}
INVARIANTS
  FirstLossesUnderstood
  NothingBeyondReport
