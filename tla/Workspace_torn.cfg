SPECIFICATION Spec
CONSTANTS
  Runs = {r1, r2}
  None = None
  Torn = Torn
  Mishaps <- PartWay
  MaxLock = 2
  MaxStarts = 3
INVARIANT HalfDeletedIsRepaired
CHECK_DEADLOCK FALSE
