SPECIFICATION Spec
CONSTANTS
  MinGate = 2
  PlanFloor = 3
  Guard = 2
  Modes = {TRUE, FALSE}
  Lag = 1
  MaxStep = 1
  Horizon = 7
INVARIANTS EvidenceIsSound EarlyStopIsSound
CHECK_DEADLOCK FALSE
