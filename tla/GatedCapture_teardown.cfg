CONSTANTS
  OptionalStreams <- GateAndState
  RequireDone = TRUE
  Lockstep = FALSE
SPECIFICATION Spec
INVARIANTS LeavesInstrument
CHECK_DEADLOCK FALSE
