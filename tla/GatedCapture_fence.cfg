CONSTANTS
  OptionalStreams <- GateStream
  RequireDone = FALSE
  Lockstep = TRUE
SPECIFICATION FairSpec
INVARIANTS TypeOK NobodyInsideAfterDrain ErrorPrecedence
PROPERTIES FenceSpec BothEnd
CHECK_DEADLOCK FALSE
