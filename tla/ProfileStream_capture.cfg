SPECIFICATION FairSpec
CONSTANTS
  Cases <- MCCases
  Losses = 2
  Ring = 2
  Quiet = 2
  Budget = 4
INVARIANTS CaptureIsSound
PROPERTY CaptureEnds
CHECK_DEADLOCK FALSE
