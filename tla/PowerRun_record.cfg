SPECIFICATION FairSpec
CONSTANTS
  Cases <- MCCases
  Gaps = 1
  Attempts = 2
INVARIANT PublishedIsSound
PROPERTY PowerRunEnds
CHECK_DEADLOCK FALSE
