SPECIFICATION FairSpec
CONSTANTS
  Cases <- MCCases
  Gaps = 1
  Attempts = 2
INVARIANT FrozenClockIsKept
CHECK_DEADLOCK FALSE
