SPECIFICATION FairSpec
CONSTANTS
  Runs = {r1, r2}
  None = None
  Torn = Torn
  Mishaps <- PartWay
  MaxLock = 2
  MaxStarts = 3
INVARIANTS OwnArtifacts BuildsVerifiedModules
PROPERTIES EveryRunEnds
CHECK_DEADLOCK FALSE
