SPECIFICATION Spec
INVARIANT SuppressedIsNotPublished
CONSTANTS
  Preparers = {p1, p2}
  Installed = old
  None = None
  OnDesk = {"a", "b"}
  Glitches = 1
  Dirs = {d1, d2}
  Builders = {b1, b2}
  Runners = {r1, r2}
  Evidence <- MCEvidence
  Accidents = 1
  Nothing = Nothing
  Junk = Junk
  Reports = 2
  Bundles = {s1, s2}
  c1 = c1
  c2 = c2
  Order <- MCOrder
  Placed = {c1}
  Powered = {c2}
  Sweeps = 2
  Boards <- MCBoards
  Models <- MCModels
  Requests <- MCRequests
  Duels <- MCDuels
  Profiles <- MCProfiles
  Units <- MCUnits
  Losses <- MCLosses
  Drifts <- MCDrifts
  Rates <- MCRates
  Arenas <- MCArenas
  Weights <- MCWeights
  Changes = 1
  MaxOps = 3
  Intents <- MCIntents
  IntentLayers <- MCIntentLayers
  MaxLayers = 2
  Catalogue <- MCCatalogue
  ComputeHosts <- MCComputeHosts
  Registered <- MCRegistered
  QualifiedRef <- MCQualifiedRef
  EngineModules <- MCEngineModules
  MaxFaults = 4
SYMMETRY MCSymmetry
CHECK_DEADLOCK FALSE
