SPECIFICATION Spec
CONSTANTS
  e1 = e1
  e2 = e2
  p1 = p1
  p2 = p2
  Engines <- EngineSet
  Pairs <- PairSet
  Words = {"new"}
  Corpus = {}
  Capacity = 1
  Actuals = {"a"}
  Threshold = 2
  MaxEntries = 1
  MaxTaught = 2
  MaxClock = 3
SYMMETRY Symmetries
INVARIANTS
  TrustEarned
  OverrideEarned
  RestartKeepsEvidence
