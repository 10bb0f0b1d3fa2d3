SPECIFICATION Spec
CONSTANTS
  Words = {"old", "new"}
  Stems = {"o", "n", "t", "x"}
  Scopes = {"s"}
  Corpus = {"old"}
  Matches <- MCMatches
  Fallback = {"t"}
  Capacity = 2
  UseHedge = TRUE
  DecayInterval = 2
  MinObservations = 2
  MaxProfile = 2
  MaxSeen = 2
INVARIANTS HitsAreCurrent LeastRecentFirst
