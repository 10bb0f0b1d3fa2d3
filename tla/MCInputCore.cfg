SPECIFICATION Spec
CONSTANTS
  MaxText = 5
  MaxGhost = 2
  TokenEdits = FALSE
  DelimiterChords = FALSE
INVARIANTS Ownership TokenInPlace Conserved GhostBelongs HintSound
PROPERTY OwnedNeverLearned
