SPECIFICATION Spec
CONSTANTS
  MaxText = 3
  MaxGhost = 1
  TokenEdits = TRUE
  DelimiterChords = FALSE
PROPERTY RewritesForwardedLetters
