SPECIFICATION Spec
CONSTANTS
  MaxText = 3
  MaxGhost = 1
  TokenEdits = FALSE
  DelimiterChords = FALSE
PROPERTY KillSwitchDelivers
