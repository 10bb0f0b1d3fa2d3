SPECIFICATION Spec
CONSTANTS
  Places <- Elsewhere
  MaxWord = 2
  MaxRun = 3
  MaxSent = 1
INVARIANTS
  OwnedIsInPlace
PROPERTIES
  RetiredOnlyIfLeft
  LeftIsRetired
