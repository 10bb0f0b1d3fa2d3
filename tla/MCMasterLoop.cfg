SPECIFICATION Spec
CONSTANTS
  c = c
  d = d
  Completions <- Words
  MaxWord = 3
SYMMETRY WordSymmetry
INVARIANTS
  LeaseSound
  OneAttribution
  BlameFollowsAccept
PROPERTIES
  SpaceTakesWhatIsShown
  SuppressedNotDisplayed
