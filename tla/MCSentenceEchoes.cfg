SPECIFICATION SpecEchoes
CONSTANTS
  MaxEchoes = 4
  MaxInserted = 3
  MaxLetters = 2
  MaxText = 2
  MaxReports = 3
INVARIANTS
  WithinCaps
  TailIsClient
  SettledAgrees
PROPERTIES
  LateReportsAreEchoes
