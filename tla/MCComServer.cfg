SPECIFICATION SpecServer
CONSTANTS
  t1 = t1
  t2 = t2
  t3 = t3
  Threads <- ThreadSet
  MaxCount = 2
  MaxAgain = 2
SYMMETRY ThreadSymmetry
INVARIANTS
  UnloadSpares
PROPERTIES
  ImplementsCounters
