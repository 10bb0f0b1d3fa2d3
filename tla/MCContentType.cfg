SPECIFICATION Spec
CONSTANTS
  Fields = {f1, f2}
  Declared <- MCDeclared
  Free <- MCFree
  Stops = {TRUE, FALSE}
  Modes = {"preedit", "direct"}
  MaxQueue = 2
INVARIANTS SecretNeverRead NoCarryOver
PROPERTIES ReleaseAnswersLatest OwedReleaseGranted
