SPECIFICATION Spec
CONSTANTS
  MaxText = 5
  MaxWord = 3
CHECK_DEADLOCK FALSE
INVARIANTS InStep EachKeyOnce TimersBelong
PROPERTIES NeverRevised ModesCarryNoWord ModeFollowsCapabilities
