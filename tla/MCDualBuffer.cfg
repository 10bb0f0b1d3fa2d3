SPECIFICATION Spec
CONSTANTS
  Support <- MCSupport
  LockPercent = 85
  MinLockChars = 4
  MaxLen = 6
INVARIANTS LockCoherent LockHasEvidence NoDeadWinner
PROPERTIES ScriptStable ImplementsTokenLock
