SPECIFICATION FairSpec
CONSTANTS
  N = 2
  ENTRY_WINDOWS <- MCWindows
  LAST_SLOT = 2
  MAX_HOLD_DAYS = 2
  MAX_CONCURRENT_POSITIONS = 1
  MAX_PER_SYMBOL = 2
  MAX_ENDS = 2
PROPERTIES
  ImplementsAuditedRule
  HoldEnds
  KillSwitchDrains
