SPECIFICATION FairSpec
CONSTANTS
  HOUR = 12
  TOLERANCE = 1
  OFFSET_CONFIRMATIONS_REQUIRED = 3
  OFFSET_CONFIRMATION = 9
  MAX_TICK_AGE = 0
  Offsets = {2, 3}
  MAX_AGE = 14
  MAX_GAP = 4
  MAX_RESTARTS = 1
INVARIANTS
  TypeOK
  StaleQuoteNeedsCause
PROPERTIES
  NoFalseChange
  ChangeLands
