SPECIFICATION Spec
CONSTANTS
  Equities = {2, 3, 4}
  PlannedRisks = {0, 1}
  INTERNAL_DRAWDOWN = 5000
  FIRM_DRAWDOWN = 6000
  DAILY_LOSS = 1800
  MAX_TRADES_PER_DAY = 2
  MAX_CONSECUTIVE_LOSSES = 1
  COOLDOWN = 1
  MAX_PLANNED = 1
  MAX_RESTARTS = 1
  MAX_UNREPORTED = 1
  MAX_MISREADS = 1
  MAX_LOSSES = 1
  MAX_RESERVED = 1
INVARIANTS
  TypeOK
  PeakIsHighest
  OpensBounded
PROPERTIES
  NoOpenPastLimits
