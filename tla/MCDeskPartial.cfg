SPECIFICATION MCSpec
CONSTANTS
  Tickets = {t1, t2}
  Plans = {p1, p2}
  SoundPlans = {p1, p2}
  MarketPlans = {p2}
  NoPlan = NoPlan
  FRESH = 2
  Lives = {2}
  MAX_TIME = 3
  MAX_ORDERS = 2
  RISK = 2
  BUFFER = 1
  TARGET = 5
  VOLUME = 5
  Prices = {0, 1, 2, 3, 4, 5}
  Names = {"US30", "EURUSD"}
  MAX_RECORDS = 2
  LARGE = 1
  SLACK = 2
  MAX_WRITTEN = 5
  MAX_CUTS = 1
  LAST_DAY = 2
  Blocks = {1, 8}
  MAX_BLOCKED = 17
  Copies = {1, 24}
  MAX_TRADES_REPLAYED = 50
INVARIANTS
  PartialOnlyAt2R
CHECK_DEADLOCK FALSE
