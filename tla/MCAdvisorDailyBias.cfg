SPECIFICATION MCSpec
CONSTANTS
  Symbols = {"US30", "BTCUSD"}
  Observers = {"BTCUSD"}
  Confidences = {35, 42, 55, 60, 80}
  COOLDOWN = 3
  DELTA = 5
  INTERVAL = 1
  Magnitudes = {3, 8}
  Bands = {"COLD", "HOT", "EXECUTION_READY"}
  MAX_SCANS = 3
  Order <- MCOrder
  DAY = 45
  Hour = {5, 6, 7, 8, 9, 10, 11, 12, 13, 14, 15, 16, 17, 18, 19, 20, 21, 22, 23, 24, 25, 26, 27, 28, 29, 30, 31, 32, 33, 34}
  PAUSE = 5
  DAYS = 2
  MAX_FAULTS = 2
  Grades = {"A", "C"}
  Markets = {"US30", "EURUSD"}
  Minutes = {420, 750, 840}
  Vetoes = {"none", "risk"}
  TargetKinds = {"none", "external"}
  Equities = {0, 1200, 1600, 2400, 2800, 4800, 16000}
  Costs = {0, 4, 8, 12, 16, 28}
  RISK_PERCENT = 1
  CAP_PERCENT = 2
  MIN_STEPS = 2
  MAX_STEPS = 9
  SweepLevels = {0, 17, 33}
  PRICE = 24
  BUFFER = 1
  FALLBACK = 5
  STRENGTH = 1
  RECENCY = 3
  TOP = 8
  FORWARD = 3
  COST = 10
  HORIZON = 2
  Ratios = {120, 160}
  Endings = {"WIN", "LOSS", "BREAKEVEN"}
  MAX_TRADES = 2
  FirstDay = 5
  LastDay = 7
  MAX_REQUESTS = 3
  MAX_HALTS = 2
  BASE = 4000
  BUDGET = 10000
  CLUSTER_RISK = 6000
  MAX_OPEN = 2
  MAX_SAME = 1
  Regimes = {"TREND"}
  MAX_HELD = 10
INVARIANT DailyNeeded
CHECK_DEADLOCK FALSE
