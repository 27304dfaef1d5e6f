SPECIFICATION FairSpec
CONSTANTS
  Supervisors = {s1, s2}
  Engines = {e1, e2}
  NoOne = NoOne
  STALE = 1
  DATA_STALE = 3
  GRACE = 1
  STARTUP = 0
  MAX_FAULTS = 2
INVARIANTS
  TypeOK
  OneBookIfUndisturbed
PROPERTIES
  NoKillLoop
  EngineBack
  DeadFeedCaught
