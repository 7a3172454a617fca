SPECIFICATION Spec
CONSTANTS
  Jobs = {j1, j2}
  CacheKey <- OneKey
  Cleaners = {c1, c2}
  Retention = 1
  Quota = 4
  BatchSize = 2
  MaxTime = 2
  MaxFailures = 1
INVARIANTS TypeOK UnbackedIsExpired ServedIsValid InvalidationHolds MeterExact NoOrphans
PROPERTY DeletedOnTime
SYMMETRY Symmetry
CHECK_DEADLOCK FALSE
