SPECIFICATION Spec
CONSTANTS
  Jobs = {j1}
  Workers = {w1, w2}
  BothFormats = {j1}
  NoJob = NoJob
  CacheKey <- MCCacheKey
  Formats <- MCFormats
  Limit <- MCLimit
  MaxRetries = 1
  Crashes = 1
  Errors = 2
  Slowdowns = 1
  Refusals = 1
CHECK_DEADLOCK FALSE
INVARIANTS TypeOK RowsAreBacked NeverForgotten
PROPERTY PublishesOnce
SYMMETRY Symmetry
