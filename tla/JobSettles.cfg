SPECIFICATION FairSpec
CONSTANTS
  Jobs = {j1, j2}
  Workers = {w1, w2}
  BothFormats = {j1, j2}
  NoJob = NoJob
  CacheKey <- MCCacheKey
  Formats <- MCFormats
  Limit <- MCLimit
  MaxRetries = 1
  Crashes = 1
  Errors = 1
  Slowdowns = 0
  Refusals = 0
CHECK_DEADLOCK FALSE
PROPERTY EventuallySettled
