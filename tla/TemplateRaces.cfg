SPECIFICATION Spec
CONSTANTS
  u1 = u1
  v1 = v1
  v2 = v2
  f1 = f1
  Users = {u1, u2, u3}
  Versions = {v1, v2}
  Files = {f1}
  MayUse <- OneOwned
  Stored <- OldKey
  Registering = {u3}
  MaxRequests = 4
  MaxFailures = 1
  MaxCrashes = 1
CHECK_DEADLOCK FALSE
INVARIANTS TypeOK LatestIsCurrent NoLitter SourcesIntact
