SPECIFICATION FairSpec
CONSTANTS
  Users = {u1}
  Requests = {r1, r2}
  MaxSessions = 3
  MaxDisables = 2
  MaxFailures = 1
INVARIANTS DisablingEndsSessions OneSessionPerLogin LogoutEndsLogin
PROPERTY EveryRequestEnds
CHECK_DEADLOCK FALSE
