SPECIFICATION FairSpec
CONSTANTS
  Sessions = {s1, s2}
  Plans = {starter, pro}
  Default = starter
  NoPlan = NoPlan
  Cap <- MCCap
  CapOfDefault = 1
  CapOfOthers = 2
  LastMonth = 3
  MaxRequests = 2
  MaxFailures = 1
CHECK_DEADLOCK FALSE
INVARIANTS TypeOK OneInvoicePerPeriod NeverOverbilled
PROPERTIES NoPeriodUnbilled KeepsLedger EventuallyBilled
