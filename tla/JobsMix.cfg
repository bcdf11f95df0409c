CONSTANTS
  Tx = {t1, t2}
  Till = {k1}
  None = None
  t1 = t1
  k1 = k1
  Component <- McKinds
  Request <- McAll
  Desk <- McAny
  MaxRequests = 3
  MaxJob = 2
  MaxDay = 2
  Price = {2, 3}
  InitJobs <- McJobs
  InitPrints <- McPrints
  InitMoney <- McMoney
  InitParts = 3
  InitPaper <- McPaper
SPECIFICATION Spec
INVARIANTS MarksBacked SettledOnce CollectionCovered
CHECK_DEADLOCK FALSE
