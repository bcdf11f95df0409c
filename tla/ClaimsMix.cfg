CONSTANTS
  t1 = t1
  t2 = t2
  s1 = s1
  s2 = s2
  s3 = s3
  Tx = {t1, t2}
  NoTx = NoTx
  Phone = Phone
  Lamp = Lamp
  Supplier = Supplier
  Serial = {s1, s2, s3}
  NoSerial = NoSerial
  MaxUnit = 5
  MaxDay = 1
  Months = 0
  SoldLamps = 1
  Damaged <- McDamaged
  Request <- McAll
  Desk <- McDesks
  MaxRequests = 4
  InitStock <- McShelf
SPECIFICATION FairSpec
INVARIANTS SerialOnce UnitsAccounted ClaimedOnce
PROPERTY EveryRequestEnds
CHECK_DEADLOCK FALSE
