CONSTANTS
  Tx = {t1, t2}
  Till = {k1}
  Store = {safe, vault}
  Device = {d1, d2}
  Name = {A, B}
  A = A
  B = B
  CashierAccess = {safe}
  Edit <- McEdit
  InitDevs <- McDevs
  InitCarriers <- McCarriers
  None = None
  k1 = k1
  d1 = d1
  safe = safe
  vault = vault
  d2 = d2
  Request <- McAll
  MaxRequests = 1
  MaxSession = 3
  MaxGift = 1
  MaxClose = 2
  Desk <- McDesk
  t1 = t1
  InitMoney <- McMoney
  InitHeld <- McHeld
  InitDs <- McDs
  InitRow <- McRow
SPECIFICATION Spec
INVARIANTS FloatTold CommissionIsGift NothingTwice WorthExplained
CHECK_DEADLOCK FALSE
