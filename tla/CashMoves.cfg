CONSTANTS
  Tx = {t1, t2, t3}
  u1 = u1
  u2 = u2
  safe = safe
  bank = bank
  Cashier = {u1, u2}
  Locker = {safe, bank}
  External = External
  Request <- McMoves
  Desk <- McAll
  MaxRequests = 4
  InitBalance <- McBalance
  InitAllowNeg = {}
  UntrackedAllowed = TRUE
SPECIFICATION Spec
INVARIANT CloseReconciles
PROPERTIES SourcesCovered MovesLandOpen
SYMMETRY McSymmetry
