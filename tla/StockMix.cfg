CONSTANTS
  Tx = {t1, t2, t3}
  t1 = t1
  NoTx = NoTx
  p1 = p1
  p2 = p2
  p3 = p3
  Product = {p1, p2, p3}
  MaxLot = 8
  NoLot = NoLot
  Request <- McMix
  Desk <- McOne3
  MaxRequests = 3
  InitLots = 4
  InitOwner <- McOwner
  InitQty <- McQty
  InitStock <- McStock
  Expiry <- McExpiry
SPECIFICATION Spec
INVARIANTS NeverNegative LotsAgree TrailExplainsStock
PROPERTIES FefoOrder
SYMMETRY McSymmetry
