CONSTANTS
  Tx = {t1, t2, t3}
  NoTx = NoTx
  t1 = t1
  s1 = s1
  s2 = s2
  p1 = p1
  p2 = p2
  till = till
  safe = safe
  bank = bank
  Supplier = {s1, s2}
  Drawer = till
  Locker = {safe, bank}
  External = External
  Product = {p1, p2}
  MaxPurchase = 9
  Price <- McPrice
  Request <- McMix
  Desk <- McOwn
  MaxRequests = 3
  InitOpening <- McOpening
  InitPurchase <- McPurchase
  InitBook <- McBook
  InitHeld <- McHeld
  InitFlags <- McFlags
  AgeLimits <- McAgeLimits
  CreditDays <- McTerms
SPECIFICATION Spec
INVARIANTS DebtExplained OwedOnInvoices CashFollows DuesAgree
PROPERTIES RestStaysOnOrder
SYMMETRY McSymmetry
