CONSTANTS
  Tx = {t1, t2}
  NoTx = NoTx
  NoCustomer = NoCustomer
  t1 = t1
  till = till
  safe = safe
  m1 = m1
  m2 = m2
  m1d = m1d
  s1 = s1
  s2 = s2
  s3 = s3
  s4 = s4
  s5 = s5
  i1 = i1
  i2 = i2
  i3 = i3
  i4 = i4
  i5 = i5
  i6 = i6
  p1 = p1
  p2 = p2
  p3 = p3
  Customer = {1, 2, 3}
  NoPhone = NoPhone
  Phone = {m1, m2, m1d}
  Plain <- McPlain
  Place = {till, safe}
  Open = {till, safe}
  AgeLimits <- McAges
  ListLimit = 100
  Sale = {s1, s2, s3, s4, s5}
  Item = {i1, i2, i3, i4, i5, i6}
  Product = {p1, p2, p3}
  Bill <- McBills
  LineOf <- McLines
  Request <- McBacks
  Desk <- McAll
  MaxRequests = 3
  InitStatus <- McStatus
  InitOpening <- McOpening
  InitLimit <- McLimit
  InitPhone <- McPhone
  InitGoods <- McGoods
SPECIFICATION Spec
INVARIANTS CreditWithinOwed
