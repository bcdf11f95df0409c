CONSTANTS
  nil = nil
  drinks = drinks
  cola = cola
  other = other
  water = water
  scan = scan
  None = nil
  Uncategorized = other
  Till = {till}
  Office = {office}
  Form <- McForm
  CategoryName = {other}
  Row <- McRow
  Count <- McCount
  Catalog0 <- McCatalog
  MaxOps = 3
SPECIFICATION Spec
INVARIANTS RoundTrip  ValuationAddsUp CostKnown
