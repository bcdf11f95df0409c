CONSTANTS
  nil = nil
  drinks = drinks
  cola = cola
  snacks = snacks
  other = other
  tea = tea
  scan = scan
  None = nil
  Uncategorized = other
  Page = {tab}
  Heading = {drinks, nil}
  Typed <- McTyped
  Plan <- McPlan
  Passed = {"stock", "mark", "return", "disable", "restore"}
  Cats0 <- McCats
  Goods0 <- McGoods
  Drafts0 <- McDrafts
  MaxOps = 4
SPECIFICATION Spec
INVARIANTS RevertsExactly DraftsOnce StockFollowsRow
