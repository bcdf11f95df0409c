CONSTANTS
  soap = soap
  card = card
  print = print
  airtime = airtime
  Product <- McProduct
  Bill <- McBill
  Goods <- McGoods
  InitLots <- McLots
  Tendered = {0, 7}
  Amount = {33}
  When <- McWhen
  PageSize = 1
  MaxListLimit = 1
  DefaultLimit = 1
  TopLimit = 50
  MaxSales = 2
  MaxOps = 3
SPECIFICATION Spec
INVARIANTS ProfitIsWorth VarianceExplained PagesAgree
