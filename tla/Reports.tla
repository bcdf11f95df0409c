------------------------------ MODULE Reports -------------------------------
(***************************************************************************)
(* The reports beside the profit and loss statement, each as its own query  *)
(* has it.  The pages take them for views of one set of books ("so the       *)
(* dashboard and the finance report never disagree", web/admin.go), although *)
(* each selects, joins and filters anew.                                    *)
(*                                                                         *)
(* A report is asked for the sales xs of a period, or for their lines ls.     *)
(* Fractions of a cent are dropped line by line, where the code keeps        *)
(* sixteen digits.                                                         *)
(***************************************************************************)
EXTENDS Books

\* sale_items JOIN sales: the lines of the sales xs, oldest sale first.
Lines(xs) == FoldLeft(LAMBDA ls, x : IF x \in xs THEN ls \o sales[x].items ELSE ls,
                      <<>>, [x \in DOMAIN sales |-> x])

AllLines == Lines(DOMAIN sales)

\* Not pass-through; the lines of one product.
OwnLines(ls)     == SelectSeq(ls, LAMBDA i : ~Through(i))
OfProduct(ls, p) == SelectSeq(ls, LAMBDA i : i.product = p)

\* (si.subtotal / si.quantity) * n: what was kept of a line, and what came back.
Share(i, n) == (i.sub * n) \div i.qty
Kept(ls)    == Total(LAMBDA i : Share(i, i.qty - i.ret), ls)
Back(ls)    == Total(LAMBDA i : Share(i, i.ret), ls)
Cost(ls)    == Total(LAMBDA i : (i.qty - i.ret) * i.cost, ls)
Units(ls)   == Total(LAMBDA i : i.qty - i.ret, ls)
Face(ls)    == Total(LAMBDA i : IF Through(i) THEN i.sub ELSE 0, ls)

Sum(f(_), S) == MapThenSumSet(f, S)

OfSales(f(_), xs) == Sum(LAMBDA x : f(sales[x]), xs)

-----------------------------------------------------------------------------
(***************************************************************************)
(* Sales.                                                                  *)
(***************************************************************************)
\* Mutant: the list takes resold airtime for revenue.
AggWithAirtime(x) == LET own == OwnLines(sales[x].items)
                     IN [sale |-> x, face |-> 0, back |-> Back(own), cogs |-> Cost(own)]

\* saleProfitAgg: what a sale's lines take off its total.
saleProfitAgg(x) == LET own == OwnLines(sales[x].items)
                    IN [sale |-> x, face |-> Face(sales[x].items), back |-> Back(own), cogs |-> Cost(own)]

Summarize(xs) ==
    LET rows    == {saleProfitAgg(x) : x \in xs}
        net(r)  == sales[r.sale].total - r.face - r.back
        revenue == Sum(net, rows)
        cogs    == Sum(LAMBDA r : r.cogs, rows)
    IN [count    |-> Cardinality(xs),
        gross    |-> OfSales(LAMBDA s : s.subtotal, xs),
        discount |-> OfSales(LAMBDA s : s.discount, xs),
        net      |-> OfSales(LAMBDA s : s.total, xs),
        netRev   |-> revenue, cogs |-> cogs, profit |-> revenue - cogs]

RungBy(c, xs) == {x \in xs : sales[x].cashier = c}

\* Before returns, pass-through left out.
SalesByCashier(c, xs) ==
    LET rung == RungBy(c, xs)
        face == Face(Lines(rung))
    IN [cashier  |-> c,
        count    |-> Cardinality(rung),
        gross    |-> OfSales(LAMBDA s : s.subtotal, rung) - face,
        discount |-> OfSales(LAMBDA s : s.discount, rung),
        net      |-> OfSales(LAMBDA s : s.total, rung) - face]

\* What a cashier's day end shows: after returns.
PeriodSummary(c, xs) == OfSales(LAMBDA s : s.total, RungBy(c, xs)) - Back(Lines(RungBy(c, xs)))

\* Lines as they were kept, pass-through among them.
SalesByPeriod(ls) == [revenue |-> Kept(ls), profit |-> Kept(ls) - Cost(ls)]

\* What was charged, on what; and the totals by the hour.
TaxSummary(xs) == [base |-> OfSales(LAMBDA s : s.total - s.tax, xs),
                   tax  |-> OfSales(LAMBDA s : s.tax, xs)]
PeakHours(xs)  == OfSales(LAMBDA s : s.total, xs)

ReturnsReport(ls) == Back(SelectSeq(ls, LAMBDA i : i.ret > 0))

Categories == {Product[p].category : p \in DOMAIN Product}

\* A row of a report, HAVING SUM(quantity - returned_qty) > 0
Group(key, ls) == IF Units(ls) <= 0 THEN {}
                  ELSE {[key |-> key, qty |-> Units(ls), revenue |-> Kept(ls), cogs |-> Cost(ls),
                         profit |-> Kept(ls) - Cost(ls)]}

TopProducts(ls) == UNION {Group(p, OwnLines(OfProduct(ls, p))) : p \in DOMAIN Product}

ProfitByCategory(ls) ==
    UNION {Group(c, SelectSeq(OwnLines(ls), LAMBDA i : Product[i.product].category = c)) : c \in Categories}

ServiceProfit(p, ls) == LET own == OfProduct(ls, p)
                        IN [revenue |-> Kept(own), cogs |-> Cost(own), expenses |-> booked.expenses[p]]

-----------------------------------------------------------------------------
(***************************************************************************)
(* Recipes.                                                                *)
(***************************************************************************)
Recipe(i)  == Product[i.product].recipe
Components == UNION {{c.product : c \in Range(Product[p].recipe)} : p \in DOMAIN Product}

\* What the recipes of the services sold call for, in parts of a unit.
Expected(c) ==
    LET per(r, n) == IF r.yield > 0 THEN (n * Scale) \div r.yield ELSE n * r.per * Scale
        uses(i)   == Total(LAMBDA r : IF r.product = c THEN per(r, i.qty - i.ret) ELSE 0, Recipe(i))
    IN Total(uses, AllLines)

\* What sales moved, for a service or over the counter.
Actual(c) == Total(LAMBDA m : IF m.type = "sale" /\ m.product = c THEN -m.qty ELSE 0, moves)

-----------------------------------------------------------------------------
(***************************************************************************)
(* Properties.                                                             *)
(***************************************************************************)
Cashiers == {b.cashier : b \in Bill}

\* The sales list, "mirroring the Finance P&L definitions", has the statement's
\* revenue and profit, and its columns add up.
ListIsStatement(xs) ==
    LET list == Summarize(xs)
    IN /\ list.netRev = GrossRevenue(xs) - Returns(xs)
       /\ list.profit = GrossProfit(xs)
       /\ list.gross - list.discount = TaxSummary(xs).base
       /\ list.net = PeakHours(xs)

\* The cashiers' takings are the statement's revenue, before returns in one
\* report and after them, airtime and all, in the other.
CashiersShareIt(xs) ==
    LET report == {SalesByCashier(c, xs) : c \in Cashiers}
    IN /\ Sum(LAMBDA r : r.net, report) = GrossRevenue(xs)
       /\ Sum(LAMBDA r : r.gross - r.discount, report)
            = GrossRevenue(xs) - TaxSummary(xs).tax
       /\ Sum(LAMBDA c : PeriodSummary(c, xs), Cashiers)
            = GrossRevenue(xs) + PassThrough(xs) - ReturnsReport(Lines(xs))

\* Products, categories and services split what was sold between them; the
\* statement has the tax and what was taken off whole bills besides, and what a
\* line lost to rounding is less than a cent.
LinesShareIt(xs) ==
    LET ls         == Lines(xs)
        products   == TopProducts(ls)
        categories == ProfitByCategory(ls)
        services   == Sum(LAMBDA p : ServiceProfit(p, ls).revenue, Services)
        goods      == Sum(LAMBDA r : r.revenue, {r \in products : r.key \notin Services})
        revenue    == Sum(LAMBDA r : r.revenue, categories)
        billOff    == OfSales(LAMBDA s : s.discount, xs)
                      - Total(LAMBDA i : i.qty * i.unit - i.sub, ls)
        lost       == GrossRevenue(xs) - Returns(xs) - (revenue + TaxSummary(xs).tax - billOff)
    IN /\ Sum(LAMBDA r : r.revenue, products) = revenue
       /\ Sum(LAMBDA r : r.cogs, categories) = COGS(xs)
       /\ services + goods = SalesByPeriod(ls).revenue
       /\ lost \in 0 .. Len(ls)

\* Whatever was sold, given back, discounted and taxed, the reports are cuts of
\* one set of books: no line is in one and missing, or twice, in another.
ReportsAgree ==
    LET ever == DOMAIN sales
    IN sales # <<>> => ListIsStatement(ever) /\ CashiersShareIt(ever) /\ LinesShareIt(ever)

\* "the feedback loop that lets the estimate be corrected" (recipes/variance.go):
\* what sales moved of a component beyond what the recipes call for is what was
\* sold of it over the counter, and at most one unit for each service line, which
\* rounds up (and the eighth place of 1 / yield).
VarianceExplained ==
    \A c \in Components :
      LET counter == Total(LAMBDA i : i.qty, OfProduct(AllLines, c))
          drift   == (Actual(c) - counter) * Scale - Expected(c)
          uses    == SelectSeq(AllLines, LAMBDA i : \E r \in Range(Recipe(i)) : r.product = c)
      IN drift \in 0 .. Len(uses) * (Scale + Scale \div 1000)
=============================================================================
