-------------------------------- MODULE Pages --------------------------------
(***************************************************************************)
(* The report pages and the dashboard (web/admin_reports.go, web/admin.go): *)
(* what each makes of the rows its queries return.  A page shows some of the  *)
(* rows, totals over all of them, and often a file to download; it is drawn  *)
(* for a period, which is compared with the one before it.                  *)
(***************************************************************************)
EXTENDS Reports

CONSTANTS When,         \* the day and the hour a sale falls in
          PageSize,     \* rows on a page (reportPageSize, 50)
          MaxListLimit, \* rows of a query (500), and how many unless told (100)
          DefaultLimit,
          TopLimit      \* products that are ranked (50)

ASSUME PagesAssumption == MaxListLimit \in Nat \ {0} /\ PageSize \in 1 .. MaxListLimit

\* Sales have their numbers in the order of their dates.  Mutant: the last day of a
\* period is counted in the next one too.
ToInclusive(from, to) == {x \in DOMAIN sales : from <= x /\ x <= to}

\* created_at >= $1 AND created_at < $2
Between(from, to) == {x \in DOMAIN sales : from <= x /\ x < to}

\* The period of the same length just before.
PrevPeriod(from, to) == Between(from - (to - from), from)

Paginate(rows, page) ==
    SubSeq(rows, (page - 1) * PageSize + 1, Smaller(page * PageSize, Len(rows)))

PagesOf(rows) == 1 .. (Len(rows) + PageSize - 1) \div PageSize

\* ORDER BY f DESC
Ranked(f(_), S) ==
    LET most(T) == CHOOSE a \in T : \A b \in T : f(a) >= f(b)
    IN FoldLeft(LAMBDA s, i : Append(s, most(S \ Range(s))), <<>>, [i \in 1 .. Cardinality(S) |-> i])

\* The sales by the day they fall in.
ByDay(xs) == {[day |-> d, sales |-> {x \in xs : When[x].day = d}] : d \in {When[x].day : x \in xs}}

-----------------------------------------------------------------------------
(***************************************************************************)
(* Sales.                                                                  *)
(***************************************************************************)
\* Newest first.  The limit is brought down to the largest there is.
Clamped(limit) == IF limit <= 0 THEN DefaultLimit ELSE Smaller(limit, MaxListLimit)

NewestFirst(xs) == SelectSeq(Reverse([x \in DOMAIN sales |-> x]), LAMBDA x : x \in xs)

List(xs, limit, offset) ==
    SubSeq(NewestFirst(xs), offset + 1, Smaller(offset + Clamped(limit), Cardinality(xs)))

\* Mutant: the totals are those of the rows on the page.
SumOfRows(xs, page) == Summarize(Range(List(xs, PageSize, (page - 1) * PageSize)))

SumOfRange(xs, page) == Summarize(xs)

SalesReport(xs, page) == [rows |-> List(xs, PageSize, (page - 1) * PageSize),
                          sum  |-> SumOfRange(xs, page)]

\* The file walks the range by the longest query there is.
SalesCSV(xs) ==
    LET walks == (Cardinality(xs) + MaxListLimit - 1) \div MaxListLimit
    IN FlattenSeq([k \in 1 .. walks |-> List(xs, MaxListLimit, (k - 1) * MaxListLimit)])

\* Seven days by twenty-four hours, with totals by row and by column.
PeakHoursReport(xs) ==
    LET cells == {[day |-> w.day, hour |-> w.hour, count |-> Cardinality({x \in xs : When[x] = w}),
                   revenue |-> PeakHours({x \in xs : When[x] = w})] : w \in {When[x] : x \in xs}}
        of(field, k) == Sum(LAMBDA c : c.revenue, {c \in cells : c[field] = k})
    IN [days  |-> {[key |-> d, revenue |-> of("day", d)] : d \in {c.day : c \in cells}},
        hours |-> {[key |-> h, revenue |-> of("hour", h)] : h \in {c.hour : c \in cells}},
        total |-> Sum(LAMBDA c : c.revenue, cells),
        busy  |-> Max({0} \cup {c.count : c \in cells})]

CashierSalesReport(xs) ==
    LET rows == {SalesByCashier(c, xs) : c \in {sales[x].cashier : x \in xs}}
    IN [rows     |-> Ranked(LAMBDA r : r.net, rows),
        count    |-> Sum(LAMBDA r : r.count, rows),
        gross    |-> Sum(LAMBDA r : r.gross, rows),
        discount |-> Sum(LAMBDA r : r.discount, rows),
        net      |-> Sum(LAMBDA r : r.net, rows)]

-----------------------------------------------------------------------------
(***************************************************************************)
(* Products, categories, services.                                         *)
(***************************************************************************)
\* Ranked by units, revenue or profit; the fewest of the first ones that make 80 in
\* the hundred of what is shown.
TopProductsReport(ls, order) ==
    LET all    == Ranked(LAMBDA r : r[order], TopProducts(ls))
        rows   == SubSeq(all, 1, Smaller(TopLimit, Len(all)))
        total  == Total(LAMBDA r : r[order], rows)
        run(n) == Total(LAMBDA r : r[order], SubSeq(rows, 1, n))
        enough == {n \in DOMAIN rows : total > 0 /\ 100 * run(n) >= 80 * total}
    IN [rows    |-> rows, total |-> total,
        revenue |-> Total(LAMBDA r : r.revenue, rows),
        profit  |-> Total(LAMBDA r : r.profit, rows),
        pareto  |-> IF enough = {} THEN 0 ELSE Min(enough)]

\* The lines that came back, the receipts they are of, and the products with the most.
ReturnsPage(xs) ==
    LET back == SelectSeq(Lines(xs), LAMBDA i : i.ret > 0)
    IN [rows     |-> back,
        refund   |-> Back(back),
        qty      |-> Total(LAMBDA i : i.ret, back),
        receipts |-> Cardinality({x \in xs : \E i \in Range(sales[x].items) : i.ret > 0}),
        worst    |-> {[key |-> p, refund |-> Back(OfProduct(back, p))] : p \in {i.product : i \in Range(back)}}]

\* All categories, or those that were ticked.
ProfitByCategoryReport(ls, ticked) ==
    LET rows == {r \in ProfitByCategory(ls) : ticked = {} \/ r.key \in ticked}
    IN [revenue |-> Sum(LAMBDA r : r.revenue, rows), profit |-> Sum(LAMBDA r : r.profit, rows)]

SalesTrendReport(xs) ==
    LET rows == {[day |-> d.day] @@ SalesByPeriod(Lines(d.sales)) : d \in ByDay(xs)}
    IN [revenue |-> Sum(LAMBDA r : r.revenue, rows),
        profit  |-> Sum(LAMBDA r : r.profit, rows),
        peak    |-> Max({0} \cup {r.revenue : r \in rows})]

\* One product over time; what reordering takes for its demand.
ProductSalesByPeriod(p, xs) ==
    {[day |-> d.day, qty |-> Units(OfProduct(Lines(d.sales), p)),
      revenue |-> Kept(OfProduct(Lines(d.sales), p))] : d \in ByDay(xs)}

ProductSalesReport(p, xs) ==
    LET rows == ProductSalesByPeriod(p, xs)
    IN [qty |-> Sum(LAMBDA r : r.qty, rows), revenue |-> Sum(LAMBDA r : r.revenue, rows)]

ProductQtySold(p, xs) == Units(OfProduct(Lines(xs), p))

\* A service that sold, or that an expense was booked for.
ServiceProfitReport(ls) ==
    {[key |-> p] @@ ServiceProfit(p, ls) :
       p \in {q \in Services : OfProduct(ls, q) # <<>> \/ booked.expenses[q] > 0}}

-----------------------------------------------------------------------------
(***************************************************************************)
(* Money and stock.                                                        *)
(***************************************************************************)
\* The statement, line by line, and the sum drawn below it.
FinanceReport(xs, ks) ==
    [lines |-> << GrossRevenue(xs), -Returns(xs), -COGS(xs), -Expenses, -Removed("damage", ks),
                  -Removed("own_use", ks), -Removed("staff", ks), -StockCorrections(ks),
                  booked.diff, booked.recoveries >>,
     net   |-> NetProfit(xs, ks)]

ExpensesReport ==
    LET rows == {[key |-> t, total |-> booked.expenses[t]] : t \in {t \in Tags : booked.expenses[t] > 0}}
    IN [rows |-> Ranked(LAMBDA r : r.total, rows), total |-> Sum(LAMBDA r : r.total, rows)]

\* By day, and in all.
TaxReport(xs) ==
    LET rows == {[day |-> d.day] @@ TaxSummary(d.sales) : d \in ByDay(xs)}
    IN [base |-> Sum(LAMBDA r : r.base, rows), tax |-> Sum(LAMBDA r : r.tax, rows)]

\* Goods written off, and what suppliers made good.
WarrantyAndRecovery(ks) == [damage |-> Removed("damage", ks), recovered |-> booked.recoveries]

\* The lots there are, at what was paid for them (not at the product's cost).
BatchReport == LET rows == SelectSeq(lots, LAMBDA l : l.qty > 0)
               IN [rows |-> rows, value |-> Total(LAMBDA l : l.qty * l.cost, rows)]

\* Today's sales and takings, beside yesterday's.
Takings(xs) == GrossRevenue(xs) - Returns(xs)

Dashboard(today, tomorrow) ==
    [count  |-> Cardinality(Between(today, tomorrow)),
     total  |-> Takings(Between(today, tomorrow)),
     before |-> Takings(PrevPeriod(today, tomorrow)),
     recent |-> List(DOMAIN sales \ (1 .. today - 1), MaxListLimit, 0),
     due    |-> owed]

\* The charts of the first page, over its last days.
DashboardCharts(xs) ==
    [trend    |-> {[day |-> d.day] @@ SalesByPeriod(Lines(d.sales)) : d \in ByDay(xs)},
     cashiers |-> CashierSalesReport(xs).rows,
     cats     |-> ProfitByCategory(Lines(xs)),
     expenses |-> ExpensesReport.rows]

-----------------------------------------------------------------------------
(***************************************************************************)
(* Properties.                                                             *)
(***************************************************************************)
\* "Totals come from an aggregate over the whole range - never from the rows below,
\* which are one page", and "The CSV is the 'every line' artifact": the pages in order
\* are the file, each sale of the range once, and every page has the totals of the file.
SalesPageAgrees ==
    LET file == SalesCSV(DOMAIN sales)
        rows == {[sale |-> x] @@ Summarize({x}) : x \in Range(file)}
    IN /\ file = NewestFirst(DOMAIN sales)
       /\ \A page \in PagesOf(file) :
            LET shown == SalesReport(DOMAIN sales, page)
            IN /\ shown.rows = Paginate(file, page)
               /\ shown.sum.net = Sum(LAMBDA r : r.net, rows)
               /\ shown.sum.profit = Sum(LAMBDA r : r.profit, rows)

\* "so the dashboard and the finance report never disagree" (Dashboard), and each page's
\* own sums are those of the statement.
TotalsAgree(xs, ks) ==
    LET ls       == Lines(xs)
        list     == Summarize(xs)
        hours    == PeakHoursReport(xs)
        trend    == SalesTrendReport(xs)
        finance  == FinanceReport(xs, ks)
        cashiers == CashierSalesReport(xs)
        returns  == ReturnsPage(xs)
        ranking  == TopProductsReport(ls, "revenue")
    IN /\ finance.net = Total(LAMBDA amount : amount, finance.lines)
       /\ hours.total = Sum(LAMBDA r : r.revenue, hours.days)
       /\ hours.total = Sum(LAMBDA r : r.revenue, hours.hours)
       /\ hours.total = list.net
       /\ cashiers.count = list.count /\ cashiers.net = GrossRevenue(xs)
       /\ ExpensesReport.total = Expenses
       /\ [revenue |-> trend.revenue, profit |-> trend.profit] = SalesByPeriod(ls)
       /\ TaxReport(xs) = TaxSummary(xs)
       /\ returns.refund = Sum(LAMBDA r : r.refund, returns.worst)
       /\ returns.refund = Returns(xs)
       /\ Len(ranking.rows) < TopLimit => /\ ranking.revenue = ProfitByCategoryReport(ls, {}).revenue
                                          /\ ranking.profit = Sum(LAMBDA r : r.profit, DashboardCharts(xs).cats)
       /\ Dashboard(1, Len(sales) + 1).total = list.netRev
       /\ \A p \in Goods : ProductSalesReport(p, xs).qty = ProductQtySold(p, xs)

\* The Pareto line of the ranking names as few products as can make 80 in the hundred.
ParetoLeast(ls) ==
    \A order \in {"qty", "revenue", "profit"} :
      LET page == TopProductsReport(ls, order)
      IN \A S \in SUBSET Range(page.rows) :
           page.total > 0 /\ 100 * Sum(LAMBDA r : r[order], S) >= 80 * page.total
             => Cardinality(S) >= page.pareto

\* Wherever a period is split, its figures are those of its parts: a sale at the very
\* boundary is in one of them.  What returns give back is booked in the period of
\* the sale, so nothing goes over the boundary.
PeriodsAddUp ==
    \A cut \in 2 .. Len(sales) :
      LET end   == Len(sales) + 1
          first == Between(1, cut)
          rest  == Between(cut, end)
          adds(f(_)) == f(Between(1, end)) = f(first) + f(rest)
      IN /\ adds(LAMBDA xs : Summarize(xs).profit)
         /\ adds(LAMBDA xs : GrossProfit(xs))
         /\ Dashboard(cut, end).total + Dashboard(cut, end).before = Takings(Between(2 * cut - end, end))
         /\ adds(LAMBDA xs : TaxReport(xs).tax)
         /\ adds(LAMBDA xs : CashierSalesReport(xs).net)
         /\ adds(LAMBDA xs : ReturnsPage(xs).qty)
         /\ adds(LAMBDA xs : ProfitByCategoryReport(Lines(xs), {}).profit)

\* Every page of the back office that shows a figure of the same rows shows the same
\* one, the sums a page prints are those of its rows, and those of a period add up.
PagesAgree == /\ ReportsAgree
              /\ sales # <<>> => /\ SalesPageAgrees
                                 /\ TotalsAgree(DOMAIN sales, DOMAIN moves)
                                 /\ ParetoLeast(AllLines)
              /\ PeriodsAddUp
=============================================================================
