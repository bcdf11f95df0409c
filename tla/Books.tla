-------------------------------- MODULE Books --------------------------------
(***************************************************************************)
(* What a sale charges, what a return gives back, and what the profit and   *)
(* loss statement makes of both.                                           *)
(*                                                                         *)
(* Every handler here is one transaction, and one step: how their           *)
(* statements interleave is the subject of Stock, Cash and Credit.  What is  *)
(* followed instead is the arithmetic: money is in cents, rounded where the  *)
(* code rounds, and the statement of reports.Compute is set against what     *)
(* the shop then holds, over any history.                                   *)
(*                                                                         *)
(* Goods are sold in whole units, lots have no expiry date (they leave in    *)
(* the order they came), and expenses, recoveries and drawer differences are  *)
(* not dated.                                                              *)
(***************************************************************************)
EXTENDS Integers, SequencesExt, FiniteSetsExt, TLC

CONSTANTS Product,      \* name -> catalogue row: service, price, wholesale, tax,
                        \* cost, category, through (pass_through) and recipe
          Bill,         \* what a till may ring up: lines, wholesale, discount, cashier
          Tendered,     \* over or under the total, in cents
          Goods,        \* the products with a shelf
          Amount,       \* cents: expenses, differences, what a supplier pays back
          InitLots,
          MaxSales, MaxOps   \* bounds: sales, and requests of every kind

VARIABLES lots,     \* stock_batches: product, qty, cost, price (0: none of its own)
          sales,    \* sales with their items
          cash,     \* the drawers and lockers together, as the ledgers have them
          owed,     \* customers' balances
          payable,  \* suppliers' balances
          moves,    \* stock_movements a report reads: type, qty, cost
          booked,   \* expenses by what they are tagged with, recoveries, drawer differences
          unbooked, \* what the statement and the ledgers are not both told of
          rounded,  \* units whose worth was rounded to the cent
          ops

vars == <<lots, sales, cash, owed, payable, moves, booked, unbooked, rounded, ops>>

Smaller(a, b) == IF a < b THEN a ELSE b
Larger(a, b)  == IF a > b THEN a ELSE b

\* a / b to the nearest cent, halves up, for a quotient that is not negative.
Round(a, b) == (2 * a + b) \div (2 * b)

Total(f(_), s) == FoldLeft(LAMBDA sum, x : sum + f(x), 0, s)

-----------------------------------------------------------------------------
(***************************************************************************)
(* Lots.                                                                   *)
(***************************************************************************)
Of(ls, p)  == {i \in DOMAIN ls : ls[i].product = p}
OnHand(ls, p) == MapThenSumSet(LAMBDA i : ls[i].qty, Of(ls, p))

Lot(p, qty, cost, price) == [product |-> p, qty |-> qty, cost |-> cost, price |-> price]

InsertBatch(ls, p, qty, cost, price) == Append(ls, Lot(p, qty, cost, price))

\* A lot whose cost was left blank is charged at the product's.
LotCost(l) == IF l.cost = 0 THEN Product[l.product].cost ELSE l.cost

\* Oldest first: a lot gives what those before it could not.
FromLot(ls, p, qty, i) ==
    LET ahead == MapThenSumSet(LAMBDA j : ls[j].qty, {j \in Of(ls, p) : j < i})
    IN IF i \notin Of(ls, p) THEN 0 ELSE Larger(0, Smaller(ls[i].qty, qty - ahead))

\* The lots after a removal, and what a unit of it cost on average, to the cent.
Taken(ls, qty, from) ==
    [lots |-> [i \in DOMAIN ls |-> [ls[i] EXCEPT !.qty = @ - from[i]]],
     cost |-> IF qty > 0
             THEN Round(MapThenSumSet(LAMBDA i : from[i] * LotCost(ls[i]), DOMAIN ls), qty) ELSE 0]

DepleteFEFO(ls, p, qty) == Taken(ls, qty, [i \in DOMAIN ls |-> FromLot(ls, p, qty, i)])

DepleteBatch(ls, lot, qty) == Taken(ls, qty, [i \in DOMAIN ls |-> IF i = lot THEN qty ELSE 0])

\* depleteChosen: the lot that was named, or the oldest.
Chosen(ls, p, lot, qty) == IF lot = 0 THEN DepleteFEFO(ls, p, qty) ELSE DepleteBatch(ls, lot, qty)

LotCovers(ls, p, lot, qty) == lot = 0 \/ (lot \in Of(ls, p) /\ ls[lot].qty >= qty)

-----------------------------------------------------------------------------
(***************************************************************************)
(* Recipes.  1 / yield is kept to eight places.                             *)
(***************************************************************************)
Scale == 100000000

\* Mutant: a component that was begun is not taken from the shelf.
ConsumedWhole(c, n) == IF c.yield > 0 THEN n \div c.yield ELSE c.per * n

\* What n units of a service use of a component that cannot be part-used.
Consumed(c, n) == IF c.yield > 0 THEN (Round(Scale, c.yield) * n + Scale - 1) \div Scale
                                 ELSE c.per * n

Expand(p, n) == SelectSeq([k \in DOMAIN Product[p].recipe |->
                             [product |-> Product[p].recipe[k].product,
                              qty |-> Consumed(Product[p].recipe[k], n)]],
                          LAMBDA c : c.qty > 0)

-----------------------------------------------------------------------------
(***************************************************************************)
(* Pricing.                                                                *)
(***************************************************************************)
Clamp(amount, base) == Smaller(Larger(amount, 0), base)

\* A fixed discount of a line is per unit, one of a bill is flat.
ItemDiscount(d, gross, qty) ==
    Clamp(IF d.type = "percent" THEN Round(gross * d.value, 100) ELSE d.value * qty, gross)

BillDiscount(d, base) ==
    Clamp(IF d.type = "percent" THEN Round(base * d.value, 100) ELSE d.value, base)

\* The amount of a service line, else a customer type's price, else the picked
\* lot's own, else the shelf's.
UnitPrice(b, l, ls) ==
    LET p == Product[l.product]
    IN IF p.service /\ l.amount > 0 THEN l.amount
       ELSE IF b.wholesale /\ p.wholesale > 0 THEN p.wholesale
       ELSE IF l.lot # 0 /\ ls[l.lot].price > 0 THEN ls[l.lot].price
       ELSE p.price

Movement(type, p, qty, cost) ==
    [type |-> type, product |-> p, qty |-> qty, cost |-> cost, recovered |-> FALSE]

\* The units a removal finds on the shelf that the count did not have.
Missing(ls, p, qty) == Larger(0, qty - OnHand(ls, p))

\* FoundAtTill (no lot picked): a lot at the product's cost, and the movement.
FoundAtTill(ls, p, qty) ==
    IF qty = 0 THEN ls ELSE InsertBatch(ls, p, qty, Product[p].cost, 0)

\* One more thing a sale draws from the shelf; refused when short and not
\* overridden.
Draw(s, p, lot, qty, oversell) ==
    LET short == Missing(s.lots, p, qty)
        taken == Chosen(FoundAtTill(s.lots, p, short), p, lot, qty)
    IN IF (short > 0 /\ ~oversell) \/ ~LotCovers(s.lots, p, lot, qty)
       THEN [s EXCEPT !.ok = FALSE]
       ELSE [s EXCEPT !.lots = taken.lots, !.cost = @ + taken.cost * qty, !.drawn = @ + qty,
                      !.moves = Append(IF short = 0 THEN @
                                       ELSE Append(@, Movement("adjust", p, short,
                                                               short * Product[p].cost)),
                                       Movement("sale", p, -qty, 0))]

\* The components of a service, one after the other.
DrawComponents(s, l) ==
    FoldLeft(LAMBDA acc, c : IF acc.ok THEN Draw(acc, c.product, 0, c.qty, l.oversell) ELSE acc,
             s, Expand(l.product, l.qty))

\* A line of a bill: the shelf, the cost of what left it, and the price.
RingUp(b, s, l) ==
    LET p     == Product[l.product]
        gone  == IF p.service THEN DrawComponents([s EXCEPT !.cost = 0], l)
                 ELSE Draw([s EXCEPT !.cost = 0], l.product, l.lot, l.qty, l.oversell)
        unit  == UnitPrice(b, l, s.lots)
        gross == l.qty * unit
        disc  == ItemDiscount(l.discount, gross, l.qty)
        tax   == Round((gross - disc) * p.tax, 100)
        item  == [product |-> l.product, qty |-> l.qty, unit |-> unit, sub |-> gross - disc,
                  cost |-> Round(gone.cost, l.qty), lot |-> l.lot, ret |-> 0]
    IN IF ~s.ok \/ ~gone.ok THEN [s EXCEPT !.ok = FALSE]
       ELSE [gone EXCEPT !.items = Append(@, item), !.tax = @ + tax, !.drawn = @ + l.qty]

Rung(b) == FoldLeft(LAMBDA s, l : RingUp(b, s, l),
                    [ok |-> TRUE, lots |-> lots, moves |-> moves, items |-> <<>>,
                     tax |-> 0, cost |-> 0, drawn |-> 0],
                    b.lines)

\* The bill's discount comes off what the lines leave, before tax.
BillTotal(b, s) == LET net == Total(LAMBDA i : i.sub, s.items)
                   IN net - BillDiscount(b.discount, net) + s.tax

-----------------------------------------------------------------------------
(***************************************************************************)
(* Requests.                                                               *)
(***************************************************************************)
Services == {p \in DOMAIN Product : Product[p].service}

\* An expense may be tagged with the service it was for.
Tags == Services \cup {"shop"}

Init == /\ lots = InitLots /\ sales = <<>> /\ moves = <<>>
        /\ cash = 0 /\ owed = 0 /\ payable = 0
        /\ booked = [expenses |-> [k \in Tags |-> 0], recoveries |-> 0, diff |-> 0]
        /\ unbooked = 0 /\ rounded = 0 /\ ops = 0

Served == ops < MaxOps /\ ops' = ops + 1

\* CheckTender: nothing short, and a part on account lands on the total.
CheckTender(total, paid, account, cust) ==
    /\ paid + account >= total
    /\ account > 0 => cust /\ paid + account = total

Status(account) == IF account > 0 THEN "credit" ELSE "completed"

\* Create: the change not handed back stays in the drawer, for the customer's
\* account or for nobody's.
Create(b, s, total, paid, account, cust, given, credited) ==
    LET change == IF account > 0 THEN 0 ELSE paid - total
        kept   == change - given
        gross  == Total(LAMBDA i : i.qty * i.unit, s.items)
        net    == Total(LAMBDA i : i.sub, s.items)
        face   == Total(LAMBDA i : IF Product[i.product].through THEN i.sub ELSE 0, s.items)
    IN /\ Len(sales) < MaxSales /\ Served
       /\ s.ok /\ CheckTender(total, paid, account, cust)
       /\ given \in {0, change} /\ (credited => cust /\ kept > 0)
       /\ lots' = s.lots /\ moves' = s.moves
       /\ sales' = Append(sales, [items |-> s.items, subtotal |-> gross, tax |-> s.tax,
                                  discount |-> gross - net + BillDiscount(b.discount, net),
                                  total |-> total,
                                  paid |-> paid, account |-> account, cust |-> cust,
                                  status |-> Status(account), cashier |-> b.cashier])
       /\ cash' = cash + paid - given
       /\ owed' = owed + account - (IF credited THEN kept ELSE 0)
       /\ unbooked' = unbooked + face + (IF credited THEN 0 ELSE kept)
       /\ rounded' = rounded + s.drawn
       /\ UNCHANGED <<payable, booked>>

\* A bill names a customer where its account needs one.
Sell == \E b \in Bill : LET s     == Rung(b)
                            total == BillTotal(b, s)
                        IN \E over \in Tendered, part \in 0 .. 1, credited \in BOOLEAN :
                             LET account == (part * total) \div 2
                                 paid    == Larger(0, total - account + over)
                                 cust    == account > 0 \/ credited
                             IN \E given \in {0, Larger(0, over)} :
                                  Create(b, s, total, paid, account, cust, given, credited)

\* Returned units go back to the lot they were picked from, else to a lot of
\* their own that follows the product's price.
Restocked(ls, it, n) ==
    IF it.lot # 0 THEN [ls EXCEPT ![it.lot].qty = @ + n]
    ELSE InsertBatch(ls, it.product, n, it.cost, 0)

\* What the customer still owed on the sale when it was rung up.
Owed(s) == IF s.cust THEN Larger(0, s.total - s.paid) ELSE 0

\* Mutant: the shelf price comes back, discount and all.
RefundAtPrice(it, n) == it.unit * n

\* The line's net price by the unit, rounded before it is multiplied; the bill's
\* discount and tax are left out.
LineRefund(it, n) == Round(it.sub, it.qty) * n

\* A line coming back: restocked, and written off again when it is faulty.
TakeBack(acc, it, n, damaged) ==
    LET back == Restocked(acc.lots, it, n)
        out  == DepleteFEFO(back, it.product, n)
    IN IF ~damaged THEN [acc EXCEPT !.lots = back]
       ELSE [lots  |-> out.lots,
             moves |-> Append(acc.moves, Movement("damage", it.product, -n, out.cost * n))]

Outstanding(items) == {k \in DOMAIN items : items[k].ret < items[k].qty}

\* PartialReturnTx, and the refund: from the till when the counter asks, from
\* nowhere when the API does (it drops the amount).
PartialReturn(x, n, damaged, till) ==
    LET s      == sales[x]
        lines  == {k \in DOMAIN n : n[k] > 0}
        items  == [k \in DOMAIN s.items |-> [s.items[k] EXCEPT !.ret = @ + n[k]]]
        after  == FoldLeft(LAMBDA acc, k : IF k \in lines
                                           THEN TakeBack(acc, s.items[k], n[k], damaged) ELSE acc,
                           [lots |-> lots, moves |-> moves], [k \in DOMAIN s.items |-> k])
        value  == MapThenSumSet(LAMBDA k : LineRefund(s.items[k], n[k]), lines)
        credit == Smaller(value, Owed(s))
        units  == MapThenSumSet(LAMBDA k : n[k], lines)
    IN /\ Served /\ lines # {} /\ s.status # "returned"
       /\ \A k \in lines : /\ ~Product[s.items[k].product].service
                           /\ n[k] <= s.items[k].qty - s.items[k].ret
       /\ sales' = [sales EXCEPT ![x].items = items,
                                 ![x].status = IF Outstanding(items) = {} THEN "returned"
                                               ELSE "partially_returned"]
       /\ lots' = after.lots /\ moves' = after.moves
       /\ owed' = owed - credit
       /\ cash' = IF till THEN cash - (value - credit) ELSE cash
       /\ unbooked' = IF till THEN unbooked ELSE unbooked + (value - credit)
       /\ rounded' = rounded + 2 * units + 2 * Cardinality(lines)
       /\ UNCHANGED <<payable, booked>>

\* Return: the whole sale; what was paid for it is left to the shop.
Return(x) ==
    LET s     == sales[x]
        after == FoldLeft(LAMBDA ls, k : Restocked(ls, s.items[k], s.items[k].qty - s.items[k].ret),
                          lots, [k \in DOMAIN s.items |-> k])
    IN /\ Served /\ s.status \notin {"returned", "partially_returned"}
       /\ \A k \in Outstanding(s.items) : ~Product[s.items[k].product].service
       /\ lots' = after
       /\ sales' = [sales EXCEPT ![x].status = "returned",
                                 ![x].items = [k \in DOMAIN s.items |->
                                                 [s.items[k] EXCEPT !.ret = s.items[k].qty]]]
       /\ owed' = owed - Owed(s)
       /\ unbooked' = unbooked + Total(LAMBDA i : i.sub, s.items) - Owed(s)
       /\ UNCHANGED <<cash, payable, moves, booked, rounded>>

\* Goods of a new delivery, on the supplier's account.
Receive(p, qty, cost) ==
    /\ Served
    /\ lots' = InsertBatch(lots, p, qty, cost, 0)
    /\ payable' = payable + qty * cost
    /\ UNCHANGED <<sales, cash, owed, moves, booked, unbooked, rounded>>

\* Consume: damage, own use or staff, all valued by the lots that left.
Consume(p, qty, lot, reason) ==
    LET out == Chosen(lots, p, lot, qty)
    IN /\ Served
       /\ OnHand(lots, p) >= qty /\ LotCovers(lots, p, lot, qty)
       /\ lots' = out.lots
       /\ moves' = Append(moves, Movement(reason, p, -qty, out.cost * qty))
       /\ rounded' = rounded + qty
       /\ UNCHANGED <<sales, cash, owed, payable, booked, unbooked>>

\* Adjust: the count is set to what is on the shelf.
Adjust(p, target, lot) ==
    LET delta == target - OnHand(lots, p)
        out   == Chosen(lots, p, lot, -delta)
        worth == IF delta > 0 THEN Product[p].cost * delta ELSE out.cost * (-delta)
    IN /\ Served /\ delta # 0
       /\ delta < 0 => LotCovers(lots, p, lot, -delta)
       /\ lots' = IF delta > 0 THEN InsertBatch(lots, p, delta, Product[p].cost, 0) ELSE out.lots
       /\ moves' = Append(moves, Movement("adjust", p, delta, worth))
       /\ rounded' = rounded + (IF delta > 0 THEN 0 ELSE -delta)
       /\ UNCHANGED <<sales, cash, owed, payable, booked, unbooked>>

\* Recovery: a write-off the supplier makes good, in money or in kind.
Recover(k, inKind, amount) ==
    LET m     == moves[k]
        cost  == Product[m.product].cost
        worth == cost * (-m.qty)
    IN /\ Served /\ m.type = "damage" /\ ~m.recovered
       /\ moves' = [moves EXCEPT ![k].recovered = TRUE]
       /\ lots' = IF inKind THEN InsertBatch(lots, m.product, -m.qty, cost, 0) ELSE lots
       /\ payable' = IF inKind THEN payable ELSE payable - amount
       /\ booked' = [booked EXCEPT !.recoveries = @ + (IF inKind THEN m.cost ELSE amount)]
       /\ unbooked' = IF inKind THEN unbooked + worth - m.cost ELSE unbooked
       /\ UNCHANGED <<sales, cash, owed, rounded>>

\* An expense paid from a drawer; a drawer counted at its close.
Spend(a, tag) == /\ Served /\ cash' = cash - a
                 /\ booked' = [booked EXCEPT !.expenses[tag] = @ + a]
                 /\ UNCHANGED <<lots, sales, owed, payable, moves, unbooked, rounded>>

CloseDrawer(d) == /\ Served /\ cash' = cash + d
                  /\ booked' = [booked EXCEPT !.diff = @ + d]
                  /\ UNCHANGED <<lots, sales, owed, payable, moves, unbooked, rounded>>

\* The counter returns 0 or more units of each line.
LinesBack(x) == [DOMAIN sales[x].items -> 0 .. 2]

\* The shop closes: every request the bound allows has been answered.
Closed == ops = MaxOps /\ UNCHANGED vars

Next == \/ Sell
        \/ \E x \in DOMAIN sales : \/ \E n \in LinesBack(x), damaged, till \in BOOLEAN :
                                         PartialReturn(x, n, damaged, till)
                                   \/ Return(x)
        \/ \E p \in Goods : \/ \E cost \in Amount : Receive(p, 2, cost)
                            \/ \E lot \in Of(lots, p) \cup {0} :
                                  \/ \E r \in {"damage", "own_use", "staff"} : Consume(p, 2, lot, r)
                                  \/ \E target \in {0, 1, 4} : Adjust(p, target, lot)
        \/ \E k \in DOMAIN moves, inKind \in BOOLEAN, a \in Amount : Recover(k, inKind, a)
        \/ \E a \in Amount : \/ \E tag \in Tags : Spend(a, tag)
                               \/ CloseDrawer(a) \/ CloseDrawer(-a)
        \/ Closed

Spec == Init /\ [][Next]_vars

-----------------------------------------------------------------------------
(***************************************************************************)
(* The profit and loss statement (reports.Compute).                         *)
(***************************************************************************)
\* A period is the sales xs and the movements ks of its days: each query filters
\* the dates of its own table.
ItemTotal(f(_), xs) == MapThenSumSet(LAMBDA x : Total(f, sales[x].items), xs)

Through(i) == Product[i.product].through

PassThrough(xs)  == ItemTotal(LAMBDA i : IF Through(i) THEN i.sub ELSE 0, xs)
GrossRevenue(xs) == MapThenSumSet(LAMBDA x : sales[x].total, xs) - PassThrough(xs)

\* Returned lines at their net price, in the period of the sale; less than a cent of
\* each is dropped here.
Returned(i) == IF Through(i) THEN 0 ELSE (i.sub * i.ret) \div i.qty
Returns(xs) == ItemTotal(Returned, xs)

\* Returned units are back on the shelf: their cost is no cost of sales.
CostOfSale(i) == IF Through(i) THEN 0 ELSE (i.qty - i.ret) * i.cost
COGS(xs)      == ItemTotal(CostOfSale, xs)

GrossProfit(xs) == GrossRevenue(xs) - Returns(xs) - COGS(xs)

Removed(type, ks) == MapThenSumSet(LAMBDA k : IF moves[k].type = type THEN moves[k].cost ELSE 0, ks)

\* What the counts took off the books, less what they added.
StockCorrections(ks) ==
    MapThenSumSet(LAMBDA k : IF moves[k].type # "adjust" THEN 0
                             ELSE IF moves[k].qty < 0 THEN moves[k].cost ELSE -moves[k].cost, ks)

Expenses == MapThenSumSet(LAMBDA tag : booked.expenses[tag], Tags)

NetProfit(xs, ks) ==
    GrossProfit(xs) - Expenses - Removed("damage", ks) - Removed("own_use", ks) - Removed("staff", ks)
    - StockCorrections(ks) + booked.recoveries + booked.diff

-----------------------------------------------------------------------------
(***************************************************************************)
(* Properties.                                                             *)
(***************************************************************************)
\* What the shop holds: money, stock at the cost of its lots, and what is owed
\* to it less what it owes.
Worth(ls) == cash + Total(LAMBDA l : l.qty * LotCost(l), ls) + owed - payable

\* The statement adds up: over any history its net profit is what the shop gained,
\* apart from what never reaches both, to half a cent for each unit whose worth
\* was rounded.
ProfitIsWorth ==
    LET gap == Worth(lots) - Total(LAMBDA l : l.qty * LotCost(l), InitLots) - unbooked
               - NetProfit(DOMAIN sales, DOMAIN moves)
    IN 2 * (IF gap < 0 THEN -gap ELSE gap) <= rounded

\* "consumed = qty / yield_units", a whole component being rounded up: no sale of
\* a service takes a component it did not need.
NothingWasted ==
    \A x \in DOMAIN sales : \A k \in DOMAIN sales[x].items :
       LET i == sales[x].items[k]
       IN \A c \in Range(Product[i.product].recipe) :
             c.yield > 0 => (Consumed(c, i.qty) - 1) * c.yield < i.qty
=============================================================================
