------------------------------ MODULE Payables ------------------------------
(***************************************************************************)
(* What the shop owes its suppliers: orders, deliveries, payments, goods     *)
(* sent back and refunds (internal/features/purchases, purchasereturns,      *)
(* suppliers, supplierpay, and the handlers that compose them in one         *)
(* transaction, internal/web/supplier_pay_shared.go).                       *)
(*                                                                         *)
(* The payable is stored on the supplier's row, what was paid and credited   *)
(* on the purchase's, both moved by deltas.  Beside them are rows that are    *)
(* only ever inserted: payments, returns, refunds, what of a payment or a     *)
(* return went to which purchase, and the stock movements of a delivery.      *)
(*                                                                         *)
(* Requests:                                                               *)
(*   order    drafts, one per supplier      deliver  goods without an order  *)
(*   edit     a draft's lines               receive  the goods of a draft    *)
(*   drop     a draft                       return   goods sent back         *)
(*   pay      an amount, shared out ("pay", "old") or all in "advance"      *)
(*   refund   money back from a supplier    adjust   a corrected opening debt *)
(*   expense  a running cost                correct, strike  an expense      *)
(*   locker   which lockers the counter may use                            *)
(* A request comes from the office or from the counter, and names the place   *)
(* the money is in: the cashier's drawer, a locker, or nowhere the shop keeps  *)
(* account of.  The document and the money are one transaction.             *)
(* The goods themselves are in Stock, the drawer's other business in Cash.   *)
(***************************************************************************)
EXTENDS Integers, Sequences, FiniteSetsExt

CONSTANTS Tx, NoTx,      \* database transactions (see RowLocks)
          Supplier, Product,
          Drawer, Locker,\* where money is kept: a cashier's drawer, the lockers
          External,      \* .. and anywhere else
          MaxPurchase,   \* bound: how many purchases there ever are
          Price,         \* cost of a unit of each product
          Request,       \* what may be asked
          Desk,          \* the requests each of Tx may serve
          MaxRequests,   \* bound: how many requests are served in all
          InitOpening,   \* the opening debt to each supplier
          InitPurchase,  \* the purchases there are at the start ..
          InitBook,      \* .. and the payments nothing was bought for yet
          InitHeld,      \* what the drawer and the lockers hold at the start ..
          InitFlags      \* .. and how they may be used

VARIABLES com, cur, lock,  \* rows of suppliers, purchases, drawers and lockers
          book,            \* the inserted rows
          tx,              \* the transactions in progress
          served           \* requests begun so far

rowVars == <<com, cur, lock>>
vars    == <<com, cur, lock, book, tx, served>>

Purchase == 1 .. MaxPurchase
Lines    == [Product -> Nat]
Received == {"received", "partial", "paid"}
Status   == {"none", "draft", "gone"} \cup Received
Bill     == [status : Status, sup : Supplier, lines : Lines, total : Nat, paid : Int,
             credited : Int, at : Nat]
Account  == [out : Int, opening : Int, gross : Int]
\* The drawer's session is open throughout.  What a place holds is no column: it
\* is what it held at first and the sum of the moves.
Place    == {Drawer} \cup Locker
Flags    == [shared : BOOLEAN, below : BOOLEAN]   \* cashier_access, allow_negative
Row      == Supplier \cup Purchase \cup Place

DB == INSTANCE RowLocks WITH Value <- Account \cup Bill \cup Flags

\* from: what the request said of the place (it is kept on the receipt only).
Document == [kind : {"payment", "return", "refund"}, id : Int, sup : Supplier, amount : Nat,
             from : Place \cup {External}]
Expense  == [kind : {"expense"}, id : Nat, amount : Nat]
Move     == [kind : {"move"}, doc : Nat, place : Place, amount : Int]
Use      == [kind : {"allocation"}, doc : Int, of : {"payment", "return"}, inv : Purchase,
             amount : Nat \ {0}, by : Nat]
Receipt  == [kind : {"receipt"}, inv : Purchase, sup : Supplier, lines : Lines, by : Nat,
             keep : BOOLEAN]

\* Who asks, and how it is paid: cash is in some place, a transfer may be.
Terms    == {x \in [desk : {"office", "counter"}, cash : BOOLEAN, from : Place \cup {External}] :
               x.cash => x.from # External}

ASSUME PayablesAssumption ==
    /\ NoTx \notin Tx /\ External \notin Place
    /\ Supplier \cap Purchase = {} /\ Place \cap (Supplier \cup Purchase) = {}
    /\ IsFiniteSet(Product) /\ Price \in [Product -> Nat] /\ MaxPurchase \in Nat
    /\ Request \subseteq
            [op : {"order"}, drafts : Seq([sup : Supplier, lines : Lines])]
       \cup [op : {"edit"}, inv : Purchase, lines : Lines]
       \cup [op : {"drop"}, inv : Purchase]
       \cup [op : {"deliver"}, sup : Supplier, lines : Lines, pay : Nat, by : Terms]
       \cup [op : {"receive"}, inv : Purchase, lines : Lines, pay : Nat, keep : BOOLEAN, by : Terms]
       \cup [op : {"pay"}, sup : Supplier, amount : Nat \ {0}, by : Terms,
             mode : {"pay", "old", "advance", "picked"}]
       \cup [op : {"return"}, sup : Supplier, amount : Nat \ {0}]
       \cup [op : {"refund"}, sup : Supplier, amount : Nat \ {0}, by : Terms]
       \cup [op : {"adjust"}, sup : Supplier, amount : Int]
       \cup [op : {"expense"}, amount : Nat \ {0}, by : Terms]
       \cup [op : {"correct"}, amount : Nat \ {0}] \cup [op : {"strike"}]
       \cup [op : {"locker"}, place : Locker, flags : Flags]
    /\ Desk \in [Tx -> SUBSET Request]
    /\ MaxRequests \in Nat
    /\ InitOpening \in [Supplier -> Nat]
    /\ InitPurchase \in [Purchase -> Bill]
    /\ InitBook \subseteq {x \in Document : x.kind = "payment" /\ x.id <= 0 /\ x.from = External}
    /\ IsFiniteSet(InitBook) /\ \A x, y \in InitBook : x.id = y.id => x = y
    /\ InitHeld \in [Place -> Nat]
    /\ InitFlags \in [Place -> Flags] /\ ~InitFlags[Drawer].below

-----------------------------------------------------------------------------
(***************************************************************************)
(* Money.                                                                  *)
(***************************************************************************)
Larger(a, b)  == IF a > b THEN a ELSE b
Smaller(a, b) == IF a < b THEN a ELSE b

Amounts(S) == SumFunctionOnSet([x \in S |-> x.amount], S)

Worth(lines) == SumFunctionOnSet([p \in Product |-> Price[p] * lines[p]], Product)

Balance(b) == b.total - b.paid - b.credited

\* What a supplier owes us.
Credit(out) == Larger(-out, 0)

AddBalance(a, d) == [a EXCEPT !.out     = a.out + d,
                              !.opening = Smaller(a.opening, Larger(a.out + d, 0))]

PayOpening(a, n) == LET m == Larger(Smaller(n, a.opening), 0)
                    IN [a EXCEPT !.out = a.out - m, !.opening = a.opening - m]

AdjustOpening(a, n) == [a EXCEPT !.out     = a.out + (n - a.opening),
                                 !.gross   = a.gross + (n - a.opening),
                                 !.opening = n]

ReceivedStatus(paid, total) == IF paid >= total THEN "paid" ELSE IF paid > 0 THEN "partial"
                               ELSE "received"

\* ApplyPayment, when its guard lets it.
PaidMore(b, n) == [b EXCEPT !.paid   = b.paid + n,
                            !.status = IF b.paid + n >= b.total - b.credited THEN "paid" ELSE "partial"]

\* What an amount goes to: a part of a debt, or of a pool it is drawn from.
First(x, y) == x.at < y.at \/ (x.at = y.at /\ x.id < y.id)

Given(parts) == SumFunctionOnSet([x \in parts |-> x.n], parts)

\* How much of an amount is left for x, when all before it have had theirs.
Share(debts, amount, x) ==
    Smaller(x.n, Larger(amount - Given({y \in debts : First(y, x)}), 0))

Cascade(debts, amount) ==
    {[x EXCEPT !.n = Share(debts, amount, x)] : x \in {y \in debts : Share(debts, amount, y) > 0}}

\* Distribute: one amount over the open invoices and the old debt; the rest is
\* an advance.
Distribute(debts, opening, amount, mode) ==
    LET due      == Larger(opening, 0)
        oldFirst == Smaller(due, amount)
        parts    == Cascade(debts, IF mode = "old" THEN amount - oldFirst ELSE amount)
    IN [alloc |-> parts,
        old   |-> IF mode = "old" THEN oldFirst ELSE Smaller(due, amount - Given(parts))]

\* parseAllocations: an amount picked for the oldest invoice is that invoice's,
\* whole; an advance is nobody's.
Picked(debts, amount, mode) ==
    [alloc |-> {[x EXCEPT !.n = amount] : x \in {y \in debts : /\ mode = "picked"
                                                            /\ \A z \in debts \ {y} : First(y, z)}},
     old   |-> 0]

\* Mutant: the remainder is read off the delivery, which leaves out what did not come.
RemainderOfDelivered(want, got) ==
    [p \in Product |-> IF got[p] = 0 THEN 0 ELSE Larger(want[p] - got[p], 0)]

\* What of an order did not turn up.
RemainderLines(want, got) == [p \in Product |-> Larger(want[p] - got[p], 0)]

-----------------------------------------------------------------------------
(***************************************************************************)
(* A transaction: its next statement, its request, when it began, the purchase*)
(* it is about, the lines that were ordered, the parts still to allocate, the *)
(* part for the old debt, the rest, the old debt it read, and the rows it    *)
(* has inserted.                                                           *)
(***************************************************************************)
Idle == [pc |-> "idle", req |-> [op |-> "none"], at |-> 0, inv |-> 0,
         want |-> [p \in Product |-> 0], alloc |-> {}, old |-> 0, rest |-> 0, left |-> 0,
         seen |-> 0, mine |-> {}]

NoBill == [status |-> "none", sup |-> CHOOSE s \in Supplier : TRUE, lines |-> Idle.want,
           total |-> 0, paid |-> 0, credited |-> 0, at |-> 0]

At(t, s) == tx[t].pc = s
R(t)     == tx[t].req
See(t, r) == DB!Visible(t, r)
Rows(t)  == book \cup tx[t].mine
\* The supplier a transaction deals with.
Sup(t)   == IF R(t).op = "receive" THEN See(t, tx[t].inv).sup ELSE R(t).sup

Totals(f, S) == SumFunctionOnSet([i \in S |-> f[i].total], S)
InitBills(s) == {i \in Purchase : InitPurchase[i].sup = s /\ InitPurchase[i].status \in Received}
InitAccount(s) ==
    LET out == InitOpening[s] + Totals(InitPurchase, InitBills(s))
                 - Amounts({x \in InitBook : x.sup = s})
    IN [out |-> out, opening |-> Smaller(InitOpening[s], Larger(out, 0)), gross |-> InitOpening[s]]

Init == /\ DB!DBInit([r \in Row |-> IF r \in Supplier THEN InitAccount(r)
                                    ELSE IF r \in Purchase THEN InitPurchase[r] ELSE InitFlags[r]])
        /\ book = InitBook
        /\ tx = [t \in Tx |-> Idle]
        /\ served = 0

Tables == UNCHANGED <<book, served>>

\* A request reaches its handler; the statements after step are its transaction.
Asked(t, op)   == {r \in Desk[t] : r.op = op}
Serve          == served < MaxRequests /\ served' = served + 1
Ask(t, r, inv, step) ==
    /\ At(t, "idle") /\ Serve
    /\ tx' = [tx EXCEPT ![t] = [Idle EXCEPT !.pc = step, !.req = r, !.at = served', !.inv = inv]]
    /\ UNCHANGED <<rowVars, book>>

\* WithTx: whatever goes wrong, the cash move included, everything is rolled back.
Fail(t) == DB!Rollback(t) /\ tx' = [tx EXCEPT ![t] = Idle] /\ Tables

Cancel(t) == ~At(t, "idle") /\ Fail(t)

Become(t, x) == tx' = [tx EXCEPT ![t] = x] /\ Tables
Goto(t, s)   == Become(t, [tx[t] EXCEPT !.pc = s])
Read         == UNCHANGED rowVars

\* The row an INSERT gives the next id to.
Fresh(i) == /\ cur[i].status = "none" /\ lock[i] = NoTx
            /\ \A j \in 1 .. i - 1 : cur[j].status # "none" \/ lock[j] # NoTx

Draft(t, s, lines) == [NoBill EXCEPT !.status = "draft", !.sup = s, !.lines = lines,
                                     !.total = Worth(lines), !.at = tx[t].at]

-----------------------------------------------------------------------------
(***************************************************************************)
(* The handlers: what each asks, and the statement its transaction begins    *)
(* with.  At the counter the place of the money is looked up first.          *)
(***************************************************************************)
OrderCreate(t)   == \E r \in Asked(t, "order") : Len(r.drafts) = 1 /\ Ask(t, r, 0, "draft")
PurchaseDraftCreate(t) == \E r \in Asked(t, "order") : Len(r.drafts) > 1 /\ Ask(t, r, 0, "draft")
PurchaseDraftUpdate(t) == \E r \in Asked(t, "edit") : Ask(t, r, r.inv, "find")
PurchaseDraftDelete(t) == \E r \in Asked(t, "drop") : Ask(t, r, r.inv, "drop")

\* Nothing is paid with a delivery the office takes in unordered.
PurchaseReceiveNow(t) ==
    \E r \in Asked(t, "deliver") : r.by.desk = "office" /\ r.pay = 0 /\ Ask(t, r, 0, "insert")

\* At the counter only cash has its place looked up.
ToCounter(r, step) == IF r.pay > 0 /\ r.by.cash THEN "source" ELSE step

ReceiveWalkIn(t) ==
    \E r \in Asked(t, "deliver") : r.by.desk = "counter" /\ Ask(t, r, 0, ToCounter(r, "insert"))

PurchaseReceive(t) ==
    \E r \in Asked(t, "receive") : r.by.desk = "office" /\ Ask(t, r, r.inv, "find")

ReceiveAgainstOrder(t) ==
    \E r \in Asked(t, "receive") : r.by.desk = "counter" /\ Ask(t, r, r.inv, ToCounter(r, "find"))

\* The office types one amount, or picks what it is for; the counter always picks.
SupplierPay(t) ==
    \E r \in Asked(t, "pay") : r.by.desk = "office" /\ Ask(t, r, 0, "plan")

SupplierPayAtCounter(t) ==
    \E r \in Asked(t, "pay") : /\ r.by.desk = "counter" /\ r.mode \in {"advance", "picked"}
                              /\ Ask(t, r, 0, "plan")

\* The credit note of a return is created with it.
PurchaseReturnCreate(t) == \E r \in Asked(t, "return") : Ask(t, r, 0, "debit")

SupplierRefund(t) ==
    \E r \in Asked(t, "refund") : r.by.desk = "office" /\ Ask(t, r, 0, "ask")

SupplierRefundAtCounter(t) ==
    \E r \in Asked(t, "refund") : /\ r.by.desk = "counter"
                                 /\ Ask(t, r, 0, IF r.by.from = External THEN "ask" ELSE "source")

SupplierOpeningAdjust(t) == \E r \in Asked(t, "adjust") : Ask(t, r, 0, "adjust")

\* The place of an expense is never External: MoveTx would refuse it.
ExpenseCreate(t) ==
    \E r \in Asked(t, "expense") : r.by.from # External /\ Ask(t, r, 0, "expense")

\* Handlers that are one statement.  What an expense moved stays as it was.
ExpenseUpdate(t) ==
    /\ At(t, "idle") /\ Serve
    /\ \E r \in Asked(t, "correct"), x \in {y \in book : y.kind = "expense"} :
         book' = (book \ {x}) \cup {[x EXCEPT !.amount = r.amount]}
    /\ UNCHANGED <<rowVars, tx>>

ExpenseDelete(t) ==
    /\ At(t, "idle") /\ Serve /\ Asked(t, "strike") # {}
    /\ \E x \in {y \in book : y.kind = "expense"} : book' = book \ {x}
    /\ UNCHANGED <<rowVars, tx>>

LockerUpdate(t) ==
    /\ At(t, "idle") /\ Serve
    /\ \E r \in Asked(t, "locker") : DB!Update(r.place, r.flags)
    /\ UNCHANGED <<book, tx>>

Handle(t) ==
    \/ OrderCreate(t) \/ PurchaseDraftCreate(t) \/ PurchaseDraftUpdate(t) \/ PurchaseDraftDelete(t)
    \/ PurchaseReceiveNow(t) \/ ReceiveWalkIn(t) \/ PurchaseReceive(t) \/ ReceiveAgainstOrder(t)
    \/ SupplierPay(t) \/ SupplierPayAtCounter(t) \/ PurchaseReturnCreate(t)
    \/ SupplierRefund(t) \/ SupplierRefundAtCounter(t) \/ SupplierOpeningAdjust(t)
    \/ ExpenseCreate(t) \/ ExpenseUpdate(t) \/ ExpenseDelete(t) \/ LockerUpdate(t)

-----------------------------------------------------------------------------
(***************************************************************************)
(* The money's place.                                                      *)
(***************************************************************************)
\* cashierCashSources: the cashier's drawer, and the lockers open to the counter.
Offered(t) == {Drawer} \cup {p \in Locker : See(t, p).shared}

\* counterSource: looked up by a plain SELECT before the transaction.
CounterSource(t) ==
    /\ At(t, "source")
    /\ LET p == R(t).by.from
       IN IF p \in Offered(t)
            THEN /\ Goto(t, CASE R(t).op = "deliver" -> "insert" [] R(t).op = "receive" -> "find"
                              [] R(t).op = "pay"     -> "load"   [] R(t).op = "refund"  -> "ask")
                 /\ Read
            ELSE Fail(t)

InPlace(rows, p) ==
    InitHeld[p] + Amounts({m \in rows : m.kind = "move" /\ m.place = p})

\* Mutant: a transfer moves no money ("the move used to be gated on the method").
ClosingCashOnly(x) == IF /\ \E d \in x.mine : d.kind \in {"payment", "refund", "expense"}
                         /\ x.req.by.cash
                      THEN "move" ELSE "commit"

\* What is left to do once the document is written.
Closing(x) == IF /\ \E d \in x.mine : d.kind \in {"payment", "refund", "expense"}
                 /\ x.req.by.from # External
              THEN "move" ELSE "commit"

\* MoveTx: guardSource reads what the place holds once it has locked its row, the
\* writeLeg of a debit or an intake holds the row too (an intake by its foreign key).
MoveTx(t) ==
    /\ At(t, "move")
    /\ LET p == R(t).by.from
           d == CHOOSE x \in tx[t].mine : x.kind \in {"payment", "refund", "expense"}
           n == IF d.kind = "refund" THEN d.amount ELSE -d.amount
       IN /\ DB!Available(t, p)
          /\ IF n < 0 /\ ~cur[p].below /\ InPlace(Rows(t), p) + n < 0 THEN Fail(t)
             ELSE /\ DB!LockRow(t, p)
                  /\ Become(t, [tx[t] EXCEPT !.pc = "commit", !.mine = @ \cup
                         {[kind |-> "move", doc |-> tx[t].at, place |-> p, amount |-> n]}])

\* CreateInTx.
InsertExpense(t) ==
    /\ At(t, "expense")
    /\ Become(t, [tx[t] EXCEPT !.pc = "move",
                   !.mine = {[kind |-> "expense", id |-> tx[t].at, amount |-> R(t).amount]}])
    /\ Read

-----------------------------------------------------------------------------
(***************************************************************************)
(* Orders.                                                                 *)
(***************************************************************************)
\* createDraftTx, for one supplier after the other.
InsertDraft(t) ==
    /\ At(t, "draft")
    /\ LET n == tx[t].left + 1
           d == R(t).drafts[n]
       IN /\ \E i \in Purchase : Fresh(i) /\ DB!Write(t, i, Draft(t, d.sup, d.lines))
          /\ Become(t, [tx[t] EXCEPT !.left = n,
                                     !.pc = IF n < Len(R(t).drafts) THEN "draft" ELSE "commit"])

\* FindByID and Items, plain SELECTs: only a draft is edited or received.
FindOrder(t) ==
    /\ At(t, "find")
    /\ LET b == See(t, tx[t].inv)
       IN IF b.status # "draft" THEN Fail(t)
          ELSE /\ Become(t, [tx[t] EXCEPT !.want = b.lines, !.pc = R(t).op])
               /\ Read

\* DeleteItems, the new lines and UpdateHeader; new lines need the purchase.
RewriteDraft(t) ==
    /\ At(t, "edit")
    /\ LET i == tx[t].inv
           b == [cur[i] EXCEPT !.status = "draft", !.lines = R(t).lines,
                               !.total = Worth(R(t).lines), !.paid = 0]
       IN /\ DB!Available(t, i)
          /\ IF cur[i].status = "gone" THEN Fail(t)
             ELSE DB!Write(t, i, b) /\ Goto(t, "commit")

\* DeleteDraft: one guarded DELETE.
DeleteDraft(t) ==
    /\ At(t, "drop")
    /\ LET b == com[tx[t].inv]
       IN DB!Update(tx[t].inv, IF b.status = "draft" THEN [b EXCEPT !.status = "gone"] ELSE b)
    /\ Become(t, Idle)

-----------------------------------------------------------------------------
(***************************************************************************)
(* Deliveries: CreateTx, and ReceiveTx of a draft, which differ in the first  *)
(* statements only.                                                        *)
(***************************************************************************)
NewReceipt(t, i, s) == [kind |-> "receipt", inv |-> i, sup |-> s, lines |-> R(t).lines,
                        by |-> tx[t].at, keep |-> R(t).op = "receive" /\ R(t).keep]

InsertPurchase(t) ==
    /\ At(t, "insert")
    /\ \E i \in Purchase :
         /\ Fresh(i)
         /\ LET total == Worth(R(t).lines)
            IN DB!Write(t, i, [Draft(t, R(t).sup, R(t).lines) EXCEPT !.status = ReceivedStatus(0, total)])
         /\ Become(t, [tx[t] EXCEPT !.pc = "bill", !.inv = i, !.mine = {NewReceipt(t, i, R(t).sup)}])

\* UpdateHeader of whatever the purchase has become since FindByID.
UpdateHeader(t) ==
    /\ At(t, "receive")
    /\ LET i     == tx[t].inv
           total == Worth(R(t).lines)
           b     == [cur[i] EXCEPT !.status = ReceivedStatus(0, total), !.lines = R(t).lines,
                                   !.total = total, !.paid = 0]
       IN /\ DB!Available(t, i)
          /\ IF cur[i].status = "gone" THEN Fail(t)
             ELSE /\ DB!Write(t, i, b)
                  /\ Become(t, [tx[t] EXCEPT !.pc = "bill", !.mine = {NewReceipt(t, i, cur[i].sup)}])

\* The end of applyReceivedLines.
AddPayable(t) ==
    /\ At(t, "bill")
    /\ LET owed == Worth(R(t).lines)
       IN IF owed > 0 THEN DB!Write(t, Sup(t), AddBalance(cur[Sup(t)], owed)) ELSE Read
    /\ Goto(t, "credit")

\* Mutant: what the supplier holds is taken from the pools alone.
PoolsAreCredit(t) ==
    /\ At(t, "credit")
    /\ LET left == Balance(See(t, tx[t].inv))
       IN Become(t, [tx[t] EXCEPT !.left = left, !.pc = IF left > 0 THEN "advances" ELSE "remainder"])
    /\ Read

\* ApplySupplierCreditTx: at most the credit there was before this purchase.
ReadCredit(t) ==
    /\ At(t, "credit")
    /\ LET b    == See(t, tx[t].inv)
           left == Smaller(Balance(b), Credit(See(t, Sup(t)).out - b.total))
       IN Become(t, [tx[t] EXCEPT !.left = left, !.pc = IF left > 0 THEN "advances" ELSE "remainder"])
    /\ Read

\* Documents with an amount not yet allocated, as far as t can see.
Used(rows, kind, id) ==
    Amounts({x \in rows : x.kind = "allocation" /\ x.of = kind /\ x.doc = id})

Unapplied(t, kind) ==
    LET docs == {x \in Rows(t) : x.kind = kind /\ x.sup = Sup(t)}
        pool == {[id |-> x.id, at |-> x.id, n |-> x.amount - Used(Rows(t), kind, x.id)] : x \in docs}
    IN {x \in pool : x.n > 0}

Draws(t, of, parts) == {[kind |-> "allocation", doc |-> x.id, of |-> of, inv |-> tx[t].inv,
                         amount |-> x.n, by |-> tx[t].at] : x \in parts}

\* Advances first.  The rows are t's own until it ends: the supplier's since
\* AddBalance, the purchase's since it was written.
DrawAdvances(t) ==
    /\ At(t, "advances")
    /\ LET i     == tx[t].inv
           parts == Cascade(Unapplied(t, "payment"), tx[t].left)
       IN /\ IF parts # {} THEN DB!Write(t, i, PaidMore(cur[i], Given(parts))) ELSE Read
          /\ Become(t, [tx[t] EXCEPT !.left = @ - Given(parts), !.pc = "credits",
                                     !.mine = @ \cup Draws(t, "payment", parts)])

\* Then the value of returned goods.
DrawReturns(t) ==
    /\ At(t, "credits")
    /\ LET i     == tx[t].inv
           parts == Cascade(Unapplied(t, "return"), tx[t].left)
       IN /\ IF parts # {}
               THEN DB!Write(t, i, [cur[i] EXCEPT !.credited = @ + Given(parts)]) ELSE Read
          /\ Become(t, [tx[t] EXCEPT !.left = 0, !.pc = "remainder",
                                     !.mine = @ \cup Draws(t, "return", parts)])

\* What did not come goes on a new draft.
KeepRemainder(t) ==
    /\ At(t, "remainder")
    /\ LET rest == RemainderLines(tx[t].want, R(t).lines)
       IN IF R(t).op = "receive" /\ R(t).keep /\ \E p \in Product : rest[p] > 0
            THEN \E i \in Purchase : Fresh(i) /\ DB!Write(t, i, Draft(t, Sup(t), rest))
            ELSE Read
    /\ Goto(t, "now")

\* owedAfterSettlement and clampToBalance.
PayNow(t) ==
    /\ At(t, "now")
    /\ LET n == Larger(Smaller(R(t).pay, Balance(See(t, tx[t].inv))), 0)
       IN Become(t, IF n > 0 THEN [tx[t] EXCEPT !.alloc = {[id |-> tx[t].inv, at |-> 0, n |-> n]},
                                                !.rest = n, !.pc = "load"]
                    ELSE [tx[t] EXCEPT !.pc = "commit"])
    /\ Read

-----------------------------------------------------------------------------
(***************************************************************************)
(* Payments.  The form is answered with reads on the connection pool, the    *)
(* rest is PayTx.                                                          *)
(***************************************************************************)
\* OpenBySupplier.
OpenOf(t, s) ==
    LET open == {i \in Purchase : See(t, i).sup = s /\ See(t, i).status \in Received /\ Balance(See(t, i)) > 0}
    IN {[id |-> i, at |-> See(t, i).at, n |-> Balance(See(t, i))] : i \in open}

OpenInvoices(t) == /\ At(t, "plan")
                   /\ Become(t, [tx[t] EXCEPT !.alloc = OpenOf(t, R(t).sup), !.pc = "share"])
                   /\ Read

ShareOut(t) ==
    /\ At(t, "share")
    /\ LET d == IF R(t).mode \in {"picked", "advance"}
                  THEN Picked(tx[t].alloc, R(t).amount, R(t).mode)
                  ELSE Distribute(tx[t].alloc, See(t, R(t).sup).opening, R(t).amount, R(t).mode)
       IN Become(t, [tx[t] EXCEPT !.alloc = d.alloc, !.old = d.old, !.rest = R(t).amount - d.old,
                                  !.pc = IF R(t).by.desk = "counter" /\ R(t).by.from # External
                                         THEN "source" ELSE "load"])
    /\ Read

\* The statement of PayTx that is next.
Onward(x) == [x EXCEPT !.pc = IF x.alloc # {} THEN "apply" ELSE IF x.old > 0 THEN "old"
                              ELSE IF x.rest > 0 THEN "settle" ELSE Closing(x)]

\* FindByID of the supplier, InsertPayment.
LoadSupplier(t) ==
    /\ At(t, "load")
    /\ LET x == tx[t]
           p == [kind |-> "payment", id |-> x.at, sup |-> Sup(t), amount |-> x.old + x.rest,
                 from |-> R(t).by.from]
       IN Become(t, Onward([x EXCEPT !.seen = See(t, Sup(t)).opening, !.mine = @ \cup {p}]))
    /\ Read

\* The invoices in their order.
Foremost(t, part) == part \in tx[t].alloc /\ \A x \in tx[t].alloc \ {part} : First(part, x)

ApplyPayment(t) ==
    /\ At(t, "apply")
    /\ \E part \in tx[t].alloc :
         LET i == part.id
         IN /\ Foremost(t, part)
            /\ IF cur[i].paid + part.n > cur[i].total - cur[i].credited
                 THEN DB!Available(t, i) /\ Fail(t)
                 ELSE /\ DB!Write(t, i, PaidMore(cur[i], part.n))
                      /\ Become(t, Onward([tx[t] EXCEPT !.alloc = @ \ {part}, !.mine = @ \cup
                             {[kind |-> "allocation", doc |-> tx[t].at, of |-> "payment", inv |-> i,
                               amount |-> part.n, by |-> tx[t].at]}]))

\* The old debt was read when the supplier was loaded.
PayOldDebt(t) ==
    /\ At(t, "old")
    /\ LET s == Sup(t)
       IN IF tx[t].old > tx[t].seen THEN Fail(t)
          ELSE /\ DB!Write(t, s, PayOpening(cur[s], tx[t].old))
               /\ Become(t, Onward([tx[t] EXCEPT !.old = 0]))

\* Mutant: the whole payment, the old debt's part included.
SettleWhole(t) ==
    /\ At(t, "settle")
    /\ LET pay == CHOOSE x \in tx[t].mine : x.kind = "payment"
       IN DB!Write(t, Sup(t), AddBalance(cur[Sup(t)], -pay.amount))
    /\ Goto(t, Closing(tx[t]))

SettleRest(t) ==
    /\ At(t, "settle")
    /\ DB!Write(t, Sup(t), AddBalance(cur[Sup(t)], -tx[t].rest))
    /\ Goto(t, Closing(tx[t]))

-----------------------------------------------------------------------------
(***************************************************************************)
(* Goods sent back: the balance first, then the invoices, oldest first.     *)
(***************************************************************************)
Doc(t, kind, from) == [kind |-> kind, id |-> tx[t].at, sup |-> R(t).sup, amount |-> R(t).amount,
                       from |-> from]

DebitNote(t) ==
    /\ At(t, "debit")
    /\ DB!Write(t, R(t).sup, AddBalance(cur[R(t).sup], -R(t).amount))
    /\ Become(t, [tx[t] EXCEPT !.mine = {Doc(t, "return", External)}, !.pc = "open"])

ListOpen(t) ==
    /\ At(t, "open")
    /\ LET open == OpenOf(t, R(t).sup)
       IN Become(t, [tx[t] EXCEPT !.alloc = open, !.left = R(t).amount,
                                  !.pc = IF open = {} THEN "commit" ELSE "spend"])
    /\ Read

\* ApplyCredit: no more than the invoice still owes.
ApplyCredit(t) ==
    /\ At(t, "spend")
    /\ \E part \in tx[t].alloc :
         LET i == part.id
             n == Smaller(tx[t].left, Larger(Balance(cur[i]), 0))
             x == [tx[t] EXCEPT !.alloc = @ \ {part}, !.left = @ - n, !.mine = @ \cup
                      (IF n > 0 THEN {[kind |-> "allocation", doc |-> tx[t].at, of |-> "return",
                                       inv |-> i, amount |-> n, by |-> tx[t].at]} ELSE {})]
         IN /\ Foremost(t, part)
            /\ DB!Write(t, i, [cur[i] EXCEPT !.credited = @ + n])
            /\ Become(t, [x EXCEPT !.pc = IF x.left = 0 \/ x.alloc = {} THEN "commit" ELSE "spend"])

-----------------------------------------------------------------------------
(***************************************************************************)
(* Refunds, and a corrected opening debt.                                   *)
(***************************************************************************)
\* RefundTx: the credit is read with a plain SELECT ..
ReadOwed(t) ==
    /\ At(t, "ask")
    /\ IF R(t).amount > Credit(See(t, R(t).sup).out) THEN Fail(t) ELSE Goto(t, "refund") /\ Read

\* .. and the balance moved whatever it has become.
TakeRefund(t) ==
    /\ At(t, "refund")
    /\ DB!Write(t, R(t).sup, AddBalance(cur[R(t).sup], R(t).amount))
    /\ LET x == [tx[t] EXCEPT !.mine = {Doc(t, "refund", R(t).by.from)}]
       IN Become(t, [x EXCEPT !.pc = Closing(x)])

Adjust(t) == /\ At(t, "adjust")
             /\ DB!Update(R(t).sup, AdjustOpening(com[R(t).sup], R(t).amount))
             /\ Become(t, Idle)

-----------------------------------------------------------------------------
Commit(t) == /\ At(t, "commit")
             /\ DB!Commit(t)
             /\ book' = Rows(t)
             /\ tx' = [tx EXCEPT ![t] = Idle]
             /\ UNCHANGED served

Step(t) == \/ InsertDraft(t) \/ FindOrder(t) \/ RewriteDraft(t) \/ DeleteDraft(t)
           \/ InsertPurchase(t) \/ UpdateHeader(t) \/ AddPayable(t) \/ ReadCredit(t)
           \/ DrawAdvances(t) \/ DrawReturns(t) \/ KeepRemainder(t) \/ PayNow(t)
           \/ OpenInvoices(t) \/ ShareOut(t) \/ LoadSupplier(t) \/ ApplyPayment(t)
           \/ PayOldDebt(t) \/ SettleRest(t)
           \/ CounterSource(t) \/ InsertExpense(t) \/ MoveTx(t)
           \/ DebitNote(t) \/ ListOpen(t) \/ ApplyCredit(t)
           \/ ReadOwed(t) \/ TakeRefund(t) \/ Adjust(t) \/ Commit(t)

Closed == served = MaxRequests /\ (\A t \in Tx : At(t, "idle")) /\ UNCHANGED vars

Next == \/ \E t \in Tx : Handle(t) \/ Step(t) \/ Cancel(t)
        \/ Closed

Spec == Init /\ [][Next]_vars

-----------------------------------------------------------------------------
(***************************************************************************)
(* Properties.                                                             *)
(***************************************************************************)
\* Types of the rows, committed and not, and of the transactions.
TypeOK == /\ \A f \in {com, cur} : /\ \A s \in Supplier : f[s] \in Account
                                   /\ \A i \in Purchase : f[i] \in Bill
                                   /\ \A p \in Place : f[p] \in Flags
          /\ lock \in [Row -> Tx \cup {NoTx}]
          /\ \A t \in Tx : /\ ~At(t, "idle") => R(t) \in Request
                           /\ tx[t].mine \subseteq Document \cup Use \cup Receipt \cup Expense \cup Move
                           /\ tx[t].old \in Nat /\ tx[t].rest \in Nat /\ tx[t].left \in Int
          /\ book \subseteq Document \cup Use \cup Receipt \cup Expense \cup Move
          /\ served \in 0 .. MaxRequests

Docs(kind)    == {x \in book : x.kind = kind}
Sum(kind, s)  == Amounts({x \in Docs(kind) : x.sup = s})
Booked        == {i \in Purchase : com[i].status \in Received}
Bills(s)      == {i \in Booked : com[i].sup = s}
Into(i, of)   == Amounts({x \in Docs("allocation") : x.inv = i /\ x.of = of})

\* The authoritative payable is explained by the documents behind it: the gross
\* opening debt, every purchase taken in, what was paid, sent back and refunded.
\* No delta is lost, and none is applied twice.
PayableExplained ==
    \A s \in Supplier :
       com[s].out = com[s].gross + Totals(com, Bills(s))
                    - Sum("payment", s) - Sum("return", s) + Sum("refund", s)

\* What a purchase says was paid and credited is what payments and returns were
\* allocated to it, never more than its total; one that says "paid" owes nothing.
InvoiceExplained ==
    \A i \in Booked : LET b == com[i] IN
       /\ b.paid = Into(i, "payment") /\ b.credited = Into(i, "return")
       /\ Balance(b) >= 0
       /\ b.status = "paid" => Balance(b) = 0

\* "The source debit and the receipt always commit together": every payment,
\* refund and expense that names a place has moved its money there, once and in
\* full, and nothing else has; no place gave more than it held.
Moved(x, n) ==
    {m \in Docs("move") : m.doc = x.id} =
       (IF x.from = External THEN {} ELSE {[kind |-> "move", doc |-> x.id, place |-> x.from, amount |-> n]})
MayGoBelow(p) == \/ InitFlags[p].below
                 \/ \E r \in Request : r.op = "locker" /\ r.place = p /\ r.flags.below
CashFollows ==
    /\ \A x \in Docs("payment") : Moved(x, -x.amount)
    /\ \A x \in Docs("refund")  : Moved(x, x.amount)
    /\ \A x \in Docs("expense") : Cardinality({m \in Docs("move") : m.doc = x.id}) = 1
    /\ \A p \in Place : MayGoBelow(p) \/ InPlace(book, p) >= 0

\* An advance, or the value of returned goods, is spent once: however many
\* deliveries draw on it at the same time, no more of it is allocated than it is.
PoolsSpentOnce ==
    \A x \in Docs("payment") \cup Docs("return") : Used(book, x.kind, x.id) <= x.amount

\* What is owed to a supplier, and on which purchase, follows from the documents.
DebtExplained == PayableExplained /\ InvoiceExplained /\ PoolsSpentOnce

\* "The aggregate said money was owed while every invoice read paid": what is owed
\* beyond the old debt is owed on some invoice that can still be paid.
OwedOnInvoices ==
    \A s \in Supplier : com[s].out - com[s].opening <= SumFunctionOnSet([i \in Bills(s) |-> Balance(com[i])], Bills(s))

OnOrder(s, p) ==
    LET drafts == {i \in Purchase : s[i].status = "draft"}
    IN SumFunctionOnSet([i \in drafts |-> s[i].lines[p]], drafts)

\* A delivery that keeps the remainder takes off the order what came, no more:
\* "an item ordered but delivered in no quantity at all" is still on order.
RestStaysOnOrder ==
    [][\A x \in book' \ book : x.kind = "receipt" /\ x.keep =>
         \A p \in Product : OnOrder(com', p) + x.lines[p] >= OnOrder(com, p)]_vars

\* "Only drafts can be received": no purchase has its goods taken in twice.
ReceivedOnce == \A x, y \in Docs("receipt") : x.inv = y.inv => x = y

\* "It is capped at the credit the supplier actually owes": a refund never leaves
\* the shop owing the supplier for cash it has just taken in.
RefundsCapped ==
    [][\A x \in book' \ book : x.kind = "refund" => com'[x.sup].out <= 0]_vars
=============================================================================
