------------------------------- MODULE Credit -------------------------------
(***************************************************************************)
(* What customers owe: sales put on account, returns, repayments and        *)
(* corrections of the opening debt (internal/features/sales and customers). *)
(*                                                                         *)
(* The balance is stored on the customer's row and moved by deltas, never   *)
(* recomputed; what a line has had returned is stored on the line; whether  *)
(* the sale is returned is stored on the sale.  Each handler reads some of  *)
(* these rows with plain SELECTs, decides, and writes under row locks.      *)
(*                                                                         *)
(* A request is one handler: a sale, the return of a whole sale or of some   *)
(* of its lines, a repayment taken at a till, in the office or by the API,   *)
(* and what an owner does to the customer's row itself: a corrected opening  *)
(* debt, a new limit, a customer created, imported, edited, disabled or      *)
(* brought back.  Lots, the movement trail and damaged returns are in Stock, *)
(* the cash of a refund in Cash; a place that takes a repayment is credited   *)
(* by MoveTx in the same transaction, and here only what it took is kept.    *)
(***************************************************************************)
EXTENDS Integers, Sequences, FiniteSetsExt

CONSTANTS Tx, NoTx,              \* database transactions (see RowLocks)
          Customer, NoCustomer,  \* ids of customers; NoCustomer: customer_id IS NULL
          Phone, NoPhone, Plain, \* telephone numbers as typed; Plain takes out spaces and dashes
          Place, Open,           \* tills and lockers, and those that can take money
          Sale, Item, Product,   \* sales, sale_items, stock rows
          Bill,                  \* what each sale is to be: its lines and its tender
          LineOf,                \* the product, quantity and net value of each line
          Request,               \* what may be asked
          Desk,                  \* the requests each of Tx may serve
          MaxRequests,           \* bound: how many requests are served in all
          InitStatus,            \* the sales there are at the start, and their status
          InitOpening,           \* the opening debt of each customer
          InitLimit,             \* .. and the credit limit
          InitPhone,             \* .. and the telephone number of those there are
          InitGoods              \* what is on the shelf at the start

VARIABLES com, cur, lock,  \* rows of customers, sales, sale_items and stock
          returned,        \* sale_returns, and the whole returns beside them
          rung,            \* when each sale was rung up
          paid,            \* customer_payments, with the move of cash booked for each
          tx,              \* the transactions in progress
          served           \* requests begun so far

rowVars == <<com, cur, lock>>
vars    == <<com, cur, lock, returned, rung, paid, tx, served>>

Row     == Customer \cup Sale \cup Item \cup Product
Status  == {"none", "completed", "credit", "partially_returned", "returned"}
State   == {"none", "active", "disabled"}
Account == [out : Int, opening : Int, gross : Int, limit : Nat, phone : Phone \cup {NoPhone},
            state : State]

DB == INSTANCE RowLocks WITH Value <- Account \cup Status \cup Int

Tender == [cust : Customer \cup {NoCustomer}, lines : Seq(Item) \ {<<>>}, total : Nat, paid : Nat,
           account : Nat, given : Nat, keep : BOOLEAN, over : BOOLEAN]

\* Part of a line to send back, and a line with what is left of it to handle.
Part == [item : Item, n : Nat \ {0}]
Left == [item : Item, n : Int]

\* Rows of different tables are different; a customer's id is a number; a cleaned
\* number is clean; a sale has lines, and those there are at the start are to
\* customers there are (foreign keys); a handler lets no empty return through.
ASSUME CreditAssumption ==
    /\ NoTx \notin Tx /\ NoCustomer \notin Customer
    /\ Customer \cap (Sale \cup Item \cup Product) = {} /\ Sale \cap (Item \cup Product) = {}
    /\ Item \cap Product = {}
    /\ Bill \in [Sale -> Tender]
    /\ LineOf \in [Item -> [product : Product, qty : Nat \ {0}, net : Nat]]
    /\ Customer \subseteq Nat
    /\ Plain \in [Phone -> Phone] /\ \A n \in Phone : Plain[Plain[n]] = Plain[n]
    /\ NoPhone \notin Phone /\ Open \subseteq Place
    /\ Request \subseteq [op : {"sale", "return"}, sale : Sale]
                    \cup [op : {"partial"}, sale : Sale, parts : Seq(Part) \ {<<>>}]
                    \cup [op : {"till", "office", "api"}, cust : Customer, amount : Nat \ {0},
                          old : BOOLEAN, cash : BOOLEAN, to : Place]
                    \cup [op : {"adjust"}, cust : Customer, amount : Int]
                    \cup [op : {"limit"}, cust : Customer, amount : Nat]
                    \cup [op : {"edit"}, cust : Customer, amount : Nat, phone : Phone \cup {NoPhone}]
                    \cup [op : {"create", "import"}, phone : Phone \cup {NoPhone}, amount : Nat,
                          opening : Nat]
                    \cup [op : {"disable", "restore"}, cust : Customer]
    /\ Desk \in [Tx -> SUBSET Request]
    /\ MaxRequests \in Nat
    /\ IsFiniteSet(Sale)
    /\ InitStatus \in [Sale -> {"none", "completed", "credit"}]
    /\ InitOpening \in [Customer -> Nat] /\ InitLimit \in [Customer -> Nat]
    /\ InitPhone \in [Customer -> Phone \cup {NoPhone}]
    /\ \A s \in Sale : InitStatus[s] # "none" /\ Bill[s].cust # NoCustomer
                     => InitPhone[Bill[s].cust] # NoPhone
    /\ InitGoods \in [Product -> Nat]

-----------------------------------------------------------------------------
(***************************************************************************)
(* Money.                                                                  *)
(***************************************************************************)
Larger(a, b)  == IF a > b THEN a ELSE b
Smaller(a, b) == IF a < b THEN a ELSE b

\* The columns of one customer, moved by a sale, a return or a repayment.
AddBalance(a, d) == [a EXCEPT !.out     = a.out + d,
                              !.opening = Smaller(a.opening, Larger(a.out + d, 0))]

PayOpening(a, n) == LET m == Larger(Smaller(n, a.opening), 0)
                    IN [a EXCEPT !.out = a.out - m, !.opening = a.opening - m]

AdjustOpening(a, n) == [a EXCEPT !.out     = a.out + (n - a.opening),
                                 !.gross   = a.gross + (n - a.opening),
                                 !.opening = n]

\* What a sale leaves unpaid, and so on the account.
Owed(s) == Bill[s].total - Bill[s].paid

\* The change a customer leaves behind as an advance.
Kept(b) == LET change == b.paid - b.total
           IN IF b.account = 0 /\ b.keep /\ b.cust # NoCustomer
                THEN Larger(change - b.given, 0) ELSE 0

\* What a sale does to the customer's balance.
OnAccount(b) == b.account - Kept(b)

\* Mutant: the limit is not looked at.
AcceptedAnyway(b, available) == b.paid + b.account >= b.total

\* CheckTender.
Accepted(b, available) ==
    /\ b.paid + b.account >= b.total
    /\ b.account > 0 => /\ b.cust # NoCustomer
                        /\ b.paid + b.account = b.total
                        /\ b.over \/ b.account <= available

\* The value of n units of a line: the unit value is rounded before it is used.
LineRefund(i, n) == LET l == LineOf[i] IN n * ((2 * l.net + l.qty) \div (2 * l.qty))

Lines(s) == Bill[s].lines
Items(s) == {Lines(s)[k] : k \in DOMAIN Lines(s)}

-----------------------------------------------------------------------------
(***************************************************************************)
(* A transaction: its next statement, its request, when it began, the lines  *)
(* it has still to handle, the value returned so far, the balance a payment  *)
(* found and the part meant for the opening debt, the customer an import     *)
(* matched, and the status it will give the sale.                          *)
(***************************************************************************)
Idle == [pc |-> "idle", req |-> [op |-> "none"], at |-> 0, todo |-> <<>>, value |-> 0,
         before |-> 0, old |-> 0, match |-> NoCustomer, status |-> "none"]

At(t, s) == tx[t].pc = s
R(t)     == tx[t].req
B(t)     == Bill[R(t).sale]
This(t) == Head(tx[t].todo)

\* Lines of a sale with what is left to return, as the transaction sees them.
Unreturned(t, i) == LineOf[i].qty - DB!Visible(t, i)
Outstanding(t, s) == {i \in Items(s) : Unreturned(t, i) > 0}

InitAccount(c) ==
    LET debt == InitOpening[c] + SumFunctionOnSet([s \in Sale |-> OnAccount(Bill[s])],
                                    {s \in Sale : InitStatus[s] # "none" /\ Bill[s].cust = c})
    IN [out |-> debt, opening |-> InitOpening[c], gross |-> InitOpening[c], limit |-> InitLimit[c],
        phone |-> InitPhone[c], state |-> IF InitPhone[c] = NoPhone THEN "none" ELSE "active"]

Init == /\ DB!DBInit([r \in Row |-> IF r \in Customer THEN InitAccount(r)
                                    ELSE IF r \in Sale THEN InitStatus[r]
                                    ELSE IF r \in Item THEN 0 ELSE InitGoods[r]])
        /\ returned = {} /\ paid = {}
        /\ rung = {[sale |-> s, at |-> 0] : s \in {x \in Sale : InitStatus[x] # "none"}}
        /\ tx = [t \in Tx |-> Idle]
        /\ served = 0

Tables == UNCHANGED <<returned, rung, paid, served>>

\* A handler takes its request; its first statement is start, its lines are todo.
Serve(t, r, start, todo) ==
    /\ At(t, "idle") /\ r \in Desk[t]
    /\ served < MaxRequests
    /\ served' = served + 1
    /\ tx' = [tx EXCEPT ![t] = [Idle EXCEPT !.pc = start, !.req = r, !.at = served', !.todo = todo]]
    /\ UNCHANGED <<rowVars, returned, rung, paid>>

\* There is a customer with this id.
Known(c) == com[c].state # "none"

\* A sale is rung up by one request; whom it is to, if anyone, is a customer there is
\* (customer_id is a foreign key).
SaleCreate(t, r) ==
    /\ r.op = "sale" /\ com[r.sale] = "none" /\ \A u \in Tx : R(u) # r
    /\ LET c == Bill[r.sale].cust IN c # NoCustomer => Known(c)
    /\ Serve(t, r, "goods", [k \in DOMAIN Lines(r.sale) |->
                               [item |-> Lines(r.sale)[k], n |-> LineOf[Lines(r.sale)[k]].qty]])

SaleReturn(t, r)    == r.op = "return"  /\ Serve(t, r, "status", <<>>)
PartialReturn(t, r) == r.op = "partial" /\ Serve(t, r, "status", r.parts)

\* The customer is looked up before a repayment is taken; nothing of it is used but
\* the name.
CreditPay(t, r)   == r.op = "till"   /\ Known(r.cust) /\ Serve(t, r, "load", <<>>)
CustomerPay(t, r) == r.op = "office" /\ Known(r.cust) /\ Serve(t, r, "load", <<>>)
Payment(t, r)     == r.op = "api"    /\ Known(r.cust) /\ Serve(t, r, "load", <<>>)

CustomerOpeningAdjust(t, r) == r.op = "adjust" /\ Known(r.cust) /\ Serve(t, r, "adjust", <<>>)
SetLimit(t, r)              == r.op = "limit"  /\ Serve(t, r, "limit", <<>>)
CustomerUpdate(t, r)        == r.op = "edit"   /\ Serve(t, r, "edit", <<>>)
CustomerDelete(t, r)        == r.op = "disable" /\ Serve(t, r, "disable", <<>>)
CustomerReactivate(t, r)    == r.op = "restore" /\ Serve(t, r, "restore", <<>>)

\* A new customer needs a telephone number; a line of an import does not.
CustomerCreate(t, r) == r.op = "create" /\ r.phone # NoPhone /\ Serve(t, r, "match", <<>>)
CustomerImport(t, r) == r.op = "import" /\ Serve(t, r, "match", <<>>)

Begin(t, r) == \/ SaleCreate(t, r) \/ SaleReturn(t, r) \/ PartialReturn(t, r)
               \/ CreditPay(t, r) \/ CustomerPay(t, r) \/ Payment(t, r)
               \/ CustomerOpeningAdjust(t, r) \/ SetLimit(t, r) \/ CustomerUpdate(t, r)
               \/ CustomerDelete(t, r) \/ CustomerReactivate(t, r)
               \/ CustomerCreate(t, r) \/ CustomerImport(t, r)

\* WithTx: whatever goes wrong, everything is rolled back.
Fail(t) == DB!Rollback(t) /\ tx' = [tx EXCEPT ![t] = Idle] /\ Tables

Cancel(t) == ~At(t, "idle") /\ Fail(t)

Goto(t, s) == tx' = [tx EXCEPT ![t].pc = s] /\ Tables

\* Next line, or on to s.
NextPart(t, first, s) == IF Len(tx[t].todo) > 1 THEN first ELSE s

-----------------------------------------------------------------------------
(***************************************************************************)
(* A sale.                                                                 *)
(***************************************************************************)
\* DecrementGuarded, line after line.
Goods(t) ==
    /\ At(t, "goods")
    /\ LET part == This(t)
           p    == LineOf[part.item].product
       IN IF DB!Visible(t, p) < part.n THEN Fail(t)
          ELSE /\ DB!Write(t, p, cur[p] - part.n)
               /\ tx' = [tx EXCEPT ![t].todo = Tail(@), ![t].pc = NextPart(t, "goods", "tender")]
               /\ Tables

\* The customer is loaded with a plain SELECT; CheckTender.
CheckTender(t) ==
    /\ At(t, "tender")
    /\ LET b == B(t)
           available == IF b.account > 0 /\ b.cust # NoCustomer
                          THEN DB!Visible(t, b.cust).limit - DB!Visible(t, b.cust).out ELSE 0
       IN IF ~Accepted(b, available) THEN Fail(t)
          ELSE /\ Goto(t, IF b.account > 0 \/ Kept(b) > 0 THEN "charge" ELSE "insert")
               /\ UNCHANGED rowVars

\* Mutant: the advance is noted on the sale but not booked.
ChargeDebtOnly(t) ==
    /\ At(t, "charge")
    /\ LET b == B(t) IN DB!Write(t, b.cust, AddBalance(cur[b.cust], b.account))
    /\ Goto(t, "insert")

\* AddBalance: the debt, or the change left behind as an advance.
Charge(t) ==
    /\ At(t, "charge")
    /\ LET b == B(t) IN DB!Write(t, b.cust, AddBalance(cur[b.cust], OnAccount(b)))
    /\ Goto(t, "insert")

InsertSale(t) ==
    /\ At(t, "insert")
    /\ DB!Write(t, R(t).sale, IF B(t).account > 0 THEN "credit" ELSE "completed")
    /\ Goto(t, "commit")

-----------------------------------------------------------------------------
(***************************************************************************)
(* Returns.                                                                *)
(***************************************************************************)
\* FindByID, a plain SELECT.  A whole return wants the sale untouched.
FindSale(t) ==
    /\ At(t, "status")
    /\ LET refused == {"none", "returned"}
                      \cup (IF R(t).op = "return" THEN {"partially_returned"} ELSE {})
       IN IF DB!Visible(t, R(t).sale) \in refused THEN Fail(t)
          ELSE /\ Goto(t, IF R(t).op = "return" THEN "items" ELSE "find")
               /\ UNCHANGED rowVars

\* Return: one SELECT gives what remains of every line.
FindItems(t) ==
    /\ At(t, "items")
    /\ LET lines == Lines(R(t).sale)
       IN tx' = [tx EXCEPT
                   ![t].todo = [k \in DOMAIN lines |-> [item |-> lines[k], n |-> Unreturned(t, lines[k])]],
                   ![t].pc   = "restock"]
    /\ UNCHANGED rowVars /\ Tables

\* PartialReturn: the line is looked up and refused if too little remains ..
FindItem(t) ==
    /\ At(t, "find")
    /\ IF This(t).n > Unreturned(t, This(t).item) THEN Fail(t)
       ELSE Goto(t, "take") /\ UNCHANGED rowVars

\* Mutant: the UPDATE lost its WHERE returned_qty + $1 <= quantity.
AddReturnedUnguarded(t) ==
    /\ At(t, "take")
    /\ LET part == This(t) IN
       /\ DB!Write(t, part.item, cur[part.item] + part.n)
       /\ tx' = [tx EXCEPT ![t].pc = "restock", ![t].value = @ + LineRefund(part.item, part.n)]
       /\ Tables

\* .. and AddReturnedQty counts the units, guarded.
AddReturnedQty(t) ==
    /\ At(t, "take")
    /\ LET part == This(t) IN
       IF part.n > Unreturned(t, part.item) THEN Fail(t)
       ELSE /\ DB!Write(t, part.item, cur[part.item] + part.n)
            /\ tx' = [tx EXCEPT ![t].pc = "restock",
                                ![t].value = @ + LineRefund(part.item, part.n)]
            /\ Tables

\* The goods go back on the shelf; a line with nothing left is passed over.
Restock(t) ==
    /\ At(t, "restock")
    /\ IF This(t).n > 0
         THEN LET p == LineOf[This(t).item].product IN DB!Write(t, p, cur[p] + This(t).n)
         ELSE UNCHANGED rowVars
    /\ IF R(t).op = "return" /\ This(t).n > 0 THEN Goto(t, "mark")
       ELSE /\ tx' = [tx EXCEPT ![t].todo = Tail(@),
                                ![t].pc = NextPart(t, IF R(t).op = "return" THEN "restock" ELSE "find", "credit")]
            /\ Tables

\* MarkItemFullyReturned, unguarded.
MarkItem(t) ==
    /\ At(t, "mark")
    /\ DB!Write(t, This(t).item, LineOf[This(t).item].qty)
    /\ tx' = [tx EXCEPT ![t].todo = Tail(@), ![t].pc = NextPart(t, "restock", "credit")]
    /\ Tables

\* The credit a return removes: everything the sale left unpaid, or what the
\* returned lines are worth if that is less.
CreditReduction(t) ==
    IF B(t).cust = NoCustomer THEN 0
    ELSE LET owed == Larger(Owed(R(t).sale), 0)
         IN IF R(t).op = "return" THEN owed ELSE Smaller(tx[t].value, owed)

\* AddBalance; a partial return calls it even to remove nothing.
Uncharge(t) ==
    /\ At(t, "credit")
    /\ IF B(t).cust # NoCustomer /\ Owed(R(t).sale) > 0
         THEN DB!Write(t, B(t).cust, AddBalance(cur[B(t).cust], -CreditReduction(t)))
         ELSE UNCHANGED rowVars
    /\ IF R(t).op = "partial" THEN Goto(t, "outstanding")
       ELSE tx' = [tx EXCEPT ![t].pc = "close", ![t].status = "returned"] /\ Tables

\* Mutant: the status looks only at the lines of this return.
OutstandingHere(t) ==
    /\ At(t, "outstanding")
    /\ tx' = [tx EXCEPT ![t].pc = "close", ![t].status =
                IF \E k \in DOMAIN R(t).parts : Unreturned(t, R(t).parts[k].item) > 0
                  THEN "partially_returned" ELSE "returned"]
    /\ UNCHANGED rowVars /\ Tables

\* OutstandingItems, a plain SELECT.
OutstandingItems(t) ==
    /\ At(t, "outstanding")
    /\ tx' = [tx EXCEPT ![t].pc = "close",
                        ![t].status = IF Outstanding(t, R(t).sale) = {}
                                        THEN "returned" ELSE "partially_returned"]
    /\ UNCHANGED rowVars /\ Tables

UpdateStatus(t) == /\ At(t, "close")
                   /\ DB!Write(t, R(t).sale, tx[t].status)
                   /\ Goto(t, "commit")

-----------------------------------------------------------------------------
(***************************************************************************)
(* Repayments, and the corrections an owner makes: one statement each.      *)
(***************************************************************************)
Repayments == {"till", "office", "api"}

\* The customer is loaded with a plain SELECT: the balance the slip will show, and
\* how much is for the opening debt.
Load(t) ==
    /\ At(t, "load")
    /\ LET a == DB!Visible(t, R(t).cust)
           n == IF R(t).old THEN Larger(Smaller(R(t).amount, a.opening), 0) ELSE 0
       IN tx' = [tx EXCEPT ![t].before = a.out, ![t].old = n,
                           ![t].pc = IF n > 0 THEN "old" ELSE "settle"]
    /\ UNCHANGED rowVars /\ Tables

PayOld(t) ==
    /\ At(t, "old")
    /\ DB!Write(t, R(t).cust, PayOpening(cur[R(t).cust], tx[t].old))
    /\ Goto(t, IF R(t).amount > tx[t].old THEN "settle" ELSE "cash")

Settle(t) ==
    /\ At(t, "settle")
    /\ DB!Write(t, R(t).cust, AddBalance(cur[R(t).cust], -(R(t).amount - tx[t].old)))
    /\ Goto(t, "cash")

\* Cash taken over a counter moves from outside into its till or locker; the API
\* records the repayment alone.
Moves(r) == r.cash /\ r.op # "api"

MoveCash(t) ==
    /\ At(t, "cash")
    /\ IF Moves(R(t)) /\ R(t).to \notin Open THEN Fail(t)
       ELSE Goto(t, "commit") /\ UNCHANGED rowVars

\* One UPDATE, committed by itself; WHERE is_active, it may find nothing.
Update(t, c, a) == /\ DB!Update(c, a)
                   /\ tx' = [tx EXCEPT ![t] = Idle]
                   /\ Tables

UpdateActive(t, c, a) == IF com[c].state = "active" THEN Update(t, c, a) ELSE Fail(t)

Adjust(t) ==
    At(t, "adjust") /\ UpdateActive(t, R(t).cust, AdjustOpening(com[R(t).cust], R(t).amount))

SetCreditLimit(t) ==
    At(t, "limit") /\ UpdateActive(t, R(t).cust, [com[R(t).cust] EXCEPT !.limit = R(t).amount])

Edited(a, limit, phone) == [a EXCEPT !.limit = limit, !.phone = phone]

Edit(t) ==
    At(t, "edit") /\ UpdateActive(t, R(t).cust, Edited(com[R(t).cust], R(t).amount, R(t).phone))

\* .. and these have no such guard.
Deactivate(t) ==
    /\ At(t, "disable") /\ Known(R(t).cust)
    /\ Update(t, R(t).cust, [com[R(t).cust] EXCEPT !.state = "disabled"])

Reactivate(t) ==
    /\ At(t, "restore") /\ Known(R(t).cust)
    /\ Update(t, R(t).cust, [com[R(t).cust] EXCEPT !.state = "active"])

-----------------------------------------------------------------------------
(***************************************************************************)
(* Customers made: at a counter, where a known number is the known customer, *)
(* and by the lines of an import.                                          *)
(***************************************************************************)
Fresh(phone, limit, opening) ==
    [out |-> opening, opening |-> opening, gross |-> opening, limit |-> limit,
     phone |-> phone, state |-> "active"]

\* FindByPhone, a plain SELECT: the first active customer with exactly this number.
FindByPhone(d, phone) ==
    LET same == {c \in Customer : d[c].state = "active" /\ d[c].phone = phone}
    IN IF phone = NoPhone \/ same = {} THEN NoCustomer ELSE Min(same)

\* The number as it is looked up and stored: only the counter cleans it.
Stored(r) == IF r.op = "create" THEN Plain[r.phone] ELSE r.phone

Unused(d) == {c \in Customer : d[c].state = "none"}

\* Mutant: a known customer's balance is brought up to the sheet's.
ImportAdds(d, r) ==
    LET c == FindByPhone(d, r.phone)
    IN IF c = NoCustomer THEN d
       ELSE [d EXCEPT ![c] = [Edited(@, r.amount, r.phone) EXCEPT !.out = @ + r.opening]]

\* What an import's line leaves of the customers; a new one takes the next id.
ImportOne(d, r) ==
    LET c == FindByPhone(d, r.phone)
    IN IF c # NoCustomer THEN [d EXCEPT ![c] = Edited(@, r.amount, r.phone)]
       ELSE IF Unused(d) = {} THEN d
       ELSE [d EXCEPT ![Min(Unused(d))] = Fresh(r.phone, r.amount, r.opening)]

\* The customer a creation or an import's line finds.
Matched(t) == FindByPhone([c \in Customer |-> DB!Visible(t, c)], Stored(R(t)))

Match(t) ==
    /\ At(t, "match")
    /\ LET c == Matched(t)
       IN IF c = NoCustomer THEN Goto(t, "register")
          ELSE /\ tx' = [tx EXCEPT ![t] = IF R(t).op = "create" THEN Idle  \* reused as it is
                                         ELSE [@ EXCEPT !.match = c, !.pc = "rewrite"]]
               /\ Tables
    /\ UNCHANGED rowVars

\* The import's UPDATE of the customer it found, if still active.
Rewrite(t) ==
    /\ At(t, "rewrite")
    /\ IF cur[tx[t].match].state # "active" THEN Fail(t)
       ELSE /\ DB!Write(t, tx[t].match, Edited(cur[tx[t].match], R(t).amount, R(t).phone))
            /\ Goto(t, "commit")

\* Ids are given once: the bound on them is Customer.
InsertCustomer(t) ==
    /\ At(t, "register")
    /\ Unused(cur) # {}
    /\ DB!Write(t, Min(Unused(cur)), Fresh(Stored(R(t)), R(t).amount, R(t).opening))
    /\ Goto(t, "commit")

-----------------------------------------------------------------------------
Commit(t) ==
    /\ At(t, "commit")
    /\ DB!Commit(t)
    /\ returned' = returned \cup
         IF R(t).op \in {"return", "partial"}
           THEN {[id |-> tx[t].at, sale |-> R(t).sale, credit |-> CreditReduction(t),
                  slip |-> R(t).op = "partial",
                  refund |-> IF R(t).op = "partial" THEN tx[t].value - CreditReduction(t) ELSE 0]}
           ELSE {}
    /\ rung' = rung \cup IF R(t).op = "sale" THEN {[sale |-> R(t).sale, at |-> tx[t].at]} ELSE {}
    /\ paid' = paid \cup
         IF R(t).op \in Repayments
           THEN {[id |-> tx[t].at, cust |-> R(t).cust, amount |-> R(t).amount, before |-> tx[t].before,
                  move |-> IF Moves(R(t)) THEN {[to |-> R(t).to, amount |-> R(t).amount]} ELSE {}]}
           ELSE {}
    /\ tx' = [tx EXCEPT ![t] = Idle]
    /\ UNCHANGED served

Step(t) == \/ Goods(t) \/ CheckTender(t) \/ Charge(t) \/ InsertSale(t)
           \/ FindSale(t) \/ FindItems(t) \/ FindItem(t) \/ AddReturnedQty(t) \/ Restock(t)
           \/ MarkItem(t) \/ Uncharge(t) \/ OutstandingItems(t) \/ UpdateStatus(t)
           \/ Load(t) \/ PayOld(t) \/ Settle(t) \/ MoveCash(t)
           \/ Adjust(t) \/ SetCreditLimit(t) \/ Edit(t) \/ Deactivate(t) \/ Reactivate(t)
           \/ Match(t) \/ Rewrite(t) \/ InsertCustomer(t)
           \/ Commit(t)

Closed == served = MaxRequests /\ (\A t \in Tx : At(t, "idle")) /\ UNCHANGED vars

Next == \/ \E t \in Tx : (\E r \in Request : Begin(t, r)) \/ Step(t) \/ Cancel(t)
        \/ Closed

Spec == Init /\ [][Next]_vars

-----------------------------------------------------------------------------
(***************************************************************************)
(* Properties.                                                             *)
(***************************************************************************)
TxTypeOK(t) == /\ ~At(t, "idle") => R(t) \in Request
               /\ \A k \in DOMAIN tx[t].todo : tx[t].todo[k] \in Left
               /\ tx[t].at \in 0 .. served
               /\ tx[t].value \in Nat /\ tx[t].old \in Nat /\ tx[t].status \in Status

\* Types of the rows and of the transactions.
TypeOK == /\ \A f \in {com, cur} : /\ \A c \in Customer : f[c] \in Account
                                   /\ \A s \in Sale : f[s] \in Status
                                   /\ \A i \in Item : f[i] \in Nat
                                   /\ \A p \in Product : f[p] \in Int
          /\ lock \in [Row -> Tx \cup {NoTx}]
          /\ \A t \in Tx : TxTypeOK(t)
          /\ served \in 0 .. MaxRequests

Sold         == {s \in Sale : com[s] # "none"}
Credited(s)  == SumFunctionOnSet([x \in returned |-> x.credit], {x \in returned : x.sale = s})
Refunded(s)  == SumFunctionOnSet([x \in returned |-> x.refund], {x \in returned : x.sale = s})
SalesTo(c)   == {s \in Sold : Bill[s].cust = c}
Payments(c)  == SumFunctionOnSet([x \in paid |-> x.amount], {x \in paid : x.cust = c})

\* What the documents say of a customer: the gross opening debt, what each sale put
\* on account or left as an advance, what returns took off, and the repayments.
Explained(c) == com[c].gross - Payments(c)
                + SumFunctionOnSet([s \in Sale |-> OnAccount(Bill[s]) - Credited(s)], SalesTo(c))

\* The authoritative balance is explained by the documents behind it: no delta is
\* lost or applied twice.
BalanceExplained == \A c \in Customer : com[c].out = Explained(c)

\* What a request does to a customer's account it does in one step, at its commit,
\* however its statements fall between those of others (AddBalance, PayOpening).
Books == INSTANCE Debts
    WITH Buyer <- [s \in Sale |-> Bill[s].cust],
         Charged <- [s \in Sale |-> OnAccount(Bill[s])],
         Unpaid <- [s \in Sale |-> IF Bill[s].cust = NoCustomer THEN 0 ELSE Larger(Owed(s), 0)],
         Amount <- {r.amount : r \in {q \in Request : q.op \in Repayments}},
         Before <- {s \in Sale : InitStatus[s] # "none"},
         Start <- [c \in Customer |-> SumFunctionOnSet([s \in Sale |-> OnAccount(Bill[s])],
                                       {s \in Sale : InitStatus[s] # "none" /\ Bill[s].cust = c})],
         balance <- [c \in Customer |-> com[c].out - com[c].gross],
         sold <- Sold,
         credited <- [s \in Sale |-> Credited(s)],
         repaid <- [c \in Customer |-> Payments(c)]

KeepsAccounts == Books!Spec

\* Goods come back once: what is on the shelf is what was there, less the lines
\* sold, plus what those lines say was returned.
GoodsExplained ==
    \A p \in Product :
       LET of == {i \in Item : LineOf[i].product = p}
           new == {s \in Sold : InitStatus[s] = "none"}
       IN com[p] = InitGoods[p] + SumFunctionOnSet(com, of)
                   - SumFunctionOnSet([i \in Item |-> LineOf[i].qty],
                                      {i \in of : \E s \in new : i \in Items(s)})

\* A line's return is "guarded so it never exceeds the quantity sold" (AddReturnedQty),
\* and however many returns a sale is spread over, what they give back in cash and credit
\* together is the value of the units that came back, no unit paid for twice; a return of
\* the whole sale stands alone.  That value is the line's, at a rounded unit value: the
\* bill's own discount and tax are not in it, so line returns of a discounted bill may
\* give back more than it charged.
ReturnsValued ==
    /\ \A i \in Item : /\ com[i] <= LineOf[i].qty
                       /\ com[i] > 0 => \E x \in returned : i \in Items(x.sale)
    /\ \A s \in {x.sale : x \in returned} :
         LET of == {x \in returned : x.sale = s}
         IN IF \A x \in of : x.slip
              THEN Credited(s) + Refunded(s)
                     = SumFunctionOnSet([i \in Items(s) |-> LineRefund(i, com[i])], Items(s))
              ELSE Cardinality(of) = 1 /\ Credited(s) + Refunded(s) <= Bill[s].total

\* Line returns are "credit-correct": together they never remove more from the
\* customer's balance than the sale put on it.
CreditWithinOwed == \A s \in Sale : Credited(s) <= Bill[s].account

\* A sale is 'returned' when, and only when, nothing of it is left to return.
StatusTells == \A s \in Sold : com[s] = "returned" <=> \A i \in Items(s) : com[i] = LineOf[i].qty

\* Nothing comes back twice, not the goods, not the money, and the status says so.
ReturnsExplained == GoodsExplained /\ ReturnsValued /\ StatusTells

\* The limit holds when a sale goes on account without the override: it may not
\* leave the customer owing more than the limit.
LimitRespected ==
    [][\A s \in Sale : LET c == Bill[s].cust IN
         com[s] = "none" /\ com'[s] = "credit" /\ ~Bill[s].over => com'[c].out <= com'[c].limit]_vars

\* opening_unlinked "can never exceed the current outstanding balance": no sale,
\* return or repayment takes the old debt above the balance (a corrected opening,
\* which changes the gross, can).
OpeningWithin(a) == a.opening <= Larger(a.out, 0)

OpeningWithinBalance ==
    [][\A c \in Customer : com'[c].gross = com[c].gross /\ OpeningWithin(com[c])
                            => OpeningWithin(com'[c])]_vars
=============================================================================
