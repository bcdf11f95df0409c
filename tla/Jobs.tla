-------------------------------- MODULE Jobs --------------------------------
(***************************************************************************)
(* Jobs that are sold when they are done: the repairs plugin and the print  *)
(* and copy plugin (documents).                                            *)
(*                                                                         *)
(* Both attach to the core from outside, so what they do is several commits *)
(* one after the other: a read, a core service's transaction (a sale, a     *)
(* drawer movement, an expense), then a mark on the job.  A request may be  *)
(* cut off between two of them.  A core transaction is one step here: its   *)
(* statements are taken apart in Stock, Credit and Cash.  Tills are open.   *)
(***************************************************************************)
EXTENDS Integers, SequencesExt, FiniteSetsExt, TLC

CONSTANTS Tx,           \* requests handled at the same time
          Till,         \* cash drawers, one to a cashier
          None,         \* no till: money from outside, or none
          Component,    \* what a print job draws from stock, in order
          Request,      \* what may be asked
          Desk,         \* the requests each of Tx may serve
          MaxRequests,  \* bound: how many are served in all
          MaxJob,       \* bound: rows of repair_jobs, and of doc_job
          MaxDay,       \* bound: the calendar
          Price,        \* what the spare part may cost in the catalogue
          InitJobs, InitPrints, InitMoney,
          InitParts,    \* spare parts on hand
          InitPaper     \* each component on hand

VARIABLES jobs,    \* repair_jobs with their parts, charges and payments
          sales,   \* the sales that collected them
          prints,  \* doc_job
          payouts, \* doc_payout
          money,   \* cash in the drawers
          moved,   \* drawer movements by what their reason names
          booked,  \* expenses by what their description names
          owed,    \* the balance of the registered customer
          price, parts, paper, today,
          cut,     \* a request ended after only part of its effects
          tx, served

books == <<jobs, sales, prints, payouts, money, moved, booked, owed, parts, paper>>
vars  == <<books, price, today, cut, tx, served>>

Id       == 1 .. MaxJob
Open     == {"received", "in_progress", "ready"}
Statuses == Open \cup {"collected", "cancelled"}
RepairOps == {"new", "edit", "status", "cancel", "part", "unpart", "charge", "uncharge",
              "deposit", "collect", "rework", "refund", "repairer"}
PrintOps  == {"print", "ownuse", "reverse", "pay", "dismiss"}
Movements == {"deposit", "repairer", "reversal", "labour"}

\* n: an amount, or days of warranty.  mode: the status asked for, how a
\* collection or a labour payment is paid, or whether the customer is registered.
\* left: what has not come back of each line of parts.
Blank == -1

Job == [status : Statuses, customer : BOOLEAN, parts : Seq(Nat), charges : Seq(Nat), dep : Nat,
        days : Nat, sale : Nat, until : Nat, of : Nat, paid : Nat]
Sale == [job : Id, units : Nat, unit : Nat, total : Nat, wallet : Nat, now : Nat, account : Nat,
         change : Nat, left : Seq(0 .. 1)]
PrintRow == [kind : {"sale", "own_use"}, custom : BOOLEAN, total : Nat, reversed : BOOLEAN, payout : Nat, labour : Nat]
Payout == [job : Nat, amount : Nat, till : Till \cup {None}]

NoJob == [status |-> "cancelled", customer |-> FALSE, parts |-> <<>>, charges |-> <<>>, dep |-> 0,
          days |-> 0, sale |-> 0, until |-> 0, of |-> 0, paid |-> 0]

\* The handlers let no negative amount through (only a blank one, which collects
\* the whole balance), nor any status but those of an open job; what goes through
\* the drawer has one; a job that draws nothing from stock is not recorded as the
\* shop's own (OwnUse).  Nobody has paid for the jobs there are at first.
ASSUME JobsAssumption ==
    /\ MaxRequests \in Nat /\ MaxJob \in Nat /\ MaxDay \in Nat /\ Price \subseteq Nat
    /\ None \notin Till /\ Desk \in [Tx -> SUBSET Request] /\ IsFiniteSet(Tx)
    /\ Component \in Seq(STRING) /\ Component # <<>>
    /\ Request # {}
    /\ Request \subseteq [op : RepairOps \cup PrintOps, till : Till \cup {None}, of : Nat,
                          n : Nat \cup {Blank}, mode : STRING]
    /\ \A r \in Request :
          /\ r.n = Blank => r.op = "collect"
          /\ r.op = "status" => r.mode \in Open
          /\ r.op \in {"deposit", "repairer", "collect", "refund", "print", "reverse"} => r.till \in Till
    /\ InitMoney \in [Till -> Nat] /\ InitParts \in Nat
    /\ InitPaper \in [1 .. Len(Component) -> Nat]
    /\ InitJobs \in Seq(Job) /\ InitPrints \in Seq(PrintRow)
    /\ Len(InitJobs) <= MaxJob /\ Len(InitPrints) <= MaxJob
    /\ \A j \in DOMAIN InitJobs :
          InitJobs[j].dep = 0 /\ InitJobs[j].paid = 0 /\ InitJobs[j].status # "collected"
    /\ \A p \in DOMAIN InitPrints : ~InitPrints[p].reversed /\ InitPrints[p].payout = 0

Pcs == {"idle", "begin", "insert", "set", "note", "ring", "mark", "return", "consume", "withdraw",
        "expense", "flag", "settle", "done", "refused"}

-----------------------------------------------------------------------------
(***************************************************************************)
(* The money of a repair (calc.go).                                        *)
(***************************************************************************)
Sum(s) == FoldSeq(+, 0, s)

\* JobTotals: what the job says, at the prices its parts were added at.
JobTotal(j) == Sum(j.charges) + Sum(j.parts)

Balance(j) == Max({0, JobTotal(j) - j.dep})

\* A job in its warranty: until holds the first day that is out of it.
WarrantyUntil(days) == IF days = 0 THEN 0 ELSE today + days

CanRework(j) == j.status = "collected" /\ j.until # 0 /\ today < j.until

\* How much of the balance is paid now (collect).
PayNow(j, r) == IF r.mode = "credit" THEN 0
                ELSE IF r.n = Blank THEN Balance(j)
                ELSE Min({r.n, Balance(j)})

\* What the sale charges: parts at today's catalogue price, charges as noted.  A
\* warranty re-repair is free.
SaleTotal(j) == IF j.of # 0 THEN 0 ELSE Sum(j.charges) + price * Len(j.parts)

\* BuildCollectionSale: the deposit as a wallet tender, what is paid, the rest
\* on account.
CollectionSale(j, id, r) ==
    LET free == j.of # 0
        now  == IF free THEN 0 ELSE PayNow(j, r)
        acct == IF free THEN 0 ELSE Balance(j) - PayNow(j, r)
        dep  == IF free THEN 0 ELSE j.dep
        over == dep + now + acct - SaleTotal(j)
    IN [job |-> id, units |-> Len(j.parts), unit |-> IF free THEN 0 ELSE price,
        total |-> SaleTotal(j), wallet |-> dep, now |-> now, account |-> acct,
        change |-> IF acct > 0 THEN 0 ELSE Max({0, over}),
        left |-> [i \in DOMAIN j.parts |-> 1]]

Covered(s) == s.wallet + s.now + s.account

\* Mutant: a shortfall is let through.
AnyTender(s) == s.account > 0 => Covered(s) <= s.total

\* CheckTender: no shortfall, and nothing over when some is on account.
CheckTender(s) == /\ Covered(s) >= s.total
                  /\ s.account > 0 => Covered(s) = s.total

-----------------------------------------------------------------------------
Idle == [pc |-> "idle", req |-> CHOOSE r \in Request : TRUE, seen |-> NoJob, got |-> 0,
         lines |-> {}, part |-> FALSE]

Init == /\ jobs = InitJobs /\ sales = <<>> /\ prints = InitPrints /\ payouts = <<>>
        /\ money = InitMoney /\ owed = 0
        /\ moved = [k \in Movements |-> [i \in Id |-> 0]]
        /\ booked = [k \in Movements |-> [i \in Id |-> 0]]
        /\ parts = InitParts /\ paper = InitPaper /\ price \in Price /\ today = 1
        /\ cut = FALSE /\ tx = [t \in Tx |-> Idle] /\ served = 0

R(t)      == tx[t].req
At(t, pc) == tx[t].pc = pc
Asks(t, op) == At(t, "begin") /\ R(t).op = op
Ended(t)  == tx[t].pc \in {"idle", "refused"}
Quiet     == \A t \in Tx : Ended(t)

Begin(t, r) == /\ Ended(t) /\ served < MaxRequests
               /\ served' = served + 1
               /\ tx' = [tx EXCEPT ![t] = [Idle EXCEPT !.pc = "begin", !.req = r]]
               /\ UNCHANGED <<books, price, today, cut>>

\* A read: nothing changes but what the request has seen.
Read(t, pc, j, n) == /\ tx' = [tx EXCEPT ![t].pc = pc, ![t].seen = j, ![t].got = n]
                     /\ UNCHANGED <<books, cut>>

\* A commit, after which the request goes on at pc, or ends.
Commit(t, pc) == /\ tx' = [tx EXCEPT ![t] = IF pc = "done" THEN Idle
                                            ELSE [@ EXCEPT !.pc = pc, !.part = TRUE]]
                 /\ UNCHANGED cut

Refuse(t) == /\ tx' = [tx EXCEPT ![t] = [Idle EXCEPT !.pc = "refused"]]
             /\ cut' = (cut \/ tx[t].part)
             /\ UNCHANGED books

\* The server stops, or the browser's next call never arrives.
Cancelled(t) == /\ ~Ended(t) /\ ~At(t, "begin")
                /\ tx' = [tx EXCEPT ![t] = Idle]
                /\ cut' = (cut \/ tx[t].part)
                /\ UNCHANGED <<books, price, today, served>>

J(t) == R(t).of
P(t) == R(t).of

Booking(kind, id, n) == booked' = [booked EXCEPT ![kind][id] = @ + n]
Moving(kind, id, n)  == moved' = [moved EXCEPT ![kind][id] = @ + n]

\* PayIn and Withdraw of the cash register; Withdraw needs the cash to be there.
PayIn(t, kind, n) == /\ money' = [money EXCEPT ![R(t).till] = @ + n]
                     /\ Moving(kind, R(t).of, n)
Withdraw(t, kind, n) == /\ money' = [money EXCEPT ![R(t).till] = @ - n]
                        /\ Moving(kind, R(t).of, n)
Holds(t, n) == money[R(t).till] >= n

cash    == <<money, moved>>
printed == <<prints, payouts, paper>>
outside == <<price, today, served>>

-----------------------------------------------------------------------------
(***************************************************************************)
(* Repairs: the job card.  None of these looks at the job's status.        *)
(***************************************************************************)
\* JobInput, from the form.
Input(r) == [NoJob EXCEPT !.status = "received", !.customer = (r.mode = "customer"), !.days = r.n]

InsertJob(t, j) == /\ Len(jobs) < MaxJob
                   /\ jobs' = Append(jobs, j)
                   /\ Commit(t, "done")
                   /\ UNCHANGED <<sales, printed, cash, booked, owed, parts, outside>>

Create(t) == Asks(t, "new") /\ InsertJob(t, Input(R(t)))

\* One UPDATE of one row of the job, or of a row that belongs to it.
Note(t, j) == /\ jobs' = [jobs EXCEPT ![J(t)] = j]
              /\ Commit(t, "done")
              /\ UNCHANGED <<sales, printed, cash, booked, owed, parts, outside>>

UpdateJobFields(t) ==
    /\ Asks(t, "edit")
    /\ Note(t, [jobs[J(t)] EXCEPT !.customer = (R(t).mode = "customer"), !.days = R(t).n])

SetStatus(t) == Asks(t, "status") /\ Note(t, [jobs[J(t)] EXCEPT !.status = R(t).mode])

\* AddPart seeds the charge from the catalogue price.
AddPart(t) == Asks(t, "part") /\ Note(t, [jobs[J(t)] EXCEPT !.parts = Append(@, price)])

AddCharge(t) == Asks(t, "charge") /\ Note(t, [jobs[J(t)] EXCEPT !.charges = Append(@, R(t).n)])

\* A row that is gone already is no error.
Removed(s) == IF s = <<>> THEN {s} ELSE {RemoveAt(s, i) : i \in DOMAIN s}

RemovePart(t) ==
    /\ Asks(t, "unpart")
    /\ \E s \in Removed(jobs[J(t)].parts) : Note(t, [jobs[J(t)] EXCEPT !.parts = s])

RemoveCharge(t) ==
    /\ Asks(t, "uncharge")
    /\ \E s \in Removed(jobs[J(t)].charges) : Note(t, [jobs[J(t)] EXCEPT !.charges = s])

\* Cancel reads the status, then writes it.  A deposit stays where it is.
Cancel(t) ==
    \/ /\ Asks(t, "cancel")
       /\ IF jobs[J(t)].status = "collected" THEN Refuse(t) ELSE Read(t, "set", NoJob, 0)
       /\ UNCHANGED outside
    \/ /\ At(t, "set")
       /\ Note(t, [jobs[J(t)] EXCEPT !.status = "cancelled"])

-----------------------------------------------------------------------------
(***************************************************************************)
(* Repairs: deposits and the outside repairer.                             *)
(***************************************************************************)
\* Mutant: the deposit is noted on the job before the drawer has it.
NoteFirst(t) ==
    \/ /\ Asks(t, "deposit")
       /\ jobs' = [jobs EXCEPT ![J(t)].dep = @ + R(t).n]
       /\ Commit(t, "note")
       /\ UNCHANGED <<sales, printed, cash, booked, owed, parts, outside>>
    \/ /\ At(t, "note") /\ R(t).op = "deposit"
       /\ PayIn(t, "deposit", R(t).n)
       /\ Commit(t, "done")
       /\ UNCHANGED <<jobs, sales, printed, booked, owed, parts, outside>>

\* TakeDeposit: PayIn, then AddPayment.
TakeDeposit(t) ==
    \/ /\ Asks(t, "deposit")
       /\ PayIn(t, "deposit", R(t).n)
       /\ Commit(t, "note")
       /\ UNCHANGED <<jobs, sales, printed, booked, owed, parts, outside>>
    \/ /\ At(t, "note") /\ R(t).op = "deposit"
       /\ Note(t, [jobs[J(t)] EXCEPT !.dep = @ + R(t).n])

\* PayRepairer: the expense, the move and the note in one transaction.
PayRepairer(t) ==
    /\ Asks(t, "repairer")
    /\ IF ~Holds(t, R(t).n) THEN Refuse(t)
       ELSE /\ Booking("repairer", J(t), R(t).n)
            /\ Withdraw(t, "repairer", R(t).n)
            /\ jobs' = [jobs EXCEPT ![J(t)].paid = @ + R(t).n]
            /\ Commit(t, "done")
            /\ UNCHANGED <<sales, printed, owed, parts>>
    /\ UNCHANGED outside

-----------------------------------------------------------------------------
(***************************************************************************)
(* Repairs: collection, and what may follow it.                            *)
(***************************************************************************)
\* collect's checks, on the job it has read.
MayCollect(j, r) ==
    /\ j.status # "collected"
    /\ j.parts # <<>> \/ j.charges # <<>>
    /\ j.of = 0 /\ Balance(j) > PayNow(j, r) => j.customer

Collect(t) ==
    /\ Asks(t, "collect")
    /\ LET j == jobs[J(t)] IN IF MayCollect(j, R(t)) THEN Read(t, "ring", j, 0) ELSE Refuse(t)
    /\ UNCHANGED outside

\* Sales.Create, a transaction of its own, for the job as it was read.
Ring(t) ==
    /\ At(t, "ring")
    /\ LET s == CollectionSale(tx[t].seen, J(t), R(t)) IN
       IF s.units > parts \/ ~CheckTender(s) THEN Refuse(t)
       ELSE /\ sales' = Append(sales, s)
            /\ parts' = parts - s.units
            /\ owed' = owed + s.account
            /\ money' = [money EXCEPT ![R(t).till] =
                            @ + (IF R(t).mode = "cash" THEN s.now ELSE 0) - s.change]
            /\ tx' = [tx EXCEPT ![t].pc = "mark", ![t].part = TRUE, ![t].got = Len(sales')]
            /\ UNCHANGED <<jobs, printed, moved, booked, cut>>
    /\ UNCHANGED outside

\* MarkCollected; a re-repair starts no warranty.
MarkCollected(t) ==
    /\ At(t, "mark")
    /\ LET days == IF tx[t].seen.of # 0 THEN 0 ELSE tx[t].seen.days IN
       Note(t, [jobs[J(t)] EXCEPT !.status = "collected", !.sale = tx[t].got,
                                  !.until = WarrantyUntil(days)])

\* startRework; a job collected without a warranty passes.
Rework(t) ==
    \/ /\ Asks(t, "rework")
       /\ LET j == jobs[J(t)] IN
          IF j.status = "collected" /\ (j.until = 0 \/ today < j.until)
            THEN Read(t, "insert", [NoJob EXCEPT !.customer = j.customer], 0) ELSE Refuse(t)
       /\ UNCHANGED outside
    \/ /\ At(t, "insert")
       /\ InsertJob(t, [tx[t].seen EXCEPT !.status = "received", !.of = J(t)])

Returnable(s) == {i \in DOMAIN s.left : s.left[i] > 0}

MayRefund(j) == CanRework(j) /\ Returnable(sales[j.sale]) # {}

\* WarrantyRefund reads the job and the lines of its sale; the cashier picks some of
\* the parts that have not come back.
ReadRefund(t) ==
    /\ Asks(t, "refund")
    /\ LET j == jobs[J(t)] IN
       \/ /\ MayRefund(j)
          /\ \E lines \in SUBSET Returnable(sales[j.sale]) \ {{}} :
               tx' = [tx EXCEPT ![t].pc = "return", ![t].seen = j, ![t].lines = lines]
          /\ UNCHANGED <<books, cut>>
       \/ ~MayRefund(j) /\ Refuse(t)
    /\ UNCHANGED outside

\* AddReturnedQty's guard: the lines are looked at as they are now.
StillOut(t) == tx[t].lines \subseteq Returnable(sales[tx[t].seen.sale])

\* PartialReturnTx and the refund from the till, in one transaction.  What goes off the
\* customer's account is up to all the sale left unpaid, whatever earlier refunds of
\* it took off.  The parts are written off.
ReturnParts(t) ==
    /\ At(t, "return")
    /\ LET id     == tx[t].seen.sale
           value  == sales[id].unit * Cardinality(tx[t].lines)
           credit == Min({value, sales[id].account})
       IN IF ~StillOut(t) \/ ~Holds(t, value - credit) THEN Refuse(t)
          ELSE /\ sales' = [sales EXCEPT ![id].left =
                              [i \in DOMAIN @ |-> IF i \in tx[t].lines THEN @[i] - 1 ELSE @[i]]]
               /\ owed' = owed - credit
               /\ money' = [money EXCEPT ![R(t).till] = @ - (value - credit)]
               /\ Commit(t, "done")
               /\ UNCHANGED <<jobs, printed, moved, booked, parts>>
    /\ UNCHANGED outside

-----------------------------------------------------------------------------
(***************************************************************************)
(* Print and copy: selling a job, and using one in the shop.               *)
(***************************************************************************)
PrintJob(kind, n) == [kind |-> kind, custom |-> kind = "sale", total |-> n, reversed |-> FALSE,
                      payout |-> 0, labour |-> 0]

InsertPrint(t, p) == /\ At(t, "note") /\ R(t).op = IF p.kind = "sale" THEN "print" ELSE "ownuse"
                     /\ Len(prints) < MaxJob
                     /\ prints' = Append(prints, p)
                     /\ Commit(t, "done")
                     /\ UNCHANGED <<jobs, sales, payouts, paper, cash, booked, owed, parts, outside>>

\* The sale at the till; then the browser posts the job (Record).
SellPrint(t) ==
    /\ Asks(t, "print")
    /\ \A i \in DOMAIN Component : paper[i] > 0
    /\ paper' = [i \in DOMAIN Component |-> paper[i] - 1]
    /\ money' = [money EXCEPT ![R(t).till] = @ + R(t).n]
    /\ Commit(t, "note")
    /\ UNCHANGED <<jobs, sales, prints, payouts, moved, booked, owed, parts, outside>>

Record(t) == InsertPrint(t, PrintJob("sale", R(t).n))

\* OwnUse: each component is taken out of stock by itself, then the job is noted.
OwnUse(t) ==
    \/ /\ Asks(t, "ownuse")
       /\ Read(t, "consume", NoJob, 1)
       /\ UNCHANGED outside
    \/ /\ At(t, "consume")
       /\ LET i == tx[t].got IN
          IF paper[i] = 0 THEN Refuse(t)
          ELSE /\ paper' = [paper EXCEPT ![i] = @ - 1]
               /\ tx' = [tx EXCEPT ![t].pc = IF i = Len(Component) THEN "note" ELSE "consume",
                                   ![t].got = i + 1, ![t].part = TRUE]
               /\ UNCHANGED <<jobs, sales, prints, payouts, cash, booked, owed, parts, cut>>
       /\ UNCHANGED outside
    \/ InsertPrint(t, PrintJob("own_use", 0))

-----------------------------------------------------------------------------
(***************************************************************************)
(* Print and copy: a mistaken job, and the labour of a custom one.         *)
(***************************************************************************)
\* ReverseJob's and UnpaidJob's conditions, on the job as read.
Reversible(p) == p.kind = "sale" /\ ~p.reversed
Unpaid(p)     == p.custom /\ p.payout = 0

\* ReverseJob pays what the job cost; PayJob, what the office entered.
Kind(t)   == IF R(t).op = "reverse" THEN "reversal" ELSE "labour"
Amount(t) == IF R(t).op = "reverse" THEN prints[P(t)].total ELSE R(t).n
Marking(t) == IF R(t).op = "reverse" THEN "flag" ELSE "settle"

Check(t) ==
    /\ \E op \in {"reverse", "pay", "dismiss"} : Asks(t, op)
    /\ LET p  == prints[P(t)]
           ok == IF R(t).op = "reverse" THEN Reversible(p) ELSE Unpaid(p)
           pc == CASE R(t).op = "dismiss" -> "settle"
                   [] R(t).op = "pay" /\ R(t).till = None -> "expense"
                   [] OTHER -> "withdraw"
       IN IF ok THEN Read(t, pc, NoJob, 0) ELSE Refuse(t)
    /\ UNCHANGED outside

TakeOut(t) ==
    /\ At(t, "withdraw")
    /\ IF ~Holds(t, Amount(t)) THEN Refuse(t)
       ELSE /\ Withdraw(t, Kind(t), Amount(t))
            /\ Commit(t, "expense")
            /\ UNCHANGED <<jobs, sales, printed, booked, owed, parts>>
    /\ UNCHANGED outside

\* A reversal stops if the expense fails; a labour payment goes on without it.
BookExpense(t) ==
    /\ At(t, "expense")
    /\ \/ /\ Booking(Kind(t), P(t), Amount(t))
          /\ Commit(t, Marking(t))
          /\ UNCHANGED <<jobs, sales, printed, cash, owed, parts>>
       \/ IF R(t).op = "reverse" THEN Refuse(t)
          ELSE Read(t, "settle", NoJob, 0)
    /\ UNCHANGED outside

\* MarkJobReversedTx.
Flag(t) ==
    /\ At(t, "flag")
    /\ IF prints[P(t)].reversed THEN Refuse(t)
       ELSE /\ prints' = [prints EXCEPT ![P(t)].reversed = TRUE]
            /\ Commit(t, "done")
            /\ UNCHANGED <<jobs, sales, payouts, paper, cash, booked, owed, parts>>
    /\ UNCHANGED outside

Labour(t) == IF R(t).op = "dismiss" THEN 0 ELSE R(t).n

\* Mutant: the UPDATE does not look at labour_payout_id.
AnySettle(t) == TRUE

\* SettleJob's guard; without it the payout row is rolled back too.
Unsettled(t) == prints[P(t)].payout = 0

SettleJob(t) ==
    /\ At(t, "settle")
    /\ IF ~Unsettled(t) THEN Refuse(t)
       ELSE /\ payouts' = Append(payouts, [job |-> P(t), amount |-> Labour(t), till |-> R(t).till])
            /\ prints' = [prints EXCEPT ![P(t)].payout = Len(payouts'), ![P(t)].labour = Labour(t)]
            /\ Commit(t, "done")
            /\ UNCHANGED <<jobs, sales, paper, cash, booked, owed, parts>>
    /\ UNCHANGED outside

-----------------------------------------------------------------------------
(***************************************************************************)
(* The catalogue, the calendar.                                            *)
(***************************************************************************)
Reprice == \E n \in Price \ {price} : price' = n /\ UNCHANGED <<books, today, cut, tx, served>>

NextDay == today < MaxDay /\ today' = today + 1 /\ UNCHANGED <<books, price, cut, tx, served>>

JobExists(t, r) ==
    CASE r.op \in {"new", "print", "ownuse"} -> TRUE
      [] r.op \in RepairOps -> r.of \in DOMAIN jobs
      [] OTHER -> r.of \in DOMAIN prints

Step(t) == \/ \E r \in Desk[t] : JobExists(t, r) /\ Begin(t, r)
           \/ Cancelled(t)
           \/ Create(t) \/ UpdateJobFields(t) \/ SetStatus(t) \/ Cancel(t)
           \/ AddPart(t) \/ AddCharge(t) \/ RemovePart(t) \/ RemoveCharge(t)
           \/ TakeDeposit(t) \/ PayRepairer(t)
           \/ Collect(t) \/ Ring(t) \/ MarkCollected(t)
           \/ Rework(t) \/ ReadRefund(t) \/ ReturnParts(t)
           \/ SellPrint(t) \/ Record(t) \/ OwnUse(t)
           \/ Check(t) \/ TakeOut(t) \/ BookExpense(t) \/ Flag(t) \/ SettleJob(t)

Next == (\E t \in Tx : Step(t)) \/ Reprice \/ NextDay

Spec == Init /\ [][Next]_vars

-----------------------------------------------------------------------------
(***************************************************************************)
(* Properties.                                                             *)
(***************************************************************************)
\* The variables keep their types; in particular no line of parts comes back twice,
\* whoever refunds it (PartialReturnTx).  A customer's balance has no lower bound.
TypeOK ==
    /\ jobs \in Seq(Job) /\ sales \in Seq(Sale) /\ prints \in Seq(PrintRow)
    /\ payouts \in Seq(Payout) /\ money \in [Till -> Int] /\ owed \in Int
    /\ moved \in [Movements -> [Id -> Nat]] /\ booked \in [Movements -> [Id -> Nat]]
    /\ parts \in Nat /\ paper \in [DOMAIN Component -> Nat]
    /\ \A t \in Tx : tx[t].pc \in Pcs /\ tx[t].req \in Request /\ tx[t].seen \in Job

\* No mark without its money, wherever a request is cut off: a deposit on a job
\* was paid in, what a repairer is noted as paid left the till and was booked, a
\* reversed print job was paid back and its revenue contraed, labour paid from a
\* till was taken from it, a collected job has its sale.
MarksBacked ==
    /\ \A j \in DOMAIN jobs :
          /\ jobs[j].dep <= moved["deposit"][j]
          /\ jobs[j].paid = moved["repairer"][j] /\ jobs[j].paid = booked["repairer"][j]
          /\ jobs[j].status = "collected" => sales[jobs[j].sale].job = j
    /\ \A p \in DOMAIN prints :
          prints[p].reversed => /\ moved["reversal"][p] >= prints[p].total
                                /\ booked["reversal"][p] >= prints[p].total
    /\ \A i \in DOMAIN payouts :
          payouts[i].till # None => moved["labour"][payouts[i].job] >= payouts[i].amount

\* A print job's labour is settled once, by the payout it names, however many
\* payments and dismissals of it run (SettleJob).
SettledOnce == \A p \in DOMAIN prints :
    LET S == {i \in DOMAIN payouts : payouts[i].job = p} IN
    IF prints[p].payout = 0 THEN S = {}
    ELSE S = {prints[p].payout} /\ payouts[prints[p].payout].amount = prints[p].labour

\* The sale that collects a repair is paid for in full and never spends more
\* deposit than was paid in, even when the catalogue price of a part has changed
\* since the job was read: then it is refused (CheckTender).
CollectionCovered == \A i \in DOMAIN sales : LET s == sales[i] IN
    /\ Covered(s) = s.total + s.change
    /\ s.wallet <= moved["deposit"][s.job]

\* "this repair is already collected" (repairs.go): a repair is sold once.
SoldOnce == \A j \in DOMAIN jobs : Cardinality({i \in DOMAIN sales : sales[i].job = j}) <= 1
=============================================================================
