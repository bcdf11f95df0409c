------------------------------- MODULE Stock --------------------------------
(***************************************************************************)
(* On-hand quantities, lots and the movement trail (internal/features/stock)*)
(* under every operation that changes them: sales, write-offs, count        *)
(* corrections, deliveries, returns, conversions, supplier replacements.    *)
(*                                                                         *)
(* Two tables hold the same fact.  stock.quantity is the row the guarded    *)
(* UPDATE protects against overselling; the lots (stock_batches) say which  *)
(* units those are.  Each operation writes both, statement by statement, in *)
(* one READ COMMITTED transaction, and the movement trail beside them.      *)
(*                                                                         *)
(* A request is a sequence of lines handled in one transaction:             *)
(*   sale    a sold line, or a consumable of a service line: p, q, the lot  *)
(*           the cashier picked (or NoLot), allow_oversell                  *)
(*   consume damage, own use, staff, purchase return, warranty replacement, *)
(*           the source of a conversion, the write-off of a damaged return  *)
(*   adjust  a count correction; q is the target                            *)
(*   receive a delivery, opening stock, the product of a conversion         *)
(*   recover a supplier's replacement (the same rows in the other order)    *)
(*   return  a returned line; lot is the one it was sold from, if recorded  *)
(***************************************************************************)
EXTENDS Integers, Sequences, FiniteSetsExt

CONSTANTS Tx, NoTx,     \* database transactions (see RowLocks)
          Product,      \* products, each naming its stock row
          MaxLot,       \* bound: lots are numbered 1..MaxLot as they are made
          NoLot,        \* batch id 0: no lot named
          Request,      \* what clients may ask for
          Desk,         \* the requests each of Tx may serve
          MaxRequests,  \* bound: how many requests are served in all
          InitLots,     \* the lots that exist at the start are 1..InitLots
          InitOwner,    \* the product of each
          InitQty,      \* what is left in each
          InitStock,    \* the stock rows at the start
          Expiry        \* expiry date of each lot; "no expiry" is the largest

VARIABLES com, cur, lock,   \* the rows: committed, working, locked by
          owner,            \* stock_batches.product_id
          nextLot,          \* the sequence behind stock_batches.id
          trail,            \* per product, the sum of its stock_movements
          tx,               \* the transactions in progress
          served            \* requests begun so far

rowVars == <<com, cur, lock>>
vars    == <<com, cur, lock, owner, nextLot, trail, tx, served>>

Lot == 1 .. MaxLot
Row == Product \cup Lot

DB == INSTANCE RowLocks WITH Value <- Int

Line == [kind : {"sale", "consume", "adjust", "receive", "recover", "return"},
         p : Product, q : Nat, lot : Lot \cup {NoLot}, over : BOOLEAN]

\* The statement a transaction is about to execute.
Statement == {"pick", "guard", "short", "found", "foundLot", "reguard", "take",
              "select", "fefo", "read", "set", "increment", "insert", "restock",
              "record", "commit", "idle"}

ASSUME StockAssumption ==
    /\ NoTx \notin Tx
    /\ MaxLot \in Nat /\ InitLots \in 0 .. MaxLot /\ MaxRequests \in Nat
    /\ NoLot \notin Lot
    /\ Product \cap Lot = {}
    /\ Request \subseteq Seq(Line)
    /\ \A r \in Request : r # <<>>
    /\ Desk \in [Tx -> SUBSET Request]
    /\ InitOwner \in [Lot -> Product]
    /\ InitQty \in [Lot -> Nat]
    /\ InitStock \in [Product -> Nat]
    /\ Expiry \in [Lot -> Nat]

\* The shop begins with lots that tell its stock, and a return names a lot it knows.
ASSUME StartAssumption ==
    /\ \A p \in Product : InitStock[p] = SumFunctionOnSet(InitQty, {l \in Lot : InitOwner[l] = p})
    /\ \A l \in Lot : l > InitLots => InitQty[l] = 0
    /\ \A r \in Request : \A i \in DOMAIN r :
          r[i].kind = "return" /\ r[i].lot # NoLot => r[i].lot <= InitLots /\ InitOwner[r[i].lot] = r[i].p

-----------------------------------------------------------------------------
(***************************************************************************)
(* A transaction: its next statement, its request and the line it is at,    *)
(* the units this line has still to take (or put back), the signed count    *)
(* correction, the lots its SELECT .. FOR UPDATE has still to visit, and    *)
(* the movements it has inserted.                                          *)
(***************************************************************************)
NoMoves == [p \in Product |-> 0]

Idle == [pc |-> "idle", req |-> <<>>, line |-> 1, left |-> 0, delta |-> 0,
         queue |-> {}, moves |-> NoMoves]

At(t, s) == tx[t].pc = s
L(t)     == tx[t].req[tx[t].line]

\* Where a line starts, and where it goes once its stock row is taken from.
Start(l) == CASE l.kind = "sale"    -> IF l.lot = NoLot THEN "guard" ELSE "pick"
              [] l.kind = "consume" -> "guard"
              [] l.kind = "adjust"  -> "read"
              [] l.kind = "recover" -> "insert"
              [] l.kind \in {"receive", "return"} -> "increment"

Deplete(l) == IF l.lot = NoLot THEN "select" ELSE IF l.kind = "sale" THEN "take" ELSE "pick"

\* Mutant: a return never reaches the lots.
ReturnSkipsLots(l) == IF l.kind = "receive" THEN "insert" ELSE "record"

AfterIncrement(l) == CASE l.kind = "recover" -> "record"
                       [] l.kind = "return"  -> IF l.lot = NoLot THEN "insert" ELSE "restock"
                       [] l.kind \notin {"recover", "return"} -> "insert"

\* Mutant: only removals are recorded.
RemovalsMoved(l, d) == IF l.kind \in {"sale", "consume"} THEN -l.q ELSE 0

\* The movement that a finished line inserts.
Moved(l, d) == CASE l.kind \in {"sale", "consume"}               -> -l.q
                 [] l.kind = "adjust"                            -> d
                 [] l.kind \in {"receive", "recover", "return"}  -> l.q

\* ORDER BY expiry_date NULLS LAST, id
Before(a, b) == Expiry[a] < Expiry[b] \/ (Expiry[a] = Expiry[b] /\ a < b)

\* Mutant: ORDER BY expiry_date DESC.
Latest(S) == {l \in S : \A k \in S \ {l} : Before(k, l)}

Earliest(S) == {l \in S : \A k \in S \ {l} : Before(l, k)}

\* Mutant: the lots are read outside the transaction.
CommittedLots(t, p) == {l \in Lot : owner[l] = p /\ com[l] > 0}

LiveLots(t, p) == {l \in Lot : owner[l] = p /\ DB!Visible(t, l) > 0}

-----------------------------------------------------------------------------
Init == /\ DB!DBInit([r \in Row |-> IF r \in Product THEN InitStock[r] ELSE InitQty[r]])
        /\ owner = InitOwner
        /\ nextLot = InitLots + 1
        /\ trail = NoMoves
        /\ tx = [t \in Tx |-> Idle]
        /\ served = 0

Begin(t, r) ==
    /\ At(t, "idle") /\ r \in Desk[t]
    /\ served < MaxRequests
    /\ served' = served + 1
    /\ tx' = [tx EXCEPT ![t] = [Idle EXCEPT !.pc = Start(r[1]), !.req = r, !.left = r[1].q]]
    /\ UNCHANGED <<rowVars, owner, nextLot, trail>>

\* Mutant: an error is swallowed and the emptied transaction commits.
FailCommits(t) == /\ DB!Rollback(t)
                  /\ tx' = [tx EXCEPT ![t] = [Idle EXCEPT !.pc = "commit"]]
                  /\ UNCHANGED <<owner, nextLot, trail, served>>

\* WithTx: an error, a panic or a lost client rolls everything back.
Fail(t) == /\ DB!Rollback(t)
           /\ tx' = [tx EXCEPT ![t] = Idle]
           /\ UNCHANGED <<owner, nextLot, trail, served>>

Goto(t, s)   == tx' = [tx EXCEPT ![t].pc = s]
NoNewLot     == UNCHANGED <<owner, nextLot, trail, served>>

\* INSERT INTO stock_batches; the lot is nobody else's to see until commit.
NewLot(t, p, n) == /\ nextLot \in Lot
                   /\ DB!Write(t, nextLot, n)
                   /\ owner' = [owner EXCEPT ![nextLot] = p]
                   /\ nextLot' = nextLot + 1
                   /\ UNCHANGED <<trail, served>>

-----------------------------------------------------------------------------
(***************************************************************************)
(* Taking stock out.                                                       *)
(***************************************************************************)
\* LockBatch: the named lot is locked, and refused if it cannot cover the line.
Pick(t) ==
    /\ At(t, "pick")
    /\ LET l == L(t) IN
       IF cur[l.lot] < tx[t].left \/ owner[l.lot] # l.p
         THEN DB!Available(t, l.lot) /\ Fail(t)
         ELSE /\ DB!LockRow(t, l.lot)
              /\ Goto(t, IF l.kind = "sale" THEN "guard" ELSE "take")
              /\ NoNewLot

\* Mutant: the UPDATE lost its WHERE quantity >= $1.
GuardUnchecked(t) == /\ At(t, "guard")
                     /\ DB!Write(t, L(t).p, cur[L(t).p] - tx[t].left)
                     /\ Goto(t, Deplete(L(t)))
                     /\ NoNewLot

\* DecrementGuarded: UPDATE stock .. WHERE quantity >= $1.
Guard(t) ==
    /\ At(t, "guard")
    /\ LET l == L(t) IN
       /\ DB!Visible(t, l.p) >= tx[t].left
       /\ DB!Write(t, l.p, cur[l.p] - tx[t].left)
       /\ Goto(t, Deplete(l))
    /\ NoNewLot

\* The UPDATE matched no row.  A sale that may oversell corrects the count; it
\* may or may not hold the row, depending on whether the UPDATE waited for it.
GuardFails(t) ==
    /\ At(t, "guard")
    /\ LET l == L(t) IN
       /\ DB!Visible(t, l.p) < tx[t].left
       /\ IF l.kind = "sale" /\ l.over
            THEN /\ DB!LockRow(t, l.p) \/ UNCHANGED rowVars
                 /\ Goto(t, "short")
                 /\ NoNewLot
            ELSE Fail(t)

\* GetQuantity, a plain SELECT, decides how much was "found at the till".
Short(t) ==
    /\ At(t, "short")
    /\ tx' = [tx EXCEPT ![t].pc = "found",
                        ![t].delta = tx[t].left - DB!Visible(t, L(t).p)]
    /\ UNCHANGED rowVars /\ NoNewLot

\* FoundAtTill, its Increment.
Found(t) ==
    /\ At(t, "found")
    /\ DB!Write(t, L(t).p, cur[L(t).p] + tx[t].delta)
    /\ Goto(t, "foundLot")
    /\ NoNewLot

\* FoundAtTill, its lot (topped up or opened) and its movement.  The lots'
\* CHECK (qty_remaining >= 0) refuses a correction that went the other way.
FoundLot(t) ==
    /\ At(t, "foundLot")
    /\ LET l == L(t)
           n == IF l.lot = NoLot THEN tx[t].delta ELSE cur[l.lot] + tx[t].delta
           m == [tx[t].moves EXCEPT ![l.p] = @ + tx[t].delta]
       IN IF n < 0 THEN Fail(t)
          ELSE /\ IF l.lot = NoLot THEN NewLot(t, l.p, n)
                                   ELSE DB!Write(t, l.lot, n) /\ NoNewLot
               /\ tx' = [tx EXCEPT ![t].pc = "reguard",
                                   ![t].moves = m]

\* The second DecrementGuarded, "which must now succeed".
Reguard(t) ==
    /\ At(t, "reguard")
    /\ LET l == L(t) IN
       IF cur[l.p] < tx[t].left THEN Fail(t)
       ELSE /\ DB!Write(t, l.p, cur[l.p] - tx[t].left)
            /\ Goto(t, Deplete(l))
            /\ NoNewLot

\* DepleteBatch: the named lot alone.
Take(t) ==
    /\ At(t, "take")
    /\ LET l == L(t) IN
       IF cur[l.lot] < tx[t].left THEN Fail(t)
       ELSE /\ DB!Write(t, l.lot, cur[l.lot] - tx[t].left)
            /\ tx' = [tx EXCEPT ![t].pc = "record", ![t].left = 0]
            /\ NoNewLot

\* DepleteFEFO, its SELECT .. FOR UPDATE: the live lots of this snapshot.
Select(t) ==
    /\ At(t, "select")
    /\ LET lots == LiveLots(t, L(t).p) IN
       tx' = [tx EXCEPT ![t].queue = lots,
                        ![t].pc = IF lots = {} THEN "record" ELSE "fefo"]
    /\ UNCHANGED rowVars /\ NoNewLot

\* .. which locks them one by one in FEFO order, newest version first seen then;
\* what the line still needs is taken from each.  A shortfall is let pass.
Fefo(t) ==
    /\ At(t, "fefo")
    /\ \E lot \in Earliest(tx[t].queue) :
         LET some == IF cur[lot] < tx[t].left THEN cur[lot] ELSE tx[t].left IN
         /\ DB!Write(t, lot, cur[lot] - some)
         /\ tx' = [tx EXCEPT ![t].queue = @ \ {lot},
                             ![t].left  = @ - some,
                             ![t].pc    = IF tx[t].queue = {lot} THEN "record" ELSE "fefo"]
    /\ NoNewLot

-----------------------------------------------------------------------------
(***************************************************************************)
(* Correcting a count (Adjust): a plain read, then an absolute write.       *)
(***************************************************************************)
Read(t) ==
    /\ At(t, "read")
    /\ LET d == L(t).q - DB!Visible(t, L(t).p) IN
       tx' = [tx EXCEPT ![t].delta = d,
                        ![t].pc = IF d = 0 THEN "commit" ELSE "set"]
    /\ UNCHANGED rowVars /\ NoNewLot

Set(t) ==
    /\ At(t, "set")
    /\ LET l == L(t)
           d == tx[t].delta
       IN /\ DB!Write(t, l.p, l.q)
          /\ tx' = [tx EXCEPT ![t].left = IF d > 0 THEN d ELSE -d,
                              ![t].pc   = IF d > 0 THEN "insert" ELSE Deplete(l)]
    /\ NoNewLot

-----------------------------------------------------------------------------
(***************************************************************************)
(* Putting stock in.                                                       *)
(***************************************************************************)
Increment(t) ==
    /\ At(t, "increment")
    /\ DB!Write(t, L(t).p, cur[L(t).p] + L(t).q)
    /\ Goto(t, AfterIncrement(L(t)))
    /\ NoNewLot

Insert(t) ==
    /\ At(t, "insert")
    /\ NewLot(t, L(t).p, tx[t].left)
    /\ Goto(t, IF L(t).kind = "recover" THEN "increment" ELSE "record")

\* RestockLot: back into the lot it was sold from.
Restock(t) ==
    /\ At(t, "restock")
    /\ DB!Write(t, L(t).lot, cur[L(t).lot] + L(t).q)
    /\ Goto(t, "record")
    /\ NoNewLot

-----------------------------------------------------------------------------
(***************************************************************************)
(* InsertMovement, the next line, and the end of the transaction.           *)
(***************************************************************************)
Record(t) ==
    /\ At(t, "record")
    /\ LET l     == L(t)
           moves == [tx[t].moves EXCEPT ![l.p] = @ + Moved(l, tx[t].delta)]
           n     == tx[t].line + 1
       IN tx' = [tx EXCEPT ![t] =
                   IF n > Len(tx[t].req)
                     THEN [@ EXCEPT !.moves = moves, !.pc = "commit"]
                     ELSE [Idle EXCEPT !.moves = moves, !.req = tx[t].req, !.line = n,
                                       !.left = tx[t].req[n].q,
                                       !.pc = Start(tx[t].req[n])]]
    /\ UNCHANGED rowVars /\ NoNewLot

Commit(t) ==
    /\ At(t, "commit")
    /\ DB!Commit(t)
    /\ trail' = [p \in Product |-> trail[p] + tx[t].moves[p]]
    /\ tx' = [tx EXCEPT ![t] = Idle]
    /\ UNCHANGED <<owner, nextLot, served>>

\* The request is cancelled, panics, or loses its connection.
Cancel(t) == ~At(t, "idle") /\ Fail(t)

\* The rows the next statement has to lock.
Want(t) ==
    CASE At(t, "pick") \/ At(t, "restock")               -> {L(t).lot}
      [] At(t, "found") \/ At(t, "set") \/ At(t, "increment") -> {L(t).p}
      [] At(t, "guard")                                  ->
           IF DB!Visible(t, L(t).p) >= tx[t].left THEN {L(t).p} ELSE {}
      [] At(t, "fefo")                                   -> Earliest(tx[t].queue)
      [] OTHER                                           -> {}

\* PostgreSQL breaks a cycle of waiting transactions; the program never retries.
DeadlockAbort(t) == DB!OnCycle(t, [u \in Tx |-> Want(u)]) /\ Fail(t)

-----------------------------------------------------------------------------
Step(t) == \/ Pick(t) \/ Guard(t) \/ GuardFails(t) \/ Short(t) \/ Found(t)
           \/ FoundLot(t) \/ Reguard(t) \/ Take(t) \/ Select(t) \/ Fefo(t)
           \/ Read(t) \/ Set(t) \/ Increment(t) \/ Insert(t) \/ Restock(t)
           \/ Record(t) \/ Commit(t)

\* The shop closes: every request the bound allows has been answered.
Closed == /\ served = MaxRequests
          /\ \A t \in Tx : At(t, "idle")
          /\ UNCHANGED vars

Next == \/ \E t \in Tx : \/ \E r \in Request : Begin(t, r)
                         \/ Step(t)
                         \/ Cancel(t)
                         \/ DeadlockAbort(t)
        \/ Closed

Spec == Init /\ [][Next]_vars

\* The server runs each transaction to its end and its deadlock detector runs.
Fairness == \A t \in Tx : WF_vars(Step(t)) /\ WF_vars(DeadlockAbort(t))

FairSpec == Spec /\ Fairness

-----------------------------------------------------------------------------
(***************************************************************************)
(* Properties.                                                             *)
(***************************************************************************)
TxState == [pc : Statement, req : {<<>>} \cup Request, line : Nat \ {0}, left : Int,
            delta : Int, queue : SUBSET Lot, moves : [Product -> Int]]

TxTypeOK == /\ tx \in [Tx -> TxState]
            /\ \A t \in Tx : ~At(t, "idle") => /\ tx[t].req \in Request
                                               /\ tx[t].line \in 1 .. Len(tx[t].req)

\* Types of the rows and of the transactions.
TypeOK == /\ DB!DBTypeOK
          /\ owner \in [Lot -> Product]
          /\ nextLot \in 1 .. MaxLot + 1
          /\ trail \in [Product -> Int]
          /\ TxTypeOK
          /\ served \in 0 .. MaxRequests

\* No oversell: whatever runs concurrently, no committed on-hand quantity and
\* no lot is ever below zero (the guard of DecrementGuarded, the lots' CHECK).
NeverNegative == \A r \in Row : com[r] >= 0

\* On-hand quantity is the sum of the lots: the claim of batches.go's Batch.
OnHand(p) == SumFunctionOnSet(com, {l \in Lot : owner[l] = p})
MirrorOK  == \A p \in Product : com[p] = OnHand(p)

\* The audit trail explains every unit: committed stock is what the shop began
\* with plus every committed movement.
TrailExplainsStock == \A p \in Product : com[p] = InitStock[p] + trail[p]

\* DepleteFEFO "assumes the caller already passed the guard, so the batches
\* should always cover qty": no removal ever finishes short of lots.  And the
\* check under a picked lot's lock implies the guard: a sale that picked its lot
\* never needs the count corrected.
GuardCoversLots ==
    \A t \in Tx : /\ At(t, "record") /\ L(t).kind \in {"sale", "consume"} => tx[t].left = 0
                  /\ At(t, "short") => L(t).lot = NoLot

\* The lots and the stock row tell the same units, at rest and under a removal.
LotsAgree == MirrorOK /\ GuardCoversLots

\* First expired, first out, against the committed state and not the statement's
\* snapshot: units are taken from a lot only when no earlier lot has any.
FefoOrder ==
    [][\A t \in Tx, l \in Lot :
         (At(t, "fefo") /\ tx'[t].pc \in {"fefo", "record"} /\ tx'[t] # tx[t] /\ cur'[l] < cur[l])
         => \A k \in Lot : owner[k] = owner[l] /\ Before(k, l) => DB!Visible(t, k) = 0]_vars

\* Every request is answered: lock waits end, deadlocks included.
EveryRequestEnds == \A t \in Tx : ~At(t, "idle") ~> At(t, "idle")
=============================================================================
