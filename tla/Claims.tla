------------------------------- MODULE Claims -------------------------------
(***************************************************************************)
(* Serial numbers, warranty replacements and what suppliers make good       *)
(* (internal/features/warranty, internal/features/recovery, and the serials *)
(* of internal/features/sales).                                            *)
(*                                                                         *)
(* A unit is a row of warranty_units: a serial sold, a unit handed out      *)
(* instead of a faulty one, or the faulty item of a receipt line without    *)
(* serials.  Serial numbers have a unique index: an insert waits for        *)
(* another transaction's uncommitted entry, so an entry is a row here.      *)
(* Lots and movements are left to Stock: one statement takes the unit.      *)
(***************************************************************************)
EXTENDS Integers, Sequences, FiniteSetsExt

CONSTANTS Tx, NoTx,      \* database transactions (see RowLocks)
          Phone, Lamp,   \* a product with serials, and one with only a warranty
          Serial, NoSerial,
          Supplier,      \* the payable
          MaxUnit,       \* bound: rows of warranty_units
          MaxDay,        \* bound: the calendar
          Months,        \* the warranty of both products, in days
          SoldLamps,     \* the quantity of the receipt line claims are made on
          Damaged,       \* damage write-offs in the books: quantities of Lamp
          Request,       \* what clients may ask for
          Desk,          \* the requests each of Tx may serve
          MaxRequests,   \* bound: how many requests are served in all
          InitStock

VARIABLES com, cur, lock,  \* the rows (see RowLocks)
          nextUnit,        \* the sequence behind warranty_units.id
          sold,            \* units on the committed sales
          claims,          \* warranty_claims, with the product handed out
          recoveries,      \* loss_recoveries
          today, tx, served

rowVars == <<com, cur, lock>>
books   == <<sold, claims, recoveries>>
vars    == <<com, cur, lock, nextUnit, sold, claims, recoveries, today, tx, served>>

Unit    == 1 .. MaxUnit
Row     == {Phone, Lamp, Supplier} \cup Serial \cup Unit

NoUnit  == [status |-> "none", serial |-> NoSerial, until |-> 0, by |-> 0]
UnitRow == [status : {"none", "active", "replaced"}, serial : Serial \cup {NoSerial},
            until : Nat, by : Unit \cup {0}]
Value   == Int \cup UnitRow

DB == INSTANCE RowLocks

\* A serial's index entry holds the unit's id; Free while it has none.
Free == 0

ASSUME ClaimsAssumption ==
    /\ NoTx \notin Tx /\ NoSerial \notin Row
    /\ Phone # Lamp /\ Supplier \notin {Phone, Lamp} /\ Serial \cap {Phone, Lamp, Supplier} = {}
    /\ Unit \cap ({Phone, Lamp, Supplier} \cup Serial) = {}
    /\ MaxUnit \in Nat /\ MaxDay \in Nat /\ Months \in Nat /\ SoldLamps \in Nat
    /\ MaxRequests \in Nat
    /\ Damaged \in Seq(Nat)
    /\ InitStock \in [{Phone, Lamp} -> Nat]
    /\ Desk \in [Tx -> SUBSET Request]
    /\ Request \subseteq [op : {"sell", "replace", "receipt", "warranty", "damage"},
                          serials : Seq(Serial), of : Nat, how : {"", "replacement", "paid", "written_off"}]
    /\ \A r \in Request :
          /\ r.op = "sell" => r.serials # <<>>
          /\ r.op = "replace" => Len(r.serials) = 1
          /\ r.op \in {"warranty", "damage"} => r.how # ""

Claim    == [unit : Unit, product : {Phone, Lamp}]
Recovery == [source : {"warranty", "damage"}, of : Nat, qty : Nat, paid : Nat,
             product : {Phone, Lamp}, how : {"replacement", "paid", "written_off"}]

Idle == [pc |-> "idle", req |-> <<>>, i |-> 1, unit |-> 0, old |-> NoUnit, claims |-> <<>>,
         loss |-> 0]

At(t, s)   == tx[t].pc = s
R(t)       == tx[t].req
Goto(t, s) == [tx EXCEPT ![t].pc = s]
Product(u) == IF u.serial = NoSerial THEN Lamp ELSE Phone

-----------------------------------------------------------------------------
Init == /\ DB!DBInit([r \in Row |-> CASE r \in {Phone, Lamp} -> InitStock[r]
                                      [] r \in Unit -> NoUnit
                                      [] r \in Serial \cup {Supplier} -> 0])
        /\ nextUnit = 1 /\ sold = 0 /\ claims = <<>> /\ recoveries = <<>>
        /\ today = 0
        /\ tx = [t \in Tx |-> Idle]
        /\ served = 0

Start(r) == CASE r.op = "sell"    -> "check"
              [] r.op = "replace" -> "find"
              [] r.op = "receipt" -> "line"
              [] r.op \in {"warranty", "damage"} -> "source"

Begin(t, r) ==
    /\ At(t, "idle") /\ r \in Desk[t] /\ served < MaxRequests
    /\ served' = served + 1
    /\ tx' = [tx EXCEPT ![t] = [Idle EXCEPT !.pc = Start(r), !.req = r]]
    /\ UNCHANGED <<rowVars, nextUnit, books, today>>

\* Mutant: an error is answered, but the transaction commits.
FailCommits(t) == /\ DB!Commit(t)
                  /\ tx' = [tx EXCEPT ![t] = Idle]
                  /\ UNCHANGED <<nextUnit, books, today, served>>

Fail(t) == /\ DB!Rollback(t)
           /\ tx' = [tx EXCEPT ![t] = Idle]
           /\ UNCHANGED <<nextUnit, books, today, served>>

NextDay == /\ today < MaxDay
           /\ today' = today + 1
           /\ UNCHANGED <<rowVars, nextUnit, books, tx, served>>

-----------------------------------------------------------------------------
(***************************************************************************)
(* Serials: asked for first, inserted last (or at once, by a replacement).  *)
(***************************************************************************)
\* SerialExists, and no serial typed twice on one sale.
CheckSerial(t) ==
    LET s   == R(t).serials
        i   == tx[t].i
        new == /\ DB!Visible(t, s[i]) = Free
               /\ \A j \in 1 .. i - 1 : s[j] # s[i]
    IN /\ At(t, "check")
       /\ IF ~new THEN Fail(t)
          ELSE /\ tx' = IF i < Len(s) THEN [tx EXCEPT ![t].i = i + 1]
                        ELSE [tx EXCEPT ![t].i = 1,
                                        ![t].pc = IF R(t).op = "sell" THEN "stock" ELSE "unit"]
               /\ UNCHANGED <<rowVars, nextUnit, books, today, served>>

\* warranty.Until; a replacement keeps its predecessor's date.
Until(t) == CASE R(t).op = "sell"    -> today + Months
              [] R(t).op = "replace" -> tx[t].old.until
              [] R(t).op = "receipt" -> Months

NewUnit(t) == [NoUnit EXCEPT !.status = "active", !.until = Until(t),
                             !.serial = IF R(t).op = "receipt" THEN NoSerial ELSE R(t).serials[tx[t].i]]

\* Mutant: serial_no has no unique index.
Unindexed(s) == TRUE

\* The unique index takes the entry if nobody's committed unit has it.
EntryFree(s) == cur[s] = Free

InsertUnit(t) ==
    LET u == NewUnit(t)
        s == u.serial
        mine == {nextUnit} \cup (IF s = NoSerial THEN {} ELSE {s})
        more == R(t).op = "sell" /\ tx[t].i < Len(R(t).serials)
    IN /\ At(t, "unit") /\ nextUnit \in Unit
       /\ \A r \in mine : DB!Available(t, r)
       /\ IF s # NoSerial /\ ~EntryFree(s) THEN Fail(t)
          ELSE /\ lock' = [r \in Row |-> IF r \in mine THEN t ELSE lock[r]]
               /\ cur'  = [r \in Row |-> CASE r = nextUnit -> u [] r = s -> nextUnit
                                           [] r \notin {nextUnit, s} -> cur[r]]
               /\ nextUnit' = nextUnit + 1
               /\ tx' = [tx EXCEPT ![t].i = IF more THEN @ + 1 ELSE @, ![t].unit = nextUnit,
                                   ![t].pc = IF R(t).op # "sell" THEN "retire"
                                             ELSE IF more THEN "unit" ELSE "commit"]
               /\ UNCHANGED <<com, books, today, served>>

-----------------------------------------------------------------------------
(***************************************************************************)
(* Replacements.                                                           *)
(***************************************************************************)
FindUnit(t) ==
    LET u == IF R(t).of \in Unit THEN DB!Visible(t, R(t).of) ELSE NoUnit
    IN /\ At(t, "find")
       /\ IF u.status # "active" THEN Fail(t)
          ELSE /\ tx' = [tx EXCEPT ![t].old = u, ![t].pc = "check"]
               /\ UNCHANGED <<rowVars, nextUnit, books, today, served>>

\* NonSerialLine: the units on record for the line that were replaced.
Replaced(t) == Cardinality({u \in Unit : /\ DB!Visible(t, u).status = "replaced"
                                         /\ DB!Visible(t, u).serial = NoSerial})

\* Mutant: the line's remaining quantity is not looked at.
InWarranty(t) == Months >= today

Claimable(t) == Months >= today /\ SoldLamps - Replaced(t) >= 1

ReadLine(t) == /\ At(t, "line")
               /\ IF ~Claimable(t) THEN Fail(t)
                  ELSE /\ tx' = Goto(t, "unit")
                       /\ UNCHANGED <<rowVars, nextUnit, books, today, served>>

\* InsertClaim and MarkUnitReplaced (NoUnit for a receipt line).
Retire(t) ==
    LET serial == R(t).op = "replace"
        u == IF serial THEN R(t).of ELSE tx[t].unit
    IN /\ At(t, "retire")
       /\ DB!Write(t, u, [cur[u] EXCEPT !.status = "replaced",
                                        !.by = IF serial THEN tx[t].unit ELSE 0])
       /\ tx' = [tx EXCEPT ![t].pc = "stock",
                           ![t].claims = <<[unit |-> u, product |-> IF serial THEN Phone ELSE Lamp]>>]
       /\ UNCHANGED <<nextUnit, books, today, served>>

\* DecrementGuarded: of the sold quantity, or of the one handed out.
TakeUnit(t) ==
    LET p == IF R(t).op = "receipt" THEN Lamp ELSE Phone
        q == IF R(t).op = "sell" THEN Len(R(t).serials) ELSE 1
    IN /\ At(t, "stock")
       /\ DB!Available(t, p)
       /\ IF cur[p] < q THEN Fail(t)
          ELSE /\ DB!Write(t, p, cur[p] - q)
               /\ tx' = Goto(t, IF R(t).op = "sell" THEN "unit" ELSE "commit")
               /\ UNCHANGED <<nextUnit, books, today, served>>

-----------------------------------------------------------------------------
(***************************************************************************)
(* Recoveries.                                                             *)
(***************************************************************************)
\* Mutant: a unit still in service counts as a loss.
AnyUnit(t) == IF R(t).of \in Unit /\ DB!Visible(t, R(t).of).status # "none" THEN 1 ELSE 0

\* warrantySource: one unit, once it was replaced.
WarrantySource(t) == IF R(t).of \in Unit /\ DB!Visible(t, R(t).of).status = "replaced" THEN 1 ELSE 0

\* damageSource: the quantity of the write-off.
DamageSource(t) == IF R(t).of \in DOMAIN Damaged THEN Damaged[R(t).of] ELSE 0

ReadSource(t) ==
    LET q == IF R(t).op = "warranty" THEN WarrantySource(t) ELSE DamageSource(t)
    IN /\ At(t, "source")
       /\ IF q = 0 THEN Fail(t)
          ELSE /\ tx' = [tx EXCEPT ![t].loss = q, ![t].pc = "already"]
               /\ UNCHANGED <<rowVars, nextUnit, books, today, served>>

\* RecoveredQtyForSource.
Quantity == [i \in DOMAIN recoveries |-> recoveries[i].qty]
Recovered(source, of) ==
    SumFunctionOnSet(Quantity, {i \in DOMAIN recoveries : recoveries[i].source = source /\ recoveries[i].of = of})

CheckRecovered(t) ==
    /\ At(t, "already")
    /\ IF Recovered(R(t).op, R(t).of) >= tx[t].loss THEN Fail(t)
       ELSE /\ tx' = Goto(t, CASE R(t).how = "replacement" -> "restock"
                               [] R(t).how = "paid"        -> "credit"
                               [] R(t).how = "written_off" -> "commit")
            /\ UNCHANGED <<rowVars, nextUnit, books, today, served>>

LossProduct(t) == IF R(t).op = "damage" THEN Lamp ELSE Product(DB!Visible(t, R(t).of))

\* InsertBatch, Increment, InsertMovement.
Restock(t) == /\ At(t, "restock")
              /\ DB!Write(t, LossProduct(t), cur[LossProduct(t)] + tx[t].loss)
              /\ tx' = Goto(t, "commit")
              /\ UNCHANGED <<nextUnit, books, today, served>>

\* AddBalance(supplier, -amount): a unit of money for each unit lost.
CreditSupplier(t) == /\ At(t, "credit")
                     /\ DB!Write(t, Supplier, cur[Supplier] - tx[t].loss)
                     /\ tx' = Goto(t, "commit")
                     /\ UNCHANGED <<nextUnit, books, today, served>>

RecoveryOf(t) == [source |-> R(t).op, of |-> R(t).of, qty |-> tx[t].loss, product |-> LossProduct(t),
                  how |-> R(t).how, paid |-> IF R(t).how = "paid" THEN tx[t].loss ELSE 0]

-----------------------------------------------------------------------------
Commit(t) ==
    /\ At(t, "commit")
    /\ DB!Commit(t)
    /\ sold' = IF R(t).op = "sell" THEN sold + Len(R(t).serials) ELSE sold
    /\ claims' = claims \o tx[t].claims
    /\ recoveries' = IF R(t).op \in {"warranty", "damage"} THEN Append(recoveries, RecoveryOf(t))
                     ELSE recoveries
    /\ tx' = [tx EXCEPT ![t] = Idle]
    /\ UNCHANGED <<nextUnit, today, served>>

\* The row a transaction's next statement locks.
Want(t) == CASE At(t, "stock")   -> {IF R(t).op = "receipt" THEN Lamp ELSE Phone}
             [] At(t, "unit")    -> {NewUnit(t).serial} \cap Serial
             [] At(t, "retire")  -> {IF R(t).op = "replace" THEN R(t).of ELSE tx[t].unit}
             [] At(t, "restock") -> {LossProduct(t)}
             [] At(t, "credit")  -> {Supplier}
             [] tx[t].pc \notin {"stock", "unit", "retire", "restock", "credit"} -> {}

Cancel(t) == /\ DB!OnCycle(t, [u \in Tx |-> Want(u)])
             /\ Fail(t)

Step(t) == \/ CheckSerial(t) \/ InsertUnit(t) \/ FindUnit(t) \/ ReadLine(t) \/ Retire(t)
           \/ TakeUnit(t) \/ ReadSource(t) \/ CheckRecovered(t) \/ Restock(t) \/ CreditSupplier(t)
           \/ Commit(t) \/ Cancel(t)

Next == \/ \E t \in Tx : Step(t) \/ \E r \in Desk[t] : Begin(t, r)
        \/ NextDay

Spec == Init /\ [][Next]_vars

\* The server runs each transaction to its end, and its deadlock detector runs
\* (Cancel is one of Step).  Nobody has to come, and no day has to end.
FairSpec == Spec /\ \A t \in Tx : WF_vars(Step(t))

-----------------------------------------------------------------------------
(***************************************************************************)
(* What is to be true.                                                     *)
(***************************************************************************)
Issued == {u \in Unit : com[u].status # "none"}
Paid(how, p) ==
    SumFunctionOnSet(Quantity, {i \in DOMAIN recoveries : recoveries[i].how = how /\ recoveries[i].product = p})
Handed(p) == Cardinality({i \in DOMAIN claims : claims[i].product = p})

\* A serial number names one unit, whoever sells or hands it out at the
\* same time: the check before the insert is a plain read.
SerialOnce == \A u, v \in Issued : com[u].serial = com[v].serial /\ com[u].serial # NoSerial => u = v

\* What is on the shelf is what was there, less the units on sales and the
\* ones handed out against claims, plus what suppliers replaced; and the
\* serials on record are those sold and those handed out, none left behind
\* by a transaction that failed.
UnitsAccounted ==
    /\ com[Phone] = InitStock[Phone] - sold - Handed(Phone) + Paid("replacement", Phone)
    /\ com[Lamp]  = InitStock[Lamp] - Handed(Lamp) + Paid("replacement", Lamp)
    /\ com[Supplier] = 0 - (Paid("paid", Phone) + Paid("paid", Lamp))
    /\ Cardinality({u \in Issued : com[u].serial # NoSerial}) = sold + Handed(Phone)

\* "a line can't be over-claimed past the qty sold", and a unit is replaced
\* once (warranty/service.go).
ClaimsWithinSold ==
    /\ Handed(Lamp) <= SoldLamps
    /\ \A i, j \in DOMAIN claims : claims[i].unit = claims[j].unit => i = j

\* "Don't recover the same loss twice" (recovery/service.go): a loss is made
\* good at most once, and only after a claim or a write-off booked it.
LossRecoveredOnce ==
    \A i \in DOMAIN recoveries :
       LET r == recoveries[i]
       IN /\ r.source = "warranty" => \E k \in DOMAIN claims : claims[k].unit = r.of
          /\ Recovered(r.source, r.of) <= IF r.source = "damage" THEN Damaged[r.of] ELSE 1

\* A unit is claimed at most once for each one sold, and its loss made good once.
ClaimedOnce == ClaimsWithinSold /\ LossRecoveredOnce

\* Every request is answered.  A sale inserts serials with the shelf's row held,
\* a replacement takes that row with its serial inserted: they may wait for each
\* other, and one is then rolled back.
EveryRequestEnds == \A t \in Tx : ~At(t, "idle") ~> At(t, "idle")
=============================================================================
