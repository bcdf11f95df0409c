----------------------------- MODULE JobsProofs ------------------------------
(***************************************************************************)
(* Proofs about Jobs, for any number of requests and whatever they ask:     *)
(* a mark on a job has its money wherever a request is cut off, the labour  *)
(* of a print job is settled once, a collection is paid for in full.       *)
(*                                                                         *)
(* What makes them inductive is where the money is while a request is      *)
(* between two of its commits: Doing says what a request at each step has   *)
(* done already, Deposits counts what is paid in and not yet noted.        *)
(***************************************************************************)
EXTENDS Jobs, SequenceTheorems, SumLaws

-----------------------------------------------------------------------------
(***************************************************************************)
(* The inductive invariant.                                                *)
(***************************************************************************)
TxState == [pc : Pcs, req : Request, seen : Job, got : Nat, lines : SUBSET Nat, part : BOOLEAN]

Tables ==
    /\ jobs \in Seq(Job) /\ Len(jobs) <= MaxJob
    /\ prints \in Seq(PrintRow) /\ Len(prints) <= MaxJob
    /\ sales \in Seq(Sale) /\ payouts \in Seq(Payout)
    /\ money \in [Till -> Int]
    /\ moved \in [Movements -> [Id -> Nat]] /\ booked \in [Movements -> [Id -> Nat]]
    /\ parts \in Nat /\ paper \in [DOMAIN Component -> Nat]
    /\ price \in Nat /\ today \in Nat
    /\ tx \in [Tx -> TxState]

\* The step a request is at says what it asks for.
Asked(t) == LET r == tx[t].req  pc == tx[t].pc IN
    /\ ~Ended(t) => JobExists(t, r)
    /\ pc = "insert" => r.op = "rework"
    /\ pc = "set" => r.op = "cancel"
    /\ pc = "note" => r.op \in {"deposit", "print", "ownuse"}
    /\ pc \in {"ring", "mark"} => r.op = "collect"
    /\ pc = "return" => r.op = "refund"
    /\ pc = "consume" => r.op = "ownuse"
    /\ pc \in {"withdraw", "expense"} => r.op \in {"reverse", "pay"}
    /\ pc = "withdraw" => r.till \in Till
    /\ pc = "flag" => r.op = "reverse"
    /\ pc = "settle" => r.op \in {"pay", "dismiss"}

\* What a request has read, and what it has done so far.
Doing(t) == LET x == tx[t]  r == tx[t].req  pc == tx[t].pc IN
    /\ pc = "insert" => x.seen.dep = 0 /\ x.seen.paid = 0
    /\ pc = "ring" => x.seen.dep <= moved["deposit"][r.of]
    /\ pc = "mark" => x.got \in DOMAIN sales /\ sales[x.got].job = r.of
    /\ pc = "return" => x.seen.sale \in DOMAIN sales
    /\ pc = "consume" => x.got \in DOMAIN Component
    /\ pc \in {"expense", "flag"} /\ r.op = "reverse" =>
          moved["reversal"][r.of] >= prints[r.of].total
    /\ pc = "flag" => booked["reversal"][r.of] >= prints[r.of].total
    /\ pc \in {"expense", "settle"} /\ r.op = "pay" /\ r.till # None =>
          moved["labour"][r.of] >= r.n

Noted(j) == IF j \in DOMAIN jobs THEN jobs[j].dep ELSE 0
Paid(j)  == IF j \in DOMAIN jobs THEN jobs[j].paid ELSE 0

\* Deposits that are in the drawer and not on their job yet.
Owing(x, j) == IF x.pc = "note" /\ x.req.op = "deposit" /\ x.req.of = j THEN x.req.n ELSE 0
Pending(j)  == [t \in Tx |-> Owing(tx[t], j)]

Deposits == \A j \in Id : Noted(j) + SumFunctionOnSet(Pending(j), Tx) <= moved["deposit"][j]

Repairers == \A j \in Id : Paid(j) = moved["repairer"][j] /\ Paid(j) = booked["repairer"][j]

Collected == \A j \in DOMAIN jobs : jobs[j].status = "collected" =>
                 jobs[j].sale \in DOMAIN sales /\ sales[jobs[j].sale].job = j

Reversed == \A p \in DOMAIN prints : prints[p].reversed =>
                /\ moved["reversal"][p] >= prints[p].total
                /\ booked["reversal"][p] >= prints[p].total

Labours == \A i \in DOMAIN payouts :
               /\ payouts[i].job \in DOMAIN prints
               /\ payouts[i].till # None => moved["labour"][payouts[i].job] >= payouts[i].amount

\* What is owed may be less than nothing: see ReturnParts.
Sold == owed \in Int /\ \A i \in DOMAIN sales : sales[i].job \in DOMAIN jobs

JobsInv == /\ Tables /\ (\A t \in Tx : Asked(t) /\ Doing(t))
           /\ Deposits /\ Repairers /\ Collected /\ Reversed /\ Labours
           /\ Sold /\ SettledOnce /\ CollectionCovered

-----------------------------------------------------------------------------
(***************************************************************************)
(* The operators.                                                          *)
(***************************************************************************)
\* The larger of nothing and x.
LEMMA AtLeastNone ==
  ASSUME NEW x \in Int
  PROVE  Max({0, x}) \in Nat /\ Max({0, x}) = IF x > 0 THEN x ELSE 0
<1> DEFINE m == IF x > 0 THEN x ELSE 0
           y == Max({0, x})
<1>1. m \in {0, x} /\ \A z \in {0, x} : m >= z
  OBVIOUS
<1>2. y \in {0, x} /\ \A z \in {0, x} : y >= z
  BY <1>1 DEF Max
<1>3. y = m
  BY <1>1, <1>2
<1> QED BY <1>3

\* A count that is added to.
LEMMA Added ==
  ASSUME NEW f \in [Movements -> [Id -> Nat]], NEW kind \in Movements, NEW id \in Id, NEW n \in Nat,
         NEW g, g = [f EXCEPT ![kind][id] = @ + n]
  PROVE  /\ g \in [Movements -> [Id -> Nat]]
         /\ g[kind][id] = f[kind][id] + n
         /\ \A i \in Id : i # id => g[kind][i] = f[kind][i]
         /\ \A k \in Movements : k # kind => g[k] = f[k]
         /\ \A k \in Movements, i \in Id : g[k][i] >= f[k][i]
<1>1. PICK a \in Nat : a = f[kind][id]
  OBVIOUS
<1>2. PICK b \in Nat : b = a + n
  BY <1>1
<1>3. PICK row : row = [f[kind] EXCEPT ![id] = b]
  OBVIOUS
<1>4. row \in [Id -> Nat] /\ row[id] = b /\ \A i \in Id : i # id => row[i] = f[kind][i]
  BY <1>2, <1>3
<1>5. g = [f EXCEPT ![kind] = row]
  BY <1>1, <1>2, <1>3
<1>6. g \in [Movements -> [Id -> Nat]] /\ g[kind] = row /\ \A k \in Movements : k # kind => g[k] = f[k]
  BY <1>4, <1>5
<1>7. ASSUME NEW k \in Movements, NEW i \in Id PROVE g[k][i] >= f[k][i]
  <2>1. f[k][i] \in Nat /\ g[k][i] \in Nat
    BY <1>6
  <2>2. CASE k = kind /\ i = id
    BY <1>1, <1>2, <1>4, <1>6, <2>2
  <2>3. CASE k # kind \/ i # id
    <3>1. g[k][i] = f[k][i]
      BY <1>4, <1>6, <2>3
    <3> QED BY <2>1, <3>1
  <2> QED BY <2>2, <2>3
<1> QED BY <1>1, <1>2, <1>4, <1>6, <1>7

\* The smaller of two numbers.
LEMMA Smaller ==
  ASSUME NEW a \in Int, NEW b \in Int
  PROVE  Min({a, b}) = IF a <= b THEN a ELSE b
<1> DEFINE m == IF a <= b THEN a ELSE b
           y == Min({a, b})
<1>1. m \in {a, b} /\ \A z \in {a, b} : m <= z
  OBVIOUS
<1>2. y \in {a, b} /\ \A z \in {a, b} : y <= z
  BY <1>1 DEF Min
<1> QED BY <1>1, <1>2

\* The sum of a sequence of amounts is an amount.
LEMMA SumOfAmounts ==
  ASSUME NEW s \in Seq(Nat)
  PROVE  Sum(s) \in Nat
<1>1. Sum(s) = SumFunctionOnSet(s, DOMAIN s)
  BY DEF Sum, FoldSeq, FoldFunction, SumFunctionOnSet
<1>2. DOMAIN s = 1 .. Len(s) /\ Len(s) \in Nat /\ \A i \in DOMAIN s : s[i] \in Nat
  BY LenProperties, ElementOfSeq
<1>3. IsFiniteSet(DOMAIN s)
  BY <1>2, FS_Interval
<1> QED BY <1>1, <1>2, <1>3, SumNat

\* What is left of a list when an entry is taken out of it, or none is there.
LEMMA RemovedAmounts ==
  ASSUME NEW s \in Seq(Nat), NEW r \in Removed(s)
  PROVE  r \in Seq(Nat)
<1>1. CASE s = <<>>
  BY <1>1 DEF Removed
<1>2. CASE s # <<>>
  <2>1. PICK i \in DOMAIN s : r = RemoveAt(s, i)
    BY <1>2 DEF Removed
  <2>2. i \in 1 .. Len(s) /\ Len(s) \in Nat
    BY LenProperties
  <2>3. SubSeq(s, 1, i - 1) \in Seq(Nat)
    BY <2>2, SubSeqProperties, ElementOfSeq
  <2>4. SubSeq(s, i + 1, Len(s)) \in Seq(Nat)
    BY <2>2, SubSeqProperties, ElementOfSeq
  <2> QED BY <2>1, <2>3, <2>4, ConcatProperties DEF RemoveAt
<1> QED BY <1>1, <1>2

\* A request that does nothing.
LEMMA IdleFacts == Idle \in TxState /\ Idle.pc = "idle" /\ ~Idle.part
<1>1. (CHOOSE r \in Request : TRUE) \in Request
  BY JobsAssumption
<1>2. NoJob \in Job
  <2>1. <<>> \in Seq(Nat)
    OBVIOUS
  <2> QED BY <2>1 DEF NoJob, Job, Statuses
<1> QED BY <1>1, <1>2 DEF Idle, TxState, Pcs

\* What a job comes to, and what is left of it after the deposits.
LEMMA JobAmounts ==
  ASSUME NEW j \in Job
  PROVE  Sum(j.parts) \in Nat /\ Sum(j.charges) \in Nat /\ Len(j.parts) \in Nat /\ Balance(j) \in Nat
<1>1. j.parts \in Seq(Nat) /\ j.charges \in Seq(Nat) /\ j.dep \in Nat
  BY DEF Job
<1>2. Sum(j.parts) \in Nat /\ Sum(j.charges) \in Nat /\ Len(j.parts) \in Nat
  BY <1>1, SumOfAmounts, LenProperties
<1>3. JobTotal(j) - j.dep \in Int
  BY <1>1, <1>2 DEF JobTotal
<1> QED BY <1>2, <1>3, AtLeastNone DEF Balance

\* The sale of a collection: it is a row of the table, it spends the deposit of the
\* job it was built from, and when the tender check passes it is paid in full.
LEMMA CollectionFacts ==
  ASSUME price \in Nat, NEW j \in Job, NEW id \in Id, NEW r \in Request, r.op = "collect"
  PROVE  LET s == CollectionSale(j, id, r) IN
         /\ s \in Sale /\ s.job = id /\ s.wallet <= j.dep
         /\ CheckTender(s) => Covered(s) = s.total + s.change
<1> DEFINE s    == CollectionSale(j, id, r)
           free == j.of # 0
           pay  == PayNow(j, r)
           over == s.wallet + s.now + s.account - s.total
<1>1. Sum(j.charges) \in Nat /\ Len(j.parts) \in Nat /\ Balance(j) \in Nat /\ j.dep \in Nat
  BY JobAmounts DEF Job
<1>2. r.n \in Nat \cup {Blank}
  BY JobsAssumption
<1>3. pay \in Nat /\ pay <= Balance(j)
  <2>1. CASE r.mode = "credit"
    BY <2>1, <1>1 DEF PayNow
  <2>2. CASE r.mode # "credit" /\ r.n = Blank
    BY <2>2, <1>1 DEF PayNow
  <2>3. CASE r.mode # "credit" /\ r.n # Blank
    <3>1. r.n \in Nat /\ pay = Min({r.n, Balance(j)})
      BY <2>3, <1>2 DEF PayNow
    <3>2. PICK b \in Nat : b = Balance(j)
      BY <1>1
    <3> QED BY <3>1, <3>2, Smaller
  <2> QED BY <2>1, <2>2, <2>3
<1>4. SaleTotal(j) \in Nat
  <2>1. CASE j.of # 0
    BY <2>1 DEF SaleTotal
  <2>2. CASE j.of = 0
    <3>1. PICK l \in Nat : l = Len(j.parts)
      BY <1>1
    <3>2. price * l \in Nat
      OBVIOUS
    <3> QED BY <2>2, <1>1, <3>1, <3>2 DEF SaleTotal
  <2> QED BY <2>1, <2>2
<1>5. /\ s.job = id /\ s.units = Len(j.parts) /\ s.unit \in Nat /\ s.total = SaleTotal(j)
      /\ s.wallet \in Nat /\ s.wallet <= j.dep /\ s.now \in Nat /\ s.account \in Nat
      /\ s.left \in Seq(0 .. 1)
  <2> HIDE DEF pay
  <2>1. s.unit = (IF free THEN 0 ELSE price) /\ s.wallet = (IF free THEN 0 ELSE j.dep)
    BY DEF CollectionSale
  <2>2. s.now = (IF free THEN 0 ELSE pay) /\ s.account = (IF free THEN 0 ELSE Balance(j) - pay)
    BY DEF CollectionSale, pay
  <2>3. PICK b \in Nat : b = Balance(j)
    BY <1>1
  <2>4. s.now \in Nat /\ s.account \in Nat
    BY <2>2, <2>3, <1>3
  <2>5. s.job = id /\ s.units = Len(j.parts) /\ s.total = SaleTotal(j)
    BY DEF CollectionSale
  <2>6. s.left \in Seq(0 .. 1)
    <3>1. PICK n \in Nat : DOMAIN j.parts = 1 .. n
      BY LenProperties DEF Job
    <3>2. PICK l : l = [i \in 1 .. n |-> 1]
      OBVIOUS
    <3>3. l \in Seq(0 .. 1)
      BY <3>2, IsASeq
    <3> QED BY <3>1, <3>2, <3>3 DEF CollectionSale
  <2> QED BY <2>1, <2>4, <2>5, <2>6, <1>1
<1>6. s.change = IF s.account > 0 THEN 0 ELSE Max({0, over})
  BY DEF CollectionSale
<1>7. s = [job |-> s.job, units |-> s.units, unit |-> s.unit, total |-> s.total, wallet |-> s.wallet,
           now |-> s.now, account |-> s.account, change |-> s.change, left |-> s.left]
  BY DEF CollectionSale
<1> HIDE DEF s, pay
<1>8. over \in Int /\ s.total \in Nat
  BY <1>4, <1>5
<1>9. Max({0, over}) \in Nat /\ Max({0, over}) = IF over > 0 THEN over ELSE 0
  <2>1. PICK x \in Int : x = over
    BY <1>8
  <2> QED BY <2>1, AtLeastNone
<1>10. s.change \in Nat
  BY <1>6, <1>9, <1>5
<1>11. s \in Sale
  <2>1. s.units \in Nat /\ s.left \in Seq(0 .. 1)
    BY <1>1, <1>5
  <2>2. PICK u : /\ u = s /\ u.job \in Id /\ u.units \in Nat /\ u.unit \in Nat /\ u.total \in Nat
                 /\ u.wallet \in Nat /\ u.now \in Nat /\ u.account \in Nat /\ u.change \in Nat
                 /\ u.left \in Seq(0 .. 1)
    <3>1. s.job \in Id /\ s.total \in Nat /\ s.change \in Nat
      BY <1>5, <1>8, <1>10
    <3> QED BY <1>5, <2>1, <3>1
  <2>3. u = [job |-> u.job, units |-> u.units, unit |-> u.unit, total |-> u.total, wallet |-> u.wallet,
             now |-> u.now, account |-> u.account, change |-> u.change, left |-> u.left]
    BY <1>7, <2>2
  <2>4. u \in Sale
    BY <2>2, <2>3 DEF Sale
  <2> QED BY <2>2, <2>4
<1>12. ASSUME CheckTender(s) PROVE Covered(s) = s.total + s.change
  <2>1. PICK w \in Nat : w = s.wallet
    BY <1>5
  <2>2. PICK n \in Nat : n = s.now
    BY <1>5
  <2>3. PICK a \in Nat : a = s.account
    BY <1>5
  <2>4. PICK total \in Nat : total = s.total
    BY <1>8
  <2>5. w + n + a >= total /\ (a > 0 => w + n + a = total)
    BY <1>12, <2>1, <2>2, <2>3, <2>4 DEF CheckTender, Covered
  <2>6. s.change = IF a > 0 THEN 0 ELSE w + n + a - total
    BY <1>6, <1>9, <2>1, <2>2, <2>3, <2>4, <2>5
  <2> QED BY <2>1, <2>2, <2>3, <2>4, <2>5, <2>6 DEF Covered
<1> QED BY <1>5, <1>11, <1>12 DEF s

-----------------------------------------------------------------------------
(***************************************************************************)
(* A step that leaves a part of the invariant alone.                       *)
(***************************************************************************)
\* What every step keeps to: rows are never deleted, a print job keeps its total
\* and a sale its job, and movements and bookings only add up.
Grows ==
    /\ DOMAIN jobs \subseteq DOMAIN jobs'
    /\ DOMAIN prints \subseteq DOMAIN prints'
    /\ \A p \in DOMAIN prints : prints'[p].total = prints[p].total
    /\ DOMAIN sales \subseteq DOMAIN sales'
    /\ \A i \in DOMAIN sales : sales'[i].job = sales[i].job
    /\ \A k \in Movements, i \in Id : moved'[k][i] >= moved[k][i] /\ booked'[k][i] >= booked[k][i]

\* Jobs are numbered within the bound.
LEMMA RowsNumbered ==
  ASSUME Tables
  PROVE  DOMAIN jobs \subseteq Id /\ DOMAIN prints \subseteq Id
<1>1. Len(jobs) \in Nat /\ DOMAIN jobs = 1 .. Len(jobs) /\ Len(prints) \in Nat /\ DOMAIN prints = 1 .. Len(prints)
  BY LenProperties DEF Tables
<1>2. MaxJob \in Nat
  BY JobsAssumption
<1> QED BY <1>1, <1>2 DEF Tables, Id

\* The jobs, movements and bookings, entry by entry.
LEMMA Entries ==
  ASSUME Tables
  PROVE  /\ \A j \in DOMAIN jobs : jobs[j] \in Job
         /\ \A p \in DOMAIN prints : prints[p] \in PrintRow
         /\ \A i \in DOMAIN sales : sales[i] \in Sale
         /\ \A i \in DOMAIN payouts : payouts[i] \in Payout
         /\ \A k \in Movements, i \in Id : moved[k][i] \in Nat /\ booked[k][i] \in Nat
         /\ \A t \in Tx : tx[t] \in TxState /\ tx[t].req \in Request
<1>1. \A j \in DOMAIN jobs : jobs[j] \in Job
  BY LenProperties, ElementOfSeq DEF Tables
<1>2. \A p \in DOMAIN prints : prints[p] \in PrintRow
  BY LenProperties, ElementOfSeq DEF Tables
<1>3. \A i \in DOMAIN sales : sales[i] \in Sale
  BY LenProperties, ElementOfSeq DEF Tables
<1>4. \A i \in DOMAIN payouts : payouts[i] \in Payout
  BY LenProperties, ElementOfSeq DEF Tables
<1>5. \A k \in Movements, i \in Id : moved[k][i] \in Nat /\ booked[k][i] \in Nat
  BY DEF Tables
<1>6. \A t \in Tx : tx[t] \in TxState /\ tx[t].req \in Request
  BY DEF Tables, TxState
<1> QED BY <1>1, <1>2, <1>3, <1>4, <1>5, <1>6

\* What a request asks for, and the job it asks it of.
LEMMA Requests ==
  ASSUME NEW r \in Request
  PROVE  /\ r.op \in RepairOps \cup PrintOps /\ r.till \in Till \cup {None} /\ r.of \in Nat
         /\ r.n \in Nat \cup {Blank} /\ (r.op # "collect" => r.n \in Nat)
BY JobsAssumption

\* While a request works on a job, the job is there.
LEMMA JobThere ==
  ASSUME Tables, NEW r \in Request, JobExists(1, r)
  PROVE  /\ r.op \in RepairOps \ {"new"} => r.of \in DOMAIN jobs /\ r.of \in Id
         /\ r.op \in {"reverse", "pay", "dismiss"} => r.of \in DOMAIN prints /\ r.of \in Id
<1>1. ASSUME r.op \in RepairOps \ {"new"} PROVE r.of \in DOMAIN jobs
  BY <1>1 DEF JobExists, RepairOps
<1>2. ASSUME r.op \in {"reverse", "pay", "dismiss"} PROVE r.of \in DOMAIN prints
  BY <1>2 DEF JobExists, RepairOps
<1> QED BY <1>1, <1>2, RowsNumbered

\* The other requests are where they were.
LEMMA OthersKept ==
  ASSUME Tables, NEW t \in Tx, NEW u \in Tx, u # t, NEW x, tx' = [tx EXCEPT ![t] = x],
         Grows, Tables', Asked(u), Doing(u)
  PROVE  Asked(u)' /\ Doing(u)'
<1> DEFINE y == tx[u]
           r == tx[u].req
<1>1. tx'[u] = tx[u]
  BY DEF Tables
<1>2. r \in Request /\ y \in TxState
  BY Entries
<1>3. Asked(u)'
  <2>1. JobExists(u, r) => JobExists(u, r)'
    BY DEF JobExists, Grows
  <2> QED BY <1>1, <2>1 DEF Asked, Ended, At
<1>4. \A k \in Movements, i \in Id :
         /\ moved[k][i] \in Nat /\ booked[k][i] \in Nat
         /\ moved'[k][i] \in Nat /\ booked'[k][i] \in Nat
  BY DEF Tables
<1>5. ~Ended(u) => JobExists(u, r)
  BY DEF Asked
<1>6. y.pc \notin {"idle", "refused"} /\ r.op \in RepairOps \ {"new"} => r.of \in Id
  BY <1>2, <1>5, JobThere DEF Ended, JobExists
<1>7. y.pc \notin {"idle", "refused"} /\ r.op \in {"reverse", "pay", "dismiss"} => r.of \in DOMAIN prints /\ r.of \in Id
  BY <1>2, <1>5, JobThere DEF Ended, JobExists
<1>8. r.op # "collect" => r.n \in Nat
  BY <1>2, Requests
<1>9. y.seen \in Job /\ y.seen.dep \in Nat
  BY <1>2 DEF TxState, Job
<1>10. y.pc = "ring" => y.seen.dep <= moved'["deposit"][r.of]
  <2>1. ASSUME y.pc = "ring" PROVE r.of \in Id /\ y.seen.dep <= moved["deposit"][r.of]
    BY <2>1, <1>6 DEF Asked, Doing, RepairOps
  <2> QED BY <2>1, <1>4, <1>9 DEF Grows, Movements
<1>11. y.pc = "mark" => y.got \in DOMAIN sales' /\ sales'[y.got].job = r.of
  BY DEF Doing, Grows
<1>12. y.pc = "return" => y.seen.sale \in DOMAIN sales'
  BY DEF Doing, Grows
<1>13. y.pc \in {"expense", "flag"} /\ r.op = "reverse" => moved'["reversal"][r.of] >= prints'[r.of].total
  <2>1. ASSUME y.pc \in {"expense", "flag"}, r.op = "reverse"
        PROVE  /\ r.of \in Id /\ moved["reversal"][r.of] >= prints[r.of].total
               /\ prints'[r.of].total = prints[r.of].total /\ prints[r.of].total \in Nat
    BY <2>1, <1>7, Entries DEF Doing, Grows, PrintRow
  <2> QED BY <2>1, <1>4 DEF Grows, Movements
<1>14. y.pc = "flag" => booked'["reversal"][r.of] >= prints'[r.of].total
  <2>1. ASSUME y.pc = "flag"
        PROVE  /\ r.of \in Id /\ booked["reversal"][r.of] >= prints[r.of].total
               /\ prints'[r.of].total = prints[r.of].total /\ prints[r.of].total \in Nat
    BY <2>1, <1>7, Entries DEF Asked, Doing, Grows, PrintRow
  <2> QED BY <2>1, <1>4 DEF Grows, Movements
<1>15. y.pc \in {"expense", "settle"} /\ r.op = "pay" /\ r.till # None => moved'["labour"][r.of] >= r.n
  <2>1. ASSUME y.pc \in {"expense", "settle"}, r.op = "pay", r.till # None
        PROVE  r.of \in Id /\ moved["labour"][r.of] >= r.n /\ r.n \in Nat
    BY <2>1, <1>7, <1>8 DEF Doing
  <2> QED BY <2>1, <1>4 DEF Grows, Movements
<1>16. Doing(u)'
  BY <1>1, <1>10, <1>11, <1>12, <1>13, <1>14, <1>15 DEF Doing
<1> QED BY <1>3, <1>16

\* A request owes no job less than nothing.
LEMMA OwingNat ==
  ASSUME NEW x \in TxState, NEW j
  PROVE  Owing(x, j) \in Nat
<1>1. x.req \in Request
  BY DEF TxState
<1> QED BY <1>1, Requests DEF Owing

\* What the requests owe changes by what the one that steps owes.
LEMMA PendingStep ==
  ASSUME Tables, Tables', NEW t \in Tx, NEW x, tx' = [tx EXCEPT ![t] = x], NEW j
  PROVE  /\ SumFunctionOnSet(Pending(j), Tx) \in Nat
         /\ SumFunctionOnSet(Pending(j), Tx)' =
              SumFunctionOnSet(Pending(j), Tx) + (Owing(x, j) - Owing(tx[t], j))
<1> DEFINE f == [u \in Tx |-> Owing(tx[u], j)]
           g == [u \in Tx |-> Owing(tx'[u], j)]
<1>1. IsFiniteSet(Tx)
  BY JobsAssumption
<1>2. \A u \in Tx : f[u] \in Nat
  BY OwingNat DEF Tables
<1>3. \A u \in Tx : g[u] \in Nat
  BY OwingNat DEF Tables
<1>4. \A u \in Tx \ {t} : f[u] = g[u]
  BY DEF Tables
<1>5. f[t] = Owing(tx[t], j) /\ g[t] = Owing(x, j)
  BY DEF Tables
<1>6. Pending(j) = f /\ Pending(j)' = g
  BY DEF Pending
<1> HIDE DEF f, g
<1>7. SumFunctionOnSet(f, Tx) \in Nat
  BY <1>1, <1>2, SumNat
<1>8. SumFunctionOnSet(g, Tx) = SumFunctionOnSet(f, Tx) + (g[t] - f[t])
  BY <1>1, <1>2, <1>3, <1>4, SumChange
<1>9. SumFunctionOnSet(Pending(j), Tx)' = SumFunctionOnSet(g, Tx)
  BY <1>6
<1> QED BY <1>5, <1>6, <1>7, <1>8, <1>9

\* No more is noted and owed than was paid in, if what a step adds to the two it
\* has paid in.
LEMMA DepositsKept ==
  ASSUME Tables, Tables', Deposits, NEW t \in Tx, NEW x, tx' = [tx EXCEPT ![t] = x],
         \A j \in Id : Noted(j)' + Owing(x, j) + moved["deposit"][j]
                          <= Noted(j) + Owing(tx[t], j) + moved'["deposit"][j]
  PROVE  Deposits'
<1> SUFFICES ASSUME NEW j \in Id
             PROVE  Noted(j)' + SumFunctionOnSet(Pending(j), Tx)' <= moved'["deposit"][j]
  BY DEF Deposits
<1>1. x \in TxState /\ tx[t] \in TxState
  <2>1. x = tx'[t]
    BY DEF Tables
  <2> QED BY <2>1 DEF Tables
<1>2. PICK a \in Nat : a = SumFunctionOnSet(Pending(j), Tx)
  BY PendingStep
<1>3. PICK o \in Nat : o = Owing(tx[t], j)
  BY <1>1, OwingNat
<1>4. PICK p \in Nat : p = Owing(x, j)
  BY <1>1, OwingNat
<1>5. SumFunctionOnSet(Pending(j), Tx)' = a + (p - o)
  BY <1>2, <1>3, <1>4, PendingStep
<1>6. moved["deposit"][j] \in Nat /\ moved'["deposit"][j] \in Nat
  BY DEF Tables, Movements
<1>7. Noted(j) \in Nat /\ Noted(j)' \in Nat
  <2>1. Noted(j) \in Nat
    BY Entries DEF Noted, Job
  <2>2. \A i \in DOMAIN jobs' : jobs'[i] \in Job
    BY LenProperties, ElementOfSeq DEF Tables
  <2> QED BY <2>1, <2>2 DEF Noted, Job
<1>8. Noted(j) + a <= moved["deposit"][j]
  BY <1>2 DEF Deposits
<1>9. Noted(j)' + p + moved["deposit"][j] <= Noted(j) + o + moved'["deposit"][j]
  BY <1>3, <1>4
<1> QED BY <1>5, <1>6, <1>7, <1>8, <1>9

\* A step that notes no deposit, and owes none after.
LEMMA DepositsAlone ==
  ASSUME Tables, Tables', Deposits, Grows, NEW t \in Tx, NEW x, tx' = [tx EXCEPT ![t] = x],
         \A j \in Id : Noted(j)' = Noted(j),
         x.pc # "note" \/ x.req.op # "deposit"
  PROVE  Deposits'
<1> SUFFICES ASSUME NEW j \in Id
             PROVE  Noted(j)' + Owing(x, j) + moved["deposit"][j]
                          <= Noted(j) + Owing(tx[t], j) + moved'["deposit"][j]
  BY DepositsKept
<1>1. Owing(x, j) = 0
  BY DEF Owing
<1>2. PICK o \in Nat : o = Owing(tx[t], j)
  BY OwingNat DEF Tables
<1>3. moved["deposit"][j] \in Nat /\ moved'["deposit"][j] \in Nat /\ moved["deposit"][j] <= moved'["deposit"][j]
  BY DEF Tables, Movements, Grows
<1>4. Noted(j) \in Nat /\ Noted(j)' = Noted(j)
  BY Entries DEF Noted, Job
<1> QED BY <1>1, <1>2, <1>3, <1>4

\* A step that moves and books nothing for a repairer, nor notes it.
LEMMA RepairersKept ==
  ASSUME Repairers, \A j \in Id : Paid(j)' = Paid(j),
         moved'["repairer"] = moved["repairer"], booked'["repairer"] = booked["repairer"]
  PROVE  Repairers'
BY DEF Repairers

\* A step that collects nothing.
LEMMA CollectedKept ==
  ASSUME Collected, Grows,
         \A j \in DOMAIN jobs' : jobs'[j].status = "collected" =>
             j \in DOMAIN jobs /\ jobs[j].status = "collected" /\ jobs'[j].sale = jobs[j].sale
  PROVE  Collected'
BY DEF Collected, Grows

\* A step that reverses nothing.
LEMMA ReversedKept ==
  ASSUME Tables, Tables', Reversed, Grows,
         \A p \in DOMAIN prints' : prints'[p].reversed => p \in DOMAIN prints /\ prints[p].reversed
  PROVE  Reversed'
<1> SUFFICES ASSUME NEW p \in DOMAIN prints', prints'[p].reversed
             PROVE  /\ moved'["reversal"][p] >= prints'[p].total
                    /\ booked'["reversal"][p] >= prints'[p].total
  BY DEF Reversed
<1>1. p \in DOMAIN prints /\ p \in Id /\ prints'[p].total = prints[p].total
  BY RowsNumbered DEF Grows
<1>2. moved["reversal"][p] >= prints[p].total /\ booked["reversal"][p] >= prints[p].total
  BY <1>1 DEF Reversed
<1>3. /\ moved'["reversal"][p] \in Nat /\ moved["reversal"][p] \in Nat
      /\ booked'["reversal"][p] \in Nat /\ booked["reversal"][p] \in Nat
      /\ prints[p].total \in Nat
  BY <1>1, Entries DEF Tables, Movements, PrintRow
<1>4. moved'["reversal"][p] >= moved["reversal"][p] /\ booked'["reversal"][p] >= booked["reversal"][p]
  BY <1>1 DEF Grows, Movements
<1> QED BY <1>1, <1>2, <1>3, <1>4

\* A step that pays out no labour.
LEMMA LaboursKept ==
  ASSUME Tables, Tables', Labours, Grows, payouts' = payouts
  PROVE  Labours'
<1> SUFFICES ASSUME NEW i \in DOMAIN payouts
             PROVE  /\ payouts[i].job \in DOMAIN prints'
                    /\ payouts[i].till # None => moved'["labour"][payouts[i].job] >= payouts[i].amount
  BY DEF Labours
<1>1. payouts[i].job \in DOMAIN prints /\ payouts[i].job \in Id
  BY RowsNumbered DEF Labours
<1>2. moved["labour"][payouts[i].job] \in Nat /\ moved'["labour"][payouts[i].job] \in Nat /\ payouts[i].amount \in Nat
  BY <1>1, Entries DEF Tables, Movements, Payout
<1>3. moved'["labour"][payouts[i].job] >= moved["labour"][payouts[i].job]
  BY <1>1 DEF Grows, Movements
<1>4. payouts[i].till # None => moved["labour"][payouts[i].job] >= payouts[i].amount
  BY DEF Labours
<1> QED BY <1>1, <1>2, <1>3, <1>4 DEF Grows

\* A step that sells nothing and takes no part back.
LEMMA SalesKept ==
  ASSUME Tables, Tables', Sold, CollectionCovered, Grows, sales' = sales, owed' = owed
  PROVE  Sold' /\ CollectionCovered'
<1>1. Sold'
  BY DEF Sold, Grows
<1>2. ASSUME NEW i \in DOMAIN sales
      PROVE  Covered(sales[i]) = sales[i].total + sales[i].change /\ sales[i].wallet <= moved'["deposit"][sales[i].job]
  <2>1. sales[i].job \in Id /\ sales[i].wallet \in Nat
    BY <1>2, Entries DEF Sale
  <2>2. moved["deposit"][sales[i].job] \in Nat /\ moved'["deposit"][sales[i].job] \in Nat
        /\ moved'["deposit"][sales[i].job] >= moved["deposit"][sales[i].job]
    BY <2>1 DEF Tables, Movements, Grows
  <2>3. /\ Covered(sales[i]) = sales[i].total + sales[i].change
        /\ sales[i].wallet <= moved["deposit"][sales[i].job]
    BY <1>2 DEF CollectionCovered
  <2> QED BY <2>1, <2>2, <2>3
<1>3. CollectionCovered'
  BY <1>2 DEF CollectionCovered
<1> QED BY <1>1, <1>3

\* A step that settles nothing.
LEMMA SettledKept ==
  ASSUME SettledOnce, Labours, payouts' = payouts,
         \A p \in DOMAIN prints' : IF p \in DOMAIN prints
              THEN prints'[p].payout = prints[p].payout /\ prints'[p].labour = prints[p].labour
              ELSE prints'[p].payout = 0
  PROVE  SettledOnce'
<1> SUFFICES ASSUME NEW p \in DOMAIN prints'
             PROVE  LET S == {i \in DOMAIN payouts : payouts[i].job = p} IN
                    IF prints'[p].payout = 0 THEN S = {}
                    ELSE S = {prints'[p].payout} /\ payouts[prints'[p].payout].amount = prints'[p].labour
  BY DEF SettledOnce
<1>1. CASE p \in DOMAIN prints
  BY <1>1 DEF SettledOnce
<1>2. CASE p \notin DOMAIN prints
  BY <1>2 DEF Labours
<1> QED BY <1>1, <1>2

-----------------------------------------------------------------------------
(***************************************************************************)
(* Where a step leaves the request that takes it.                          *)
(***************************************************************************)
\* After a commit, the request is at its next step, or idle.
LEMMA CommitTo ==
  ASSUME Tables, NEW t \in Tx, NEW pc \in Pcs, Commit(t, pc)
  PROVE  \E x \in TxState : /\ tx' = [tx EXCEPT ![t] = x]
                            /\ pc = "done" => x.pc = "idle"
                            /\ pc # "done" => /\ x.pc = pc /\ x.req = tx[t].req
                                              /\ x.seen = tx[t].seen /\ x.got = tx[t].got
<1>1. CASE pc = "done"
  BY <1>1, IdleFacts DEF Commit
<1>2. CASE pc # "done"
  <2>1. PICK x : x = [tx[t] EXCEPT !.pc = pc, !.part = TRUE]
    OBVIOUS
  <2>2. tx[t] \in TxState
    BY DEF Tables
  <2>3. /\ x \in TxState /\ x.pc = pc /\ x.req = tx[t].req
        /\ x.seen = tx[t].seen /\ x.got = tx[t].got
    BY <2>1, <2>2 DEF TxState
  <2>4. tx' = [tx EXCEPT ![t] = x]
    BY <1>2, <2>1 DEF Commit
  <2> QED BY <1>2, <2>3, <2>4
<1> QED BY <1>1, <1>2

\* After a read, it is at its next step with what it has read.
LEMMA ReadTo ==
  ASSUME Tables, NEW t \in Tx, NEW pc \in Pcs, NEW j \in Job, NEW n \in Nat, Read(t, pc, j, n)
  PROVE  \E x \in TxState : /\ tx' = [tx EXCEPT ![t] = x]
                            /\ x.pc = pc /\ x.req = tx[t].req /\ x.seen = j /\ x.got = n
<1>1. PICK x : x = [tx[t] EXCEPT !.pc = pc, !.seen = j, !.got = n]
  OBVIOUS
<1>2. tx[t] \in TxState
  BY DEF Tables
<1>3. x \in TxState /\ x.pc = pc /\ x.req = tx[t].req /\ x.seen = j /\ x.got = n
  BY <1>1, <1>2 DEF TxState
<1>4. tx' = [tx EXCEPT ![t] = x]
  BY <1>1 DEF Read
<1> QED BY <1>3, <1>4

\* A refused request has nothing left to do.
LEMMA RefuseTo ==
  ASSUME Tables, NEW t \in Tx, Refuse(t)
  PROVE  \E x \in TxState : tx' = [tx EXCEPT ![t] = x] /\ x.pc = "refused"
<1>1. PICK x : x = [Idle EXCEPT !.pc = "refused"]
  OBVIOUS
<1>2. x \in TxState /\ x.pc = "refused"
  BY <1>1, IdleFacts DEF TxState, Pcs
<1> QED BY <1>1, <1>2 DEF Refuse

\* A request that has ended has nothing to answer for.
LEMMA EndedFits ==
  ASSUME Tables, NEW t \in Tx, NEW x \in TxState, tx' = [tx EXCEPT ![t] = x], x.pc \in {"idle", "refused"}
  PROVE  Asked(t)' /\ Doing(t)'
<1>1. tx'[t] = x
  BY DEF Tables
<1>2. Asked(t)'
  BY <1>1 DEF Asked, Ended
<1>3. Doing(t)'
  BY <1>1 DEF Doing
<1> QED BY <1>2, <1>3

\* The invariant after a step, from its parts and the request that stepped.
LEMMA Assemble ==
  ASSUME JobsInv, NEW t \in Tx, NEW x, tx' = [tx EXCEPT ![t] = x], Tables', Grows,
         Asked(t)' /\ Doing(t)',
         Deposits' /\ Repairers' /\ Collected' /\ Reversed' /\ Labours',
         Sold' /\ SettledOnce' /\ CollectionCovered'
  PROVE  JobsInv'
<1>1. ASSUME NEW u \in Tx PROVE Asked(u)' /\ Doing(u)'
  <2>1. CASE u = t
    BY <2>1
  <2>2. CASE u # t
    <3>1. Tables /\ Asked(u) /\ Doing(u)
      BY DEF JobsInv
    <3> QED BY <2>2, <3>1, OthersKept
  <2> QED BY <2>1, <2>2
<1> QED BY <1>1 DEF JobsInv

\* A step that leaves the books alone.
LEMMA Still ==
  ASSUME JobsInv, NEW t \in Tx, NEW x \in TxState, tx' = [tx EXCEPT ![t] = x],
         UNCHANGED books, price' \in Nat, today' \in Nat,
         x.pc # "note" \/ x.req.op # "deposit", Asked(t)' /\ Doing(t)'
  PROVE  JobsInv'
<1> USE DEF books
<1>1. Tables /\ Tables'
  BY DEF JobsInv, Tables
<1>2. Grows
  BY <1>1, Entries DEF Grows
<1>3. Deposits'
  BY <1>1, <1>2, DepositsAlone DEF JobsInv, Noted
<1>4. Repairers'
  BY RepairersKept DEF JobsInv, Paid
<1>5. Collected' /\ Reversed'
  BY DEF JobsInv, Collected, Reversed
<1>6. Labours' /\ SettledOnce'
  BY DEF JobsInv, Labours, SettledOnce
<1>7. Sold' /\ CollectionCovered'
  BY <1>1, <1>2, SalesKept DEF JobsInv
<1> QED BY <1>1, <1>2, <1>3, <1>4, <1>5, <1>6, <1>7, Assemble

\* A step of the world outside the requests.
LEMMA OutsideKept ==
  ASSUME JobsInv, UNCHANGED <<books, tx>>, price' \in Nat, today' \in Nat
  PROVE  JobsInv'
<1> USE DEF books
<1>1. Tables'
  BY DEF JobsInv, Tables
<1>2. \A t \in Tx : Asked(t)' /\ Doing(t)'
  BY DEF JobsInv, Asked, Doing, JobExists, Ended, At
<1>3. Deposits' /\ Repairers'
  BY DEF JobsInv, Deposits, Repairers, Pending, Noted, Paid
<1>4. Collected' /\ Reversed' /\ Labours' /\ SettledOnce'
  BY DEF JobsInv, Collected, Reversed, Labours, SettledOnce
<1>5. Sold' /\ CollectionCovered'
  BY DEF JobsInv, Sold, CollectionCovered
<1> QED BY <1>1, <1>2, <1>3, <1>4, <1>5 DEF JobsInv

-----------------------------------------------------------------------------
(***************************************************************************)
(* Steps that every request may take.                                      *)
(***************************************************************************)
\* A refusal.
LEMMA RefuseKeeps ==
  ASSUME JobsInv, NEW t \in Tx, Refuse(t), UNCHANGED outside
  PROVE  JobsInv'
<1>1. Tables
  BY DEF JobsInv
<1>2. PICK x \in TxState : tx' = [tx EXCEPT ![t] = x] /\ x.pc = "refused"
  BY <1>1, RefuseTo
<1>3. Asked(t)' /\ Doing(t)'
  BY <1>1, <1>2, EndedFits
<1>4. UNCHANGED books /\ price' \in Nat /\ today' \in Nat
  BY <1>1 DEF Refuse, outside, Tables
<1> QED BY <1>2, <1>3, <1>4, Still

\* A request that is cut off.
LEMMA CancelledKeeps ==
  ASSUME JobsInv, NEW t \in Tx, Cancelled(t)
  PROVE  JobsInv'
<1>1. Tables
  BY DEF JobsInv
<1>2. Idle \in TxState /\ Idle.pc = "idle" /\ tx' = [tx EXCEPT ![t] = Idle]
  BY IdleFacts DEF Cancelled
<1>3. Asked(t)' /\ Doing(t)'
  BY <1>1, <1>2, EndedFits
<1>4. UNCHANGED books /\ price' \in Nat /\ today' \in Nat
  BY <1>1 DEF Cancelled, Tables
<1> QED BY <1>2, <1>3, <1>4, Still

\* A request that arrives.
LEMMA BeginKeeps ==
  ASSUME JobsInv, NEW t \in Tx, NEW r \in Desk[t], JobExists(t, r), Begin(t, r)
  PROVE  JobsInv'
<1>1. Tables
  BY DEF JobsInv
<1>2. r \in Request
  BY JobsAssumption
<1>3. PICK x : x = [Idle EXCEPT !.pc = "begin", !.req = r]
  OBVIOUS
<1>4. x \in TxState /\ x.pc = "begin" /\ x.req = r
  BY <1>2, <1>3, IdleFacts DEF TxState, Pcs
<1>5. tx' = [tx EXCEPT ![t] = x] /\ tx'[t] = x
  BY <1>1, <1>3 DEF Begin, Tables
<1>6. UNCHANGED books /\ price' \in Nat /\ today' \in Nat
  BY <1>1 DEF Begin, Tables
<1>7. Asked(t)'
  BY <1>4, <1>5, <1>6 DEF Asked, JobExists, books
<1>8. Doing(t)'
  BY <1>4, <1>5 DEF Doing
<1> QED BY <1>4, <1>5, <1>6, <1>7, <1>8, Still

\* A request that reads and goes on.
LEMMA ReadKeeps ==
  ASSUME JobsInv, NEW t \in Tx, NEW pc \in Pcs, NEW j \in Job, NEW n \in Nat, Read(t, pc, j, n),
         UNCHANGED outside, pc # "note", Asked(t)', Doing(t)'
  PROVE  JobsInv'
<1>1. Tables
  BY DEF JobsInv
<1>2. PICK x \in TxState : tx' = [tx EXCEPT ![t] = x] /\ x.pc = pc
  BY <1>1, ReadTo
<1>3. UNCHANGED books /\ price' \in Nat /\ today' \in Nat
  BY <1>1 DEF Read, outside, Tables
<1> QED BY <1>2, <1>3, Still

-----------------------------------------------------------------------------
(***************************************************************************)
(* Repairs: the job card.                                                  *)
(***************************************************************************)
\* One row of a job: its money is what it was, or what the request owed it, and it
\* is collected only with its sale.
LEMMA NoteKeeps ==
  ASSUME JobsInv, NEW t \in Tx, J(t) \in DOMAIN jobs, NEW j \in Job, Note(t, j),
         j.paid = jobs[J(t)].paid, j.dep <= jobs[J(t)].dep + Owing(tx[t], J(t)),
         j.status = "collected" => j.sale \in DOMAIN sales /\ sales[j.sale].job = J(t)
  PROVE  JobsInv'
<1> DEFINE id == J(t)
<1> USE DEF printed, cash, outside
<1>1. Tables
  BY DEF JobsInv
<1>2. PICK x \in TxState : tx' = [tx EXCEPT ![t] = x] /\ x.pc = "idle"
  BY <1>1, CommitTo DEF Note, Pcs
<1>3. /\ jobs' \in Seq(Job) /\ Len(jobs') = Len(jobs) /\ DOMAIN jobs' = DOMAIN jobs
      /\ \A i \in DOMAIN jobs : jobs'[i] = IF i = id THEN j ELSE jobs[i]
  <2>1. jobs' = [jobs EXCEPT ![id] = j] /\ DOMAIN jobs = 1 .. Len(jobs)
    BY <1>1, LenProperties DEF Note, Tables
  <2> QED BY <1>1, <2>1, ExceptSeq, LenProperties DEF Tables
<1>4. /\ sales' = sales /\ prints' = prints /\ payouts' = payouts /\ money' = money
      /\ moved' = moved /\ booked' = booked /\ owed' = owed
  BY DEF Note
<1>5. Tables'
  <2>1. parts' = parts /\ paper' = paper /\ price' = price /\ today' = today
    BY DEF Note
  <2>2. tx' \in [Tx -> TxState]
    BY <1>1, <1>2 DEF Tables
  <2> QED BY <1>1, <1>3, <1>4, <2>1, <2>2 DEF Tables
<1>6. Grows
  BY <1>1, <1>3, <1>4, Entries DEF Grows
<1>7. Asked(t)' /\ Doing(t)'
  BY <1>1, <1>2, EndedFits
<1>8. Deposits'
  <2> SUFFICES ASSUME NEW i \in Id
               PROVE  Noted(i)' + Owing(x, i) + moved["deposit"][i]
                          <= Noted(i) + Owing(tx[t], i) + moved'["deposit"][i]
    BY <1>1, <1>2, <1>5, DepositsKept DEF JobsInv
  <2>1. Owing(x, i) = 0
    BY <1>2 DEF Owing
  <2>2. PICK o \in Nat : o = Owing(tx[t], i)
    BY <1>1, OwingNat DEF Tables
  <2>3. moved'["deposit"][i] = moved["deposit"][i] /\ moved["deposit"][i] \in Nat
    BY <1>1, <1>4 DEF Tables, Movements
  <2>4. CASE i = id
    <3>1. Noted(i) = jobs[id].dep /\ Noted(i)' = j.dep /\ jobs[id].dep \in Nat /\ j.dep \in Nat
      BY <1>1, <1>3, <2>4, Entries DEF Noted, Job
    <3>2. j.dep <= jobs[id].dep + o
      BY <2>2, <2>4
    <3> QED BY <2>1, <2>2, <2>3, <3>1, <3>2
  <2>5. CASE i # id
    <3>1. Noted(i)' = Noted(i) /\ Noted(i) \in Nat
      BY <1>1, <1>3, <2>5, Entries DEF Noted, Job
    <3> QED BY <2>1, <2>2, <2>3, <3>1
  <2> QED BY <2>4, <2>5
<1>9. Repairers'
  <2>1. \A i \in Id : Paid(i)' = Paid(i)
    BY <1>3 DEF Paid
  <2> QED BY <1>4, <2>1, RepairersKept DEF JobsInv
<1>10. Collected'
  BY <1>3, <1>4 DEF JobsInv, Collected
<1>11. Reversed' /\ Labours' /\ SettledOnce'
  BY <1>4 DEF JobsInv, Reversed, Labours, SettledOnce
<1>12. Sold' /\ CollectionCovered'
  BY <1>1, <1>4, <1>5, <1>6, SalesKept DEF JobsInv
<1> QED BY <1>2, <1>5, <1>6, <1>7, <1>8, <1>9, <1>10, <1>11, <1>12, Assemble

\* A new job, on which nothing is paid yet.
LEMMA InsertJobKeeps ==
  ASSUME JobsInv, NEW t \in Tx, NEW j \in Job, InsertJob(t, j), j.dep = 0, j.paid = 0,
         j.status # "collected"
  PROVE  JobsInv'
<1> DEFINE id == Len(jobs) + 1
<1> USE DEF printed, cash, outside
<1>1. Tables
  BY DEF JobsInv
<1>2. PICK x \in TxState : tx' = [tx EXCEPT ![t] = x] /\ x.pc = "idle"
  BY <1>1, CommitTo DEF InsertJob, Pcs
<1>3. Len(jobs) \in Nat /\ DOMAIN jobs = 1 .. Len(jobs) /\ MaxJob \in Nat
  BY <1>1, LenProperties, JobsAssumption DEF Tables
<1>4. /\ jobs' \in Seq(Job) /\ Len(jobs') = id /\ id \notin DOMAIN jobs
      /\ DOMAIN jobs' = DOMAIN jobs \cup {id}
      /\ \A i \in DOMAIN jobs' : jobs'[i] = IF i = id THEN j ELSE jobs[i]
  <2>1. jobs' = Append(jobs, j)
    BY DEF InsertJob
  <2>2. jobs' \in Seq(Job) /\ Len(jobs') = id
    BY <1>1, <2>1, AppendProperties DEF Tables
  <2>3. DOMAIN jobs' = 1 .. id
    BY <2>2, LenProperties
  <2>4. \A i \in 1 .. id : jobs'[i] = IF i = id THEN j ELSE jobs[i]
    BY <1>1, <1>3, <2>1, AppendProperties DEF Tables
  <2> QED BY <1>3, <2>2, <2>3, <2>4
<1>5. /\ sales' = sales /\ prints' = prints /\ payouts' = payouts /\ money' = money
      /\ moved' = moved /\ booked' = booked /\ owed' = owed
  BY DEF InsertJob
<1>6. Tables'
  <2>1. parts' = parts /\ paper' = paper /\ price' = price /\ today' = today
    BY DEF InsertJob
  <2>2. tx' \in [Tx -> TxState]
    BY <1>1, <1>2 DEF Tables
  <2>3. Len(jobs') <= MaxJob
    BY <1>3, <1>4 DEF InsertJob
  <2> QED BY <1>1, <1>4, <1>5, <2>1, <2>2, <2>3 DEF Tables
<1>7. Grows
  BY <1>1, <1>4, <1>5, Entries DEF Grows
<1>8. Asked(t)' /\ Doing(t)'
  BY <1>1, <1>2, EndedFits
<1>9. \A i \in Id : Noted(i)' = Noted(i) /\ Paid(i)' = Paid(i)
  BY <1>4 DEF Noted, Paid
<1>10. Deposits' /\ Repairers'
  BY <1>1, <1>2, <1>5, <1>6, <1>7, <1>9, DepositsAlone, RepairersKept DEF JobsInv
<1>11. Collected'
  BY <1>4, <1>7, CollectedKept DEF JobsInv
<1>12. Reversed' /\ Labours' /\ SettledOnce'
  BY <1>5 DEF JobsInv, Reversed, Labours, SettledOnce
<1>13. Sold' /\ CollectionCovered'
  BY <1>1, <1>5, <1>6, <1>7, SalesKept DEF JobsInv
<1> QED BY <1>2, <1>6, <1>7, <1>8, <1>10, <1>11, <1>12, <1>13, Assemble

\* The repair a request works on.
LEMMA JobOf ==
  ASSUME JobsInv, NEW t \in Tx, ~Ended(t), R(t).op \in RepairOps \ {"new"}
  PROVE  J(t) \in DOMAIN jobs /\ J(t) \in Id /\ jobs[J(t)] \in Job
<1>1. Tables /\ Asked(t)
  BY DEF JobsInv
<1>2. R(t) \in Request /\ JobExists(1, R(t))
  BY <1>1, Entries DEF Asked, JobExists, R
<1>3. J(t) \in DOMAIN jobs /\ J(t) \in Id
  BY <1>1, <1>2, JobThere DEF J
<1> QED BY <1>1, <1>3, Entries

\* The print job a request works on.
LEMMA PrintOf ==
  ASSUME JobsInv, NEW t \in Tx, ~Ended(t), R(t).op \in {"reverse", "pay", "dismiss"}
  PROVE  P(t) \in DOMAIN prints /\ P(t) \in Id /\ prints[P(t)] \in PrintRow
<1>1. Tables /\ Asked(t)
  BY DEF JobsInv
<1>2. R(t) \in Request /\ JobExists(1, R(t))
  BY <1>1, Entries DEF Asked, JobExists, R
<1>3. P(t) \in DOMAIN prints /\ P(t) \in Id
  BY <1>1, <1>2, JobThere DEF P
<1> QED BY <1>1, <1>3, Entries

\* A change of the card that leaves its money, its sale and its status.
LEMMA CardKeeps ==
  ASSUME JobsInv, NEW t \in Tx, ~Ended(t), R(t).op \in RepairOps \ {"new"}, NEW j \in Job, Note(t, j),
         j.paid = jobs[J(t)].paid, j.dep = jobs[J(t)].dep, j.sale = jobs[J(t)].sale,
         j.status = "collected" => jobs[J(t)].status = "collected"
  PROVE  JobsInv'
<1>1. J(t) \in DOMAIN jobs /\ jobs[J(t)] \in Job
  BY JobOf
<1>2. PICK o \in Nat : o = Owing(tx[t], J(t))
  BY OwingNat DEF JobsInv, Tables
<1>3. j.dep <= jobs[J(t)].dep + Owing(tx[t], J(t))
  BY <1>1, <1>2 DEF Job
<1>4. j.status = "collected" => j.sale \in DOMAIN sales /\ sales[j.sale].job = J(t)
  BY <1>1 DEF JobsInv, Collected
<1> QED BY <1>1, <1>3, <1>4, NoteKeeps

\* The actions on the card.
LEMMA EditKeeps ==
  ASSUME JobsInv, NEW t \in Tx,
         UpdateJobFields(t) \/ SetStatus(t) \/ AddPart(t) \/ AddCharge(t) \/ RemovePart(t) \/ RemoveCharge(t)
  PROVE  JobsInv'
<1> DEFINE old == jobs[J(t)]
<1>1. ~Ended(t) /\ R(t).op \in RepairOps \ {"new"} /\ R(t).op # "collect"
  BY DEF UpdateJobFields, SetStatus, AddPart, AddCharge, RemovePart, RemoveCharge, Asks, At, Ended, RepairOps
<1>2. old \in Job /\ price \in Nat
  BY <1>1, JobOf DEF JobsInv, Tables
<1>3. R(t) \in Request /\ R(t).n \in Nat
  BY <1>1, Entries, Requests DEF JobsInv, R
<1>4. CASE UpdateJobFields(t)
  <2>1. PICK j : j = [old EXCEPT !.customer = (R(t).mode = "customer"), !.days = R(t).n]
    OBVIOUS
  <2>2. /\ j \in Job /\ j.paid = old.paid /\ j.dep = old.dep /\ j.sale = old.sale /\ j.status = old.status
        /\ Note(t, j)
    BY <1>2, <1>3, <1>4, <2>1 DEF UpdateJobFields, Job
  <2> QED BY <1>1, <2>2, CardKeeps
<1>5. CASE SetStatus(t)
  <2>1. PICK j : j = [old EXCEPT !.status = R(t).mode]
    OBVIOUS
  <2>2. R(t).mode \in Open
    BY <1>3, <1>5, JobsAssumption DEF SetStatus, Asks
  <2>3. /\ j \in Job /\ j.paid = old.paid /\ j.dep = old.dep /\ j.sale = old.sale /\ j.status # "collected"
        /\ Note(t, j)
    BY <1>2, <1>5, <2>1, <2>2 DEF SetStatus, Job, Statuses, Open
  <2> QED BY <1>1, <2>3, CardKeeps
<1>6. CASE AddPart(t)
  <2>1. PICK j : j = [old EXCEPT !.parts = Append(@, price)]
    OBVIOUS
  <2>2. Append(old.parts, price) \in Seq(Nat)
    BY <1>2, AppendProperties DEF Job
  <2>3. /\ j \in Job /\ j.paid = old.paid /\ j.dep = old.dep /\ j.sale = old.sale /\ j.status = old.status
        /\ Note(t, j)
    BY <1>2, <1>6, <2>1, <2>2 DEF AddPart, Job
  <2> QED BY <1>1, <2>3, CardKeeps
<1>7. CASE AddCharge(t)
  <2>1. PICK j : j = [old EXCEPT !.charges = Append(@, R(t).n)]
    OBVIOUS
  <2>2. Append(old.charges, R(t).n) \in Seq(Nat)
    BY <1>2, <1>3, AppendProperties DEF Job
  <2>3. /\ j \in Job /\ j.paid = old.paid /\ j.dep = old.dep /\ j.sale = old.sale /\ j.status = old.status
        /\ Note(t, j)
    BY <1>2, <1>7, <2>1, <2>2 DEF AddCharge, Job
  <2> QED BY <1>1, <2>3, CardKeeps
<1>8. CASE RemovePart(t)
  <2>1. PICK s \in Removed(old.parts) : Note(t, [old EXCEPT !.parts = s])
    BY <1>8 DEF RemovePart
  <2>2. s \in Seq(Nat)
    BY <1>2, RemovedAmounts DEF Job
  <2>3. PICK j : j = [old EXCEPT !.parts = s]
    OBVIOUS
  <2>4. /\ j \in Job /\ j.paid = old.paid /\ j.dep = old.dep /\ j.sale = old.sale /\ j.status = old.status
        /\ Note(t, j)
    BY <1>2, <2>1, <2>2, <2>3 DEF Job
  <2> QED BY <1>1, <2>4, CardKeeps
<1>9. CASE RemoveCharge(t)
  <2>1. PICK s \in Removed(old.charges) : Note(t, [old EXCEPT !.charges = s])
    BY <1>9 DEF RemoveCharge
  <2>2. s \in Seq(Nat)
    BY <1>2, RemovedAmounts DEF Job
  <2>3. PICK j : j = [old EXCEPT !.charges = s]
    OBVIOUS
  <2>4. /\ j \in Job /\ j.paid = old.paid /\ j.dep = old.dep /\ j.sale = old.sale /\ j.status = old.status
        /\ Note(t, j)
    BY <1>2, <2>1, <2>2, <2>3 DEF Job
  <2> QED BY <1>1, <2>4, CardKeeps
<1> QED BY <1>4, <1>5, <1>6, <1>7, <1>8, <1>9

\* A new job.
LEMMA CreateKeeps ==
  ASSUME JobsInv, NEW t \in Tx, Create(t)
  PROVE  JobsInv'
<1>1. R(t) \in Request /\ R(t).n \in Nat
  BY Entries, Requests DEF JobsInv, R, Create, Asks
<1>2. PICK j : j = Input(R(t))
  OBVIOUS
<1>3. NoJob \in Job
  BY IdleFacts DEF TxState, Idle
<1>4. j \in Job /\ j.dep = 0 /\ j.paid = 0 /\ j.status = "received"
  BY <1>1, <1>2, <1>3 DEF Input, NoJob, Job, Statuses, Open
<1> QED BY <1>2, <1>4, InsertJobKeeps DEF Create

\* A cancelled job.
LEMMA CancelKeeps ==
  ASSUME JobsInv, NEW t \in Tx, Cancel(t)
  PROVE  JobsInv'
<1> DEFINE old == jobs[J(t)]
<1>1. Tables /\ Asked(t) /\ NoJob \in Job
  BY IdleFacts DEF JobsInv, TxState, Idle
<1>2. CASE Asks(t, "cancel") /\ old.status # "collected" /\ Read(t, "set", NoJob, 0) /\ UNCHANGED outside
  <2>1. PICK x \in TxState : /\ tx' = [tx EXCEPT ![t] = x]
                             /\ x.pc = "set" /\ x.req = R(t)
    BY <1>1, <1>2, ReadTo DEF Pcs, R
  <2>2. tx'[t] = x
    BY <1>1, <2>1 DEF Tables
  <2>3. Asked(t)'
    BY <1>1, <1>2, <2>1, <2>2 DEF Asked, JobExists, Ended, At, Asks, R, Read, books
  <2>4. Doing(t)'
    BY <2>1, <2>2 DEF Doing
  <2> QED BY <1>1, <1>2, <2>3, <2>4, ReadKeeps DEF Pcs
<1>3. CASE Asks(t, "cancel") /\ Refuse(t) /\ UNCHANGED outside
  BY <1>3, RefuseKeeps
<1>4. CASE At(t, "set") /\ Note(t, [old EXCEPT !.status = "cancelled"])
  <2>1. ~Ended(t) /\ R(t).op = "cancel"
    BY <1>1, <1>4 DEF Asked, At, Ended, R
  <2>2. old \in Job
    BY <2>1, JobOf DEF RepairOps
  <2>3. PICK j : j = [old EXCEPT !.status = "cancelled"]
    OBVIOUS
  <2>4. j \in Job /\ j.paid = old.paid /\ j.dep = old.dep /\ j.sale = old.sale /\ j.status # "collected"
    BY <2>2, <2>3 DEF Job, Statuses
  <2> QED BY <1>4, <2>1, <2>3, <2>4, CardKeeps DEF RepairOps
<1> QED BY <1>2, <1>3, <1>4 DEF Cancel

-----------------------------------------------------------------------------
(***************************************************************************)
(* Repairs: deposits and the outside repairer.                             *)
(***************************************************************************)
\* A deposit is paid in before it is noted: in between it is owed to the job.
LEMMA TakeDepositKeeps ==
  ASSUME JobsInv, NEW t \in Tx, TakeDeposit(t)
  PROVE  JobsInv'
<1> DEFINE id  == J(t)
           n   == R(t).n
           old == jobs[J(t)]
<1> USE DEF printed, cash, outside
<1>1. Tables /\ Asked(t)
  BY DEF JobsInv
<1>2. ~Ended(t) /\ R(t).op = "deposit"
  BY DEF TakeDeposit, Asks, At, Ended
<1>3. id \in DOMAIN jobs /\ id \in Id /\ old \in Job
  BY <1>2, JobOf DEF RepairOps
<1>4. R(t) \in Request /\ n \in Nat /\ R(t).till \in Till
  <2>1. R(t) \in Request
    BY <1>1, Entries DEF R
  <2> QED BY <1>2, <2>1, Requests, JobsAssumption
<1>5. CASE /\ Asks(t, "deposit") /\ PayIn(t, "deposit", n) /\ Commit(t, "note")
           /\ UNCHANGED <<jobs, sales, printed, booked, owed, parts, outside>>
  <2>1. PICK x \in TxState : tx' = [tx EXCEPT ![t] = x] /\ x.pc = "note" /\ x.req = R(t)
    BY <1>1, <1>5, CommitTo DEF Pcs, R
  <2>2. tx'[t] = x
    BY <1>1, <2>1 DEF Tables
  <2>3. moved' = [moved EXCEPT !["deposit"][id] = @ + n]
    BY <1>5 DEF PayIn, Moving, J
  <2>4. /\ moved' \in [Movements -> [Id -> Nat]]
        /\ moved'["deposit"][id] = moved["deposit"][id] + n
        /\ \A i \in Id : i # id => moved'["deposit"][i] = moved["deposit"][i]
        /\ moved'["repairer"] = moved["repairer"]
        /\ \A k \in Movements, i \in Id : moved'[k][i] >= moved[k][i]
    <3>1. moved \in [Movements -> [Id -> Nat]] /\ "deposit" \in Movements /\ "repairer" \in Movements
      BY <1>1 DEF Tables, Movements
    <3> QED BY <1>3, <1>4, <2>3, <3>1, Added
  <2>5. money' \in [Till -> Int]
    BY <1>1, <1>4, <1>5 DEF PayIn, Tables
  <2>6. Tables'
    BY <1>1, <1>5, <2>1, <2>4, <2>5 DEF Tables
  <2>7. Grows
    BY <1>1, <1>5, <2>4, Entries DEF Grows
  <2>8. Asked(t)'
    BY <1>1, <1>2, <1>5, <2>1, <2>2 DEF Asked, JobExists, Ended, At, R
  <2>9. Doing(t)'
    BY <2>1, <2>2 DEF Doing
  <2>10. Deposits'
    <3> SUFFICES ASSUME NEW i \in Id
                 PROVE  Noted(i)' + Owing(x, i) + moved["deposit"][i]
                            <= Noted(i) + Owing(tx[t], i) + moved'["deposit"][i]
      BY <1>1, <2>1, <2>6, DepositsKept DEF JobsInv
    <3>1. Noted(i)' = Noted(i) /\ Noted(i) \in Nat
      BY <1>1, <1>5, Entries DEF Noted, Job
    <3>2. Owing(x, i) = IF i = id THEN n ELSE 0
      BY <1>2, <2>1 DEF Owing, J
    <3>3. Owing(tx[t], i) = 0
      BY <1>5 DEF Owing, Asks, At
    <3>4. moved["deposit"][i] \in Nat
      BY <1>1 DEF Tables, Movements
    <3> QED BY <1>4, <2>4, <3>1, <3>2, <3>3, <3>4
  <2>11. Repairers'
    BY <1>5, <2>4, RepairersKept DEF JobsInv, Paid
  <2>12. Collected'
    BY <1>5 DEF JobsInv, Collected
  <2>13. Reversed' /\ Labours' /\ SettledOnce'
    <3>1. Reversed'
      BY <1>1, <1>5, <2>6, <2>7, ReversedKept DEF JobsInv
    <3>2. Labours' /\ SettledOnce'
      BY <1>1, <1>5, <2>6, <2>7, LaboursKept DEF JobsInv, SettledOnce
    <3> QED BY <3>1, <3>2
  <2>14. Sold' /\ CollectionCovered'
    BY <1>1, <1>5, <2>6, <2>7, SalesKept DEF JobsInv
  <2> QED BY <2>1, <2>6, <2>7, <2>8, <2>9, <2>10, <2>11, <2>12, <2>13, <2>14, Assemble
<1>6. CASE At(t, "note") /\ R(t).op = "deposit" /\ Note(t, [old EXCEPT !.dep = @ + n])
  <2>1. PICK j : j = [old EXCEPT !.dep = @ + n]
    OBVIOUS
  <2>2. j \in Job /\ j.paid = old.paid /\ j.dep = old.dep + n /\ j.sale = old.sale /\ j.status = old.status
    <3>1. PICK m \in Nat : m = old.dep + n
      BY <1>3, <1>4 DEF Job
    <3>2. j = [old EXCEPT !.dep = m]
      BY <2>1, <3>1
    <3> QED BY <1>3, <3>1, <3>2 DEF Job
  <2>3. Owing(tx[t], id) = n
    BY <1>6 DEF Owing, At, R, J
  <2>4. j.dep <= old.dep + Owing(tx[t], id)
    <3>1. PICK m \in Nat : m = old.dep + n
      BY <1>3, <1>4 DEF Job
    <3>2. j.dep = m /\ old.dep + Owing(tx[t], id) = m
      BY <2>2, <2>3, <3>1
    <3> QED BY <3>1, <3>2
  <2>5. j.status = "collected" => j.sale \in DOMAIN sales /\ sales[j.sale].job = id
    BY <1>3, <2>2 DEF JobsInv, Collected
  <2> QED BY <1>3, <1>6, <2>1, <2>2, <2>4, <2>5, NoteKeeps
<1> QED BY <1>5, <1>6 DEF TakeDeposit

\* A repairer is paid in one transaction: the till, the expense and the note.
LEMMA PayRepairerKeeps ==
  ASSUME JobsInv, NEW t \in Tx, PayRepairer(t)
  PROVE  JobsInv'
<1> DEFINE id  == J(t)
           n   == R(t).n
           old == jobs[J(t)]
<1> USE DEF printed, cash, outside
<1>1. Tables /\ Asked(t)
  BY DEF JobsInv
<1>2. ~Ended(t) /\ R(t).op = "repairer" /\ At(t, "begin")
  BY DEF PayRepairer, Asks, At, Ended
<1>3. id \in DOMAIN jobs /\ id \in Id /\ old \in Job
  BY <1>2, JobOf DEF RepairOps
<1>4. R(t) \in Request /\ n \in Nat /\ R(t).till \in Till
  <2>1. R(t) \in Request
    BY <1>1, Entries DEF R
  <2> QED BY <1>2, <2>1, Requests, JobsAssumption
<1>5. CASE Refuse(t) /\ UNCHANGED outside
  BY <1>5, RefuseKeeps
<1>6. CASE /\ Booking("repairer", id, n) /\ Withdraw(t, "repairer", n)
           /\ jobs' = [jobs EXCEPT ![id].paid = @ + n]
           /\ Commit(t, "done")
           /\ UNCHANGED <<sales, printed, owed, parts, outside>>
  <2>1. PICK x \in TxState : tx' = [tx EXCEPT ![t] = x] /\ x.pc = "idle"
    BY <1>1, <1>6, CommitTo DEF Pcs
  <2>2. PICK j : j = [old EXCEPT !.paid = @ + n]
    OBVIOUS
  <2>3. j \in Job /\ j.paid = old.paid + n /\ j.dep = old.dep /\ j.sale = old.sale /\ j.status = old.status
    <3>1. PICK m \in Nat : m = old.paid + n
      BY <1>3, <1>4 DEF Job
    <3>2. j = [old EXCEPT !.paid = m]
      BY <2>2, <3>1
    <3> QED BY <1>3, <3>1, <3>2 DEF Job
  <2>4. /\ jobs' \in Seq(Job) /\ Len(jobs') = Len(jobs) /\ DOMAIN jobs' = DOMAIN jobs
        /\ \A i \in DOMAIN jobs : jobs'[i] = IF i = id THEN j ELSE jobs[i]
    <3>1. jobs' = [jobs EXCEPT ![id] = j] /\ DOMAIN jobs = 1 .. Len(jobs)
      BY <1>1, <1>6, <2>2, LenProperties DEF Tables
    <3> QED BY <1>1, <1>3, <2>3, <3>1, ExceptSeq, LenProperties DEF Tables
  <2>5. moved' = [moved EXCEPT !["repairer"][id] = @ + n] /\ booked' = [booked EXCEPT !["repairer"][id] = @ + n]
    BY <1>6 DEF Withdraw, Moving, Booking, J
  <2>6. /\ moved' \in [Movements -> [Id -> Nat]]
        /\ moved'["repairer"][id] = moved["repairer"][id] + n
        /\ \A i \in Id : i # id => moved'["repairer"][i] = moved["repairer"][i]
        /\ \A k \in Movements, i \in Id : moved'[k][i] >= moved[k][i]
    <3>1. moved \in [Movements -> [Id -> Nat]] /\ "repairer" \in Movements
      BY <1>1 DEF Tables, Movements
    <3> QED BY <1>3, <1>4, <2>5, <3>1, Added
  <2>7. /\ booked' \in [Movements -> [Id -> Nat]]
        /\ booked'["repairer"][id] = booked["repairer"][id] + n
        /\ \A i \in Id : i # id => booked'["repairer"][i] = booked["repairer"][i]
        /\ \A k \in Movements, i \in Id : booked'[k][i] >= booked[k][i]
    <3>1. booked \in [Movements -> [Id -> Nat]] /\ "repairer" \in Movements
      BY <1>1 DEF Tables, Movements
    <3> QED BY <1>3, <1>4, <2>5, <3>1, Added
  <2>8. money' \in [Till -> Int]
    BY <1>1, <1>4, <1>6 DEF Withdraw, Tables
  <2>9. Tables'
    BY <1>1, <1>6, <2>1, <2>4, <2>6, <2>7, <2>8 DEF Tables
  <2>10. Grows
    BY <1>1, <1>6, <2>4, <2>6, <2>7, Entries DEF Grows
  <2>11. Asked(t)' /\ Doing(t)'
    BY <1>1, <2>1, EndedFits
  <2>12. \A i \in Id : Noted(i)' = Noted(i)
    BY <2>3, <2>4 DEF Noted
  <2>13. Deposits'
    BY <1>1, <2>1, <2>9, <2>10, <2>12, DepositsAlone DEF JobsInv
  <2>14. Repairers'
    <3> SUFFICES ASSUME NEW i \in Id
                 PROVE  Paid(i)' = moved'["repairer"][i] /\ Paid(i)' = booked'["repairer"][i]
      BY DEF Repairers
    <3>1. Paid(i) = moved["repairer"][i] /\ Paid(i) = booked["repairer"][i]
      BY DEF JobsInv, Repairers
    <3>2. CASE i = id
      <4>1. Paid(i) = old.paid /\ Paid(i)' = old.paid + n
        BY <1>3, <2>3, <2>4, <3>2 DEF Paid
      <4> QED BY <2>6, <2>7, <3>1, <3>2, <4>1
    <3>3. CASE i # id
      BY <2>4, <2>6, <2>7, <3>1, <3>3 DEF Paid
    <3> QED BY <3>2, <3>3
  <2>15. Collected'
    <3>1. \A i \in DOMAIN jobs' : jobs'[i].status = "collected" =>
              i \in DOMAIN jobs /\ jobs[i].status = "collected" /\ jobs'[i].sale = jobs[i].sale
      BY <2>3, <2>4
    <3> QED BY <2>10, <3>1, CollectedKept DEF JobsInv
  <2>16. Reversed' /\ Labours' /\ SettledOnce'
    <3>1. Reversed'
      BY <1>1, <1>6, <2>9, <2>10, ReversedKept DEF JobsInv
    <3>2. Labours' /\ SettledOnce'
      BY <1>1, <1>6, <2>9, <2>10, LaboursKept DEF JobsInv, SettledOnce
    <3> QED BY <3>1, <3>2
  <2>17. Sold' /\ CollectionCovered'
    BY <1>1, <1>6, <2>9, <2>10, SalesKept DEF JobsInv
  <2> QED BY <2>1, <2>9, <2>10, <2>11, <2>13, <2>14, <2>15, <2>16, <2>17, Assemble
<1> QED BY <1>5, <1>6 DEF PayRepairer

-----------------------------------------------------------------------------
(***************************************************************************)
(* Repairs: collection, and what may follow it.                            *)
(***************************************************************************)
\* What is noted as deposited on a job was paid in.
LEMMA NotedPaidIn ==
  ASSUME JobsInv, NEW j \in DOMAIN jobs
  PROVE  j \in Id /\ jobs[j].dep \in Nat /\ jobs[j].dep <= moved["deposit"][j]
<1>1. Tables
  BY DEF JobsInv
<1>2. j \in Id /\ jobs[j].dep \in Nat /\ moved["deposit"][j] \in Nat
  BY <1>1, RowsNumbered, Entries DEF Job, Movements
<1>3. PICK a : a = SumFunctionOnSet(Pending(j), Tx)
  OBVIOUS
<1>4. a \in Nat
  <2>1. IsFiniteSet(Tx)
    BY JobsAssumption
  <2>2. \A u \in Tx : Pending(j)[u] \in Nat
    BY <1>1, OwingNat DEF Pending, Tables
  <2> QED BY <1>3, <2>1, <2>2, SumNat
<1>5. Noted(j) + a <= moved["deposit"][j]
  BY <1>2, <1>3 DEF JobsInv, Deposits
<1> QED BY <1>2, <1>4, <1>5 DEF Noted

\* The job is read with a deposit that was paid in.
LEMMA CollectKeeps ==
  ASSUME JobsInv, NEW t \in Tx, Collect(t)
  PROVE  JobsInv'
<1> DEFINE old == jobs[J(t)]
<1>1. Tables /\ Asked(t)
  BY DEF JobsInv
<1>2. ~Ended(t) /\ R(t).op = "collect"
  BY DEF Collect, Asks, At, Ended
<1>3. J(t) \in DOMAIN jobs /\ old \in Job
  BY <1>2, JobOf DEF RepairOps
<1>4. CASE Refuse(t) /\ UNCHANGED outside
  BY <1>4, RefuseKeeps
<1>5. CASE Read(t, "ring", old, 0) /\ UNCHANGED outside
  <2>1. PICK x \in TxState : tx' = [tx EXCEPT ![t] = x] /\ x.pc = "ring" /\ x.req = R(t) /\ x.seen = old
    BY <1>1, <1>3, <1>5, ReadTo DEF Pcs, R
  <2>2. tx'[t] = x
    BY <1>1, <2>1 DEF Tables
  <2>3. Asked(t)'
    BY <1>1, <1>2, <1>5, <2>1, <2>2 DEF Asked, JobExists, Ended, At, R, Read, books
  <2>4. old.dep <= moved'["deposit"][x.req.of]
    BY <1>3, <1>5, <2>1, NotedPaidIn DEF Read, books, J
  <2>5. Doing(t)'
    BY <2>1, <2>2, <2>4 DEF Doing
  <2> QED BY <1>3, <1>5, <2>3, <2>5, ReadKeeps DEF Pcs
<1> QED BY <1>4, <1>5 DEF Collect

\* The sale of a collection: paid for in full, with no more deposit than was paid
\* in, and from then on the request knows it.
LEMMA RingKeeps ==
  ASSUME JobsInv, NEW t \in Tx, Ring(t)
  PROVE  JobsInv'
<1> DEFINE s  == CollectionSale(tx[t].seen, J(t), R(t))
           id == Len(sales) + 1
<1> USE DEF printed, cash, outside
<1>1. Tables /\ Asked(t) /\ Doing(t)
  BY DEF JobsInv
<1>2. ~Ended(t) /\ tx[t].pc = "ring" /\ R(t).op = "collect"
  BY <1>1 DEF Ring, Asked, At, Ended, R
<1>3. J(t) \in DOMAIN jobs /\ J(t) \in Id
  BY <1>2, JobOf DEF RepairOps
<1>4. R(t) \in Request /\ R(t).till \in Till
  <2>1. R(t) \in Request
    BY <1>1, Entries DEF R
  <2> QED BY <1>2, <2>1, JobsAssumption
<1>5. tx[t] \in TxState /\ tx[t].seen \in Job /\ tx[t].seen.dep \in Nat
  BY <1>1 DEF Tables, TxState, Job
<1>6. /\ s \in Sale /\ s.job = J(t) /\ s.wallet <= tx[t].seen.dep
      /\ CheckTender(s) => Covered(s) = s.total + s.change
  BY <1>1, <1>2, <1>3, <1>4, <1>5, CollectionFacts DEF Tables
<1>7. CASE Refuse(t) /\ UNCHANGED outside
  BY <1>7, RefuseKeeps
<1>8. CASE ~(s.units > parts \/ ~CheckTender(s)) /\ ~(Refuse(t) /\ UNCHANGED outside)
  <2>1. /\ sales' = Append(sales, s) /\ parts' = parts - s.units /\ owed' = owed + s.account
        /\ money' = [money EXCEPT ![R(t).till] = @ + (IF R(t).mode = "cash" THEN s.now ELSE 0) - s.change]
        /\ tx' = [tx EXCEPT ![t].pc = "mark", ![t].part = TRUE, ![t].got = Len(sales')]
        /\ UNCHANGED <<jobs, printed, moved, booked, outside>>
    BY <1>8 DEF Ring
  <2> HIDE DEF s
  <2>2. Len(sales) \in Nat /\ DOMAIN sales = 1 .. Len(sales)
    BY <1>1, LenProperties DEF Tables
  <2>3. /\ sales' \in Seq(Sale) /\ Len(sales') = id /\ id \notin DOMAIN sales
        /\ DOMAIN sales' = DOMAIN sales \cup {id}
        /\ \A i \in DOMAIN sales' : sales'[i] = IF i = id THEN s ELSE sales[i]
    <3>1. sales' \in Seq(Sale) /\ Len(sales') = id
      BY <1>1, <1>6, <2>1, AppendProperties DEF Tables
    <3>2. DOMAIN sales' = 1 .. id
      BY <3>1, LenProperties
    <3>3. \A i \in 1 .. id : sales'[i] = IF i = id THEN s ELSE sales[i]
      BY <1>1, <1>6, <2>1, <2>2, AppendProperties DEF Tables
    <3> QED BY <2>2, <3>1, <3>2, <3>3
  <2>4. PICK x : x = [tx[t] EXCEPT !.pc = "mark", !.part = TRUE, !.got = id]
    OBVIOUS
  <2>5. x \in TxState /\ x.pc = "mark" /\ x.got = id /\ x.req = R(t)
    <3>1. PICK q \in Nat : q = id
      BY <2>2
    <3>2. x = [tx[t] EXCEPT !.pc = "mark", !.part = TRUE, !.got = q]
      BY <2>4, <3>1
    <3> QED BY <1>5, <3>1, <3>2 DEF TxState, Pcs, R
  <2>6. tx' = [tx EXCEPT ![t] = x] /\ tx'[t] = x
    BY <1>1, <2>1, <2>3, <2>4 DEF Tables
  <2>7. s.units \in Nat /\ s.account \in Nat /\ s.wallet \in Nat /\ s.now \in Nat /\ s.change \in Nat
    BY <1>6 DEF Sale
  <2>8. money' \in [Till -> Int]
    <3>1. PICK d \in Nat : d = IF R(t).mode = "cash" THEN s.now ELSE 0
      BY <2>7
    <3>2. PICK m \in Int : m = money[R(t).till] + (IF R(t).mode = "cash" THEN s.now ELSE 0) - s.change
      <4>1. PICK a \in Int : a = money[R(t).till]
        BY <1>1, <1>4 DEF Tables
      <4> QED BY <2>7, <3>1, <4>1
    <3>3. money' = [money EXCEPT ![R(t).till] = m]
      BY <2>1, <3>2
    <3> QED BY <1>1, <3>2, <3>3 DEF Tables
  <2>9. parts' \in Nat
    BY <1>1, <1>8, <2>1, <2>7 DEF Tables
  <2>10. Tables'
    BY <1>1, <2>1, <2>3, <2>5, <2>6, <2>8, <2>9 DEF Tables
  <2>11. Grows
    BY <1>1, <2>1, <2>3, Entries DEF Grows
  <2>12. Asked(t)'
    BY <1>1, <1>2, <2>1, <2>5, <2>6 DEF Asked, JobExists, Ended, At, R
  <2>13. Doing(t)'
    BY <1>6, <2>3, <2>5, <2>6 DEF Doing, J, R
  <2>14. Deposits'
    BY <1>1, <2>1, <2>5, <2>6, <2>10, <2>11, DepositsAlone DEF JobsInv, Noted
  <2>15. Repairers'
    BY <2>1, RepairersKept DEF JobsInv, Paid
  <2>16. Collected'
    BY <2>1, <2>11, CollectedKept DEF JobsInv
  <2>17. Reversed' /\ Labours' /\ SettledOnce'
    BY <2>1 DEF JobsInv, Reversed, Labours, SettledOnce
  <2>18. Sold'
    <3>1. owed' \in Int
      BY <2>1, <2>7 DEF JobsInv, Sold
    <3>2. ASSUME NEW i \in DOMAIN sales' PROVE sales'[i].job \in DOMAIN jobs
      <4>1. CASE i = id
        BY <1>3, <1>6, <2>3, <4>1
      <4>2. CASE i # id
        BY <2>3, <3>2, <4>2 DEF JobsInv, Sold
      <4> QED BY <4>1, <4>2
    <3> QED BY <2>1, <3>1, <3>2 DEF Sold
  <2>19. CollectionCovered'
    <3> SUFFICES ASSUME NEW i \in DOMAIN sales'
                 PROVE  /\ Covered(sales'[i]) = sales'[i].total + sales'[i].change
                        /\ sales'[i].wallet <= moved["deposit"][sales'[i].job]
      BY <2>1 DEF CollectionCovered
    <3>1. CASE i = id
      <4>1. tx[t].seen.dep <= moved["deposit"][J(t)]
        BY <1>1, <1>2 DEF Doing, J, R
      <4>2. moved["deposit"][J(t)] \in Nat
        BY <1>1, <1>3 DEF Tables, Movements
      <4>3. sales'[i] = s
        BY <2>3, <3>1
      <4> QED BY <1>5, <1>6, <1>8, <2>7, <4>1, <4>2, <4>3
    <3>2. CASE i # id
      BY <2>3, <3>2 DEF JobsInv, CollectionCovered
    <3> QED BY <3>1, <3>2
  <2> QED BY <2>6, <2>10, <2>11, <2>12, <2>13, <2>14, <2>15, <2>16, <2>17, <2>18, <2>19, Assemble
<1> QED BY <1>7, <1>8 DEF Ring

\* The job is marked as collected by the sale the request rang up.
LEMMA MarkKeeps ==
  ASSUME JobsInv, NEW t \in Tx, MarkCollected(t)
  PROVE  JobsInv'
<1> DEFINE old  == jobs[J(t)]
           days == IF tx[t].seen.of # 0 THEN 0 ELSE tx[t].seen.days
<1>1. Tables /\ Asked(t) /\ Doing(t)
  BY DEF JobsInv
<1>2. ~Ended(t) /\ tx[t].pc = "mark" /\ R(t).op = "collect"
  BY <1>1 DEF MarkCollected, Asked, At, Ended, R
<1>3. J(t) \in DOMAIN jobs /\ old \in Job
  BY <1>2, JobOf DEF RepairOps
<1>4. tx[t].got \in Nat /\ tx[t].seen.days \in Nat /\ today \in Nat
  BY <1>1 DEF Tables, TxState, Job
<1>5. WarrantyUntil(days) \in Nat
  BY <1>4 DEF WarrantyUntil
<1>6. PICK j : j = [old EXCEPT !.status = "collected", !.sale = tx[t].got, !.until = WarrantyUntil(days)]
  OBVIOUS
<1>7. j \in Job /\ j.paid = old.paid /\ j.dep = old.dep /\ j.sale = tx[t].got /\ j.status = "collected"
  BY <1>3, <1>4, <1>5, <1>6 DEF Job, Statuses
<1>8. tx[t].got \in DOMAIN sales /\ sales[tx[t].got].job = J(t)
  BY <1>1, <1>2 DEF Doing, J, R
<1>9. PICK o \in Nat : o = Owing(tx[t], J(t))
  BY <1>1, OwingNat DEF Tables
<1>10. j.dep <= old.dep + Owing(tx[t], J(t))
  BY <1>3, <1>7, <1>9 DEF Job
<1> QED BY <1>3, <1>6, <1>7, <1>8, <1>10, NoteKeeps DEF MarkCollected

\* A re-repair under warranty is a new job on which nothing is paid.
LEMMA ReworkKeeps ==
  ASSUME JobsInv, NEW t \in Tx, Rework(t)
  PROVE  JobsInv'
<1> DEFINE old == jobs[J(t)]
<1>1. Tables /\ Asked(t) /\ Doing(t) /\ NoJob \in Job
  BY IdleFacts DEF JobsInv, TxState, Idle
<1>2. CASE Asks(t, "rework") /\ Refuse(t) /\ UNCHANGED outside
  BY <1>2, RefuseKeeps
<1>3. CASE /\ Asks(t, "rework") /\ Read(t, "insert", [NoJob EXCEPT !.customer = old.customer], 0)
           /\ UNCHANGED outside
  <2>1. ~Ended(t) /\ R(t).op = "rework"
    BY <1>3 DEF Asks, At, Ended
  <2>2. old \in Job
    BY <2>1, JobOf DEF RepairOps
  <2>3. PICK j : j = [NoJob EXCEPT !.customer = old.customer]
    OBVIOUS
  <2>4. j \in Job /\ j.dep = 0 /\ j.paid = 0
    BY <1>1, <2>2, <2>3 DEF Job, NoJob
  <2>5. PICK x \in TxState : tx' = [tx EXCEPT ![t] = x] /\ x.pc = "insert" /\ x.req = R(t) /\ x.seen = j
    BY <1>1, <1>3, <2>3, <2>4, ReadTo DEF Pcs, R
  <2>6. tx'[t] = x
    BY <1>1, <2>5 DEF Tables
  <2>7. Asked(t)'
    BY <1>1, <1>3, <2>1, <2>5, <2>6 DEF Asked, JobExists, Ended, At, R, Read, books
  <2>8. Doing(t)'
    BY <2>4, <2>5, <2>6 DEF Doing
  <2> QED BY <1>3, <2>3, <2>4, <2>7, <2>8, ReadKeeps DEF Pcs
<1>4. CASE At(t, "insert") /\ InsertJob(t, [tx[t].seen EXCEPT !.status = "received", !.of = J(t)])
  <2>1. PICK j : j = [tx[t].seen EXCEPT !.status = "received", !.of = J(t)]
    OBVIOUS
  <2>2. tx[t].seen \in Job /\ tx[t].seen.dep = 0 /\ tx[t].seen.paid = 0
    BY <1>1, <1>4 DEF Tables, TxState, Doing, At
  <2>3. J(t) \in Nat
    BY <1>1, Entries, Requests DEF J, R
  <2>4. j \in Job /\ j.dep = 0 /\ j.paid = 0 /\ j.status # "collected"
    BY <2>1, <2>2, <2>3 DEF Job, Statuses, Open
  <2> QED BY <1>4, <2>1, <2>4, InsertJobKeeps
<1> QED BY <1>2, <1>3, <1>4 DEF Rework

\* A refund reads which lines have not come back of the sale its job was collected with.
LEMMA ReadRefundKeeps ==
  ASSUME JobsInv, NEW t \in Tx, ReadRefund(t)
  PROVE  JobsInv'
<1> DEFINE old == jobs[J(t)]
<1>1. Tables /\ Asked(t)
  BY DEF JobsInv
<1>2. ~Ended(t) /\ R(t).op = "refund"
  BY DEF ReadRefund, Asks, At, Ended
<1>3. J(t) \in DOMAIN jobs /\ old \in Job
  BY <1>2, JobOf DEF RepairOps
<1>4. CASE Refuse(t) /\ UNCHANGED outside
  BY <1>4, RefuseKeeps
<1>5. ASSUME MayRefund(old), NEW lines \in SUBSET Returnable(sales[old.sale]),
             tx' = [tx EXCEPT ![t].pc = "return", ![t].seen = old, ![t].lines = lines],
             UNCHANGED <<books, cut>>, UNCHANGED outside
      PROVE  JobsInv'
  <2>1. old.sale \in DOMAIN sales
    BY <1>3, <1>5 DEF MayRefund, CanRework, JobsInv, Collected
  <2>2. lines \in SUBSET Nat
    <3>1. sales[old.sale].left \in Seq(0 .. 1)
      BY <1>1, <2>1, Entries DEF Sale
    <3>2. DOMAIN sales[old.sale].left \subseteq Nat
      BY <3>1, LenProperties
    <3> QED BY <1>5, <3>2 DEF Returnable
  <2>3. PICK x : x = [tx[t] EXCEPT !.pc = "return", !.seen = old, !.lines = lines]
    OBVIOUS
  <2>4. /\ x \in TxState /\ x.pc = "return" /\ x.req = R(t) /\ x.seen = old
        /\ tx' = [tx EXCEPT ![t] = x] /\ tx'[t] = x
    <3>1. tx[t] \in TxState
      BY <1>1 DEF Tables
    <3>2. x \in TxState /\ x.pc = "return" /\ x.req = R(t) /\ x.seen = old
      BY <1>3, <2>2, <2>3, <3>1 DEF TxState, Pcs, R
    <3> QED BY <1>1, <1>5, <2>3, <3>2 DEF Tables
  <2>5. Asked(t)'
    BY <1>1, <1>2, <1>5, <2>4 DEF Asked, JobExists, Ended, At, R, books
  <2>6. Doing(t)'
    BY <1>5, <2>1, <2>4 DEF Doing, books
  <2>7. price' \in Nat /\ today' \in Nat
    BY <1>1, <1>5 DEF Tables, outside
  <2> QED BY <1>5, <2>4, <2>5, <2>6, <2>7, Still
<1> QED BY <1>4, <1>5 DEF ReadRefund

\* Parts come back, of each line what was left of it.
LEMMA ReturnKeeps ==
  ASSUME JobsInv, NEW t \in Tx, ReturnParts(t)
  PROVE  JobsInv'
<1> DEFINE id     == tx[t].seen.sale
           s      == sales[id]
           lines  == tx[t].lines
           value  == s.unit * Cardinality(lines)
           credit == Min({value, s.account})
<1> USE DEF printed, cash, outside
<1>1. Tables /\ Asked(t) /\ Doing(t)
  BY DEF JobsInv
<1>2. ~Ended(t) /\ tx[t].pc = "return" /\ R(t).op = "refund"
  BY <1>1 DEF ReturnParts, Asked, At, Ended, R
<1>3. R(t) \in Request /\ R(t).till \in Till
  <2>1. R(t) \in Request
    BY <1>1, Entries DEF R
  <2> QED BY <1>2, <2>1, JobsAssumption
<1>4. id \in DOMAIN sales /\ s \in Sale
  BY <1>1, <1>2, Entries DEF Doing, Tables
<1>5. s.account \in Nat /\ s.left \in Seq(0 .. 1) /\ s.unit \in Nat
  BY <1>4 DEF Sale
<1>6. CASE Refuse(t) /\ UNCHANGED outside
  BY <1>6, RefuseKeeps
<1>7. CASE ~(~StillOut(t) \/ ~Holds(t, value - credit)) /\ ~(Refuse(t) /\ UNCHANGED outside)
  <2> DEFINE rest == [i \in DOMAIN s.left |-> IF i \in lines THEN s.left[i] - 1 ELSE s.left[i]]
  <2>1. /\ sales' = [sales EXCEPT ![id].left =
                       [i \in DOMAIN @ |-> IF i \in lines THEN @[i] - 1 ELSE @[i]]]
        /\ owed' = owed - credit
        /\ money' = [money EXCEPT ![R(t).till] = @ - (value - credit)]
        /\ Commit(t, "done")
        /\ UNCHANGED <<jobs, printed, moved, booked, parts, outside>>
        /\ lines \subseteq Returnable(s)
    BY <1>7 DEF ReturnParts, StillOut
  <2>2. PICK x \in TxState : tx' = [tx EXCEPT ![t] = x] /\ x.pc = "idle"
    BY <1>1, <2>1, CommitTo DEF Pcs
  <2>3. credit \in Nat /\ value \in Nat
    <3>1. lines \subseteq 1 .. Len(s.left) /\ Len(s.left) \in Nat
      BY <1>5, <2>1, LenProperties DEF Returnable
    <3>2. PICK n \in Nat : n = Len(s.left) /\ lines \subseteq 1 .. n
      BY <3>1
    <3>3. IsFiniteSet(lines)
      <4>1. IsFiniteSet(1 .. n)
        BY FS_Interval
      <4> QED BY <3>2, <4>1, FS_Subset
    <3>4. PICK b \in Nat : b = Cardinality(lines)
      BY <3>3, FS_CardinalityType
    <3>5. PICK a \in Nat : a = s.unit
      BY <1>5
    <3>6. PICK v \in Nat : v = value
      <4>1. a * b \in Nat
        OBVIOUS
      <4> QED BY <3>4, <3>5, <4>1
    <3> QED BY <1>5, <3>6, Smaller
  <2>4. rest \in Seq(0 .. 1)
    <3>1. PICK n \in Nat : DOMAIN s.left = 1 .. n
      BY <1>5, LenProperties
    <3>2. ASSUME NEW i \in 1 .. n PROVE rest[i] \in 0 .. 1
      <4>1. s.left[i] \in 0 .. 1
        BY <1>5, <3>1, <3>2, ElementOfSeq, LenProperties
      <4>2. i \in lines => s.left[i] > 0
        BY <2>1 DEF Returnable
      <4> QED BY <3>1, <3>2, <4>1, <4>2
    <3>3. rest = [i \in 1 .. n |-> rest[i]]
      BY <3>1
    <3> HIDE DEF rest
    <3> QED BY <3>1, <3>2, <3>3, IsASeq
  <2> HIDE DEF value, credit
  <2>5. PICK l \in Seq(0 .. 1) : l = rest
    BY <2>4
  <2>6. PICK r : r = [s EXCEPT !.left = l]
    OBVIOUS
  <2>7. /\ r \in Sale /\ r.account = s.account /\ r.job = s.job /\ r.wallet = s.wallet
        /\ r.now = s.now /\ r.total = s.total /\ r.change = s.change
    BY <1>4, <2>6 DEF Sale
  <2>8. /\ sales' \in Seq(Sale) /\ DOMAIN sales' = DOMAIN sales
        /\ \A i \in DOMAIN sales : sales'[i] = IF i = id THEN r ELSE sales[i]
    <3>1. sales' = [sales EXCEPT ![id] = r]
      BY <1>1, <1>4, <2>1, <2>5, <2>6 DEF Tables
    <3>2. DOMAIN sales = 1 .. Len(sales) /\ Len(sales) \in Nat
      BY <1>1, LenProperties DEF Tables
    <3> QED BY <1>1, <1>4, <2>7, <3>1, <3>2, ExceptSeq, LenProperties DEF Tables
  <2> HIDE DEF rest
  <2>9. money' \in [Till -> Int]
    <3>1. PICK m \in Int : m = money[R(t).till] - (value - credit)
      BY <1>1, <1>3, <2>3 DEF Tables
    <3>2. money' = [money EXCEPT ![R(t).till] = m]
      BY <2>1, <3>1
    <3> QED BY <1>1, <3>1, <3>2 DEF Tables
  <2>10. Tables'
    BY <1>1, <2>1, <2>2, <2>8, <2>9 DEF Tables
  <2>11. Grows
    <3>1. ASSUME NEW i \in DOMAIN sales PROVE sales'[i].job = sales[i].job
      BY <2>7, <2>8
    <3>2. \A k \in Movements, i \in Id : moved'[k][i] >= moved[k][i] /\ booked'[k][i] >= booked[k][i]
      BY <1>1, <2>1, Entries
    <3> QED BY <2>1, <2>8, <3>1, <3>2 DEF Grows
  <2>12. Asked(t)' /\ Doing(t)'
    BY <1>1, <2>2, EndedFits
  <2>13. Deposits'
    BY <1>1, <2>1, <2>2, <2>10, <2>11, DepositsAlone DEF JobsInv, Noted
  <2>14. Repairers'
    BY <2>1, RepairersKept DEF JobsInv, Paid
  <2>15. Collected'
    BY <2>1, <2>11, CollectedKept DEF JobsInv
  <2>16. Reversed' /\ Labours' /\ SettledOnce'
    BY <2>1 DEF JobsInv, Reversed, Labours, SettledOnce
  <2>17. Sold'
    <3>1. owed' \in Int
      BY <2>1, <2>3 DEF JobsInv, Sold
    <3>2. ASSUME NEW i \in DOMAIN sales PROVE sales'[i].job \in DOMAIN jobs
      BY <2>7, <2>8 DEF JobsInv, Sold
    <3> QED BY <2>1, <2>8, <3>1, <3>2 DEF Sold
  <2>18. CollectionCovered'
    <3> SUFFICES ASSUME NEW i \in DOMAIN sales
                 PROVE  /\ Covered(sales'[i]) = sales'[i].total + sales'[i].change
                        /\ sales'[i].wallet <= moved["deposit"][sales'[i].job]
      BY <2>1, <2>8 DEF CollectionCovered
    <3>1. /\ Covered(sales[i]) = sales[i].total + sales[i].change
          /\ sales[i].wallet <= moved["deposit"][sales[i].job]
      BY DEF JobsInv, CollectionCovered
    <3> QED BY <2>7, <2>8, <3>1 DEF Covered
  <2> QED BY <2>2, <2>10, <2>11, <2>12, <2>13, <2>14, <2>15, <2>16, <2>17, <2>18, Assemble
<1> QED BY <1>6, <1>7 DEF ReturnParts

-----------------------------------------------------------------------------
(***************************************************************************)
(* Print and copy.                                                         *)
(***************************************************************************)
\* A step of a print job leaves the repairs alone.
LEMMA RepairsAlone ==
  ASSUME JobsInv, Tables', Grows, NEW t \in Tx, NEW x, tx' = [tx EXCEPT ![t] = x],
         x.pc # "note" \/ x.req.op # "deposit", UNCHANGED <<jobs, sales, owed>>,
         moved'["repairer"] = moved["repairer"], booked'["repairer"] = booked["repairer"]
  PROVE  Deposits' /\ Repairers' /\ Collected' /\ Sold' /\ CollectionCovered'
<1>1. Tables
  BY DEF JobsInv
<1>2. \A j \in Id : Noted(j)' = Noted(j) /\ Paid(j)' = Paid(j)
  BY DEF Noted, Paid
<1>3. Deposits'
  BY <1>1, <1>2, DepositsAlone DEF JobsInv
<1>4. Repairers'
  BY <1>2, RepairersKept DEF JobsInv
<1>5. Collected'
  BY CollectedKept DEF JobsInv
<1>6. Sold' /\ CollectionCovered'
  BY <1>1, SalesKept DEF JobsInv
<1> QED BY <1>3, <1>4, <1>5, <1>6

\* What a print job draws is there, as the sale found it.
LEMMA SellPrintKeeps ==
  ASSUME JobsInv, NEW t \in Tx, SellPrint(t)
  PROVE  JobsInv'
<1> USE DEF outside
<1>1. Tables /\ Asked(t)
  BY DEF JobsInv
<1>2. ~Ended(t) /\ R(t).op = "print"
  BY DEF SellPrint, Asks, At, Ended
<1>3. R(t) \in Request /\ R(t).till \in Till /\ R(t).n \in Nat
  <2>1. R(t) \in Request
    BY <1>1, Entries DEF R
  <2> QED BY <1>2, <2>1, Requests, JobsAssumption
<1>4. PICK x \in TxState : tx' = [tx EXCEPT ![t] = x] /\ x.pc = "note" /\ x.req = R(t)
  BY <1>1, CommitTo DEF SellPrint, Pcs, R
<1>5. tx'[t] = x
  BY <1>1, <1>4 DEF Tables
<1>6. paper' \in [DOMAIN Component -> Nat]
  <2>1. \A i \in DOMAIN Component : paper[i] - 1 \in Nat
    BY <1>1 DEF SellPrint, Tables
  <2> QED BY <2>1 DEF SellPrint
<1>7. money' \in [Till -> Int]
  <2>1. PICK m \in Int : m = money[R(t).till] + R(t).n
    BY <1>1, <1>3 DEF Tables
  <2>2. money' = [money EXCEPT ![R(t).till] = m]
    BY <2>1 DEF SellPrint
  <2> QED BY <1>1, <2>1, <2>2 DEF Tables
<1>8. UNCHANGED <<jobs, sales, prints, payouts, moved, booked, owed, parts, price, today>>
  BY DEF SellPrint
<1>9. Tables'
  BY <1>1, <1>4, <1>6, <1>7, <1>8 DEF Tables
<1>10. Grows
  BY <1>1, <1>8, Entries DEF Grows
<1>11. Asked(t)'
  BY <1>1, <1>2, <1>4, <1>5, <1>8 DEF Asked, JobExists, Ended, At, R
<1>12. Doing(t)'
  BY <1>4, <1>5 DEF Doing
<1>13. Deposits' /\ Repairers' /\ Collected' /\ Sold' /\ CollectionCovered'
  BY <1>2, <1>4, <1>8, <1>9, <1>10, RepairsAlone
<1>14. Reversed' /\ Labours' /\ SettledOnce'
  BY <1>8 DEF JobsInv, Reversed, Labours, SettledOnce
<1> QED BY <1>4, <1>9, <1>10, <1>11, <1>12, <1>13, <1>14, Assemble

\* A new print job: not reversed, its labour not settled.
LEMMA InsertPrintKeeps ==
  ASSUME JobsInv, NEW t \in Tx, NEW p \in PrintRow, InsertPrint(t, p), ~p.reversed, p.payout = 0
  PROVE  JobsInv'
<1> DEFINE id == Len(prints) + 1
<1> USE DEF cash, outside
<1>1. Tables
  BY DEF JobsInv
<1>2. PICK x \in TxState : tx' = [tx EXCEPT ![t] = x] /\ x.pc = "idle"
  BY <1>1, CommitTo DEF InsertPrint, Pcs
<1>3. Len(prints) \in Nat /\ DOMAIN prints = 1 .. Len(prints) /\ MaxJob \in Nat
  BY <1>1, LenProperties, JobsAssumption DEF Tables
<1>4. /\ prints' \in Seq(PrintRow) /\ Len(prints') = id /\ id \notin DOMAIN prints
      /\ DOMAIN prints' = DOMAIN prints \cup {id}
      /\ \A i \in DOMAIN prints' : prints'[i] = IF i = id THEN p ELSE prints[i]
  <2>1. prints' = Append(prints, p)
    BY DEF InsertPrint
  <2>2. prints' \in Seq(PrintRow) /\ Len(prints') = id
    BY <1>1, <2>1, AppendProperties DEF Tables
  <2>3. DOMAIN prints' = 1 .. id
    BY <2>2, LenProperties
  <2>4. \A i \in 1 .. id : prints'[i] = IF i = id THEN p ELSE prints[i]
    BY <1>1, <1>3, <2>1, AppendProperties DEF Tables
  <2> QED BY <1>3, <2>2, <2>3, <2>4
<1>5. UNCHANGED <<jobs, sales, payouts, paper, money, moved, booked, owed, parts, price, today>>
  BY DEF InsertPrint
<1>6. Tables'
  <2>1. Len(prints') <= MaxJob
    BY <1>3, <1>4 DEF InsertPrint
  <2> QED BY <1>1, <1>2, <1>4, <1>5, <2>1 DEF Tables
<1>7. Grows
  BY <1>1, <1>4, <1>5, Entries DEF Grows
<1>8. Asked(t)' /\ Doing(t)'
  BY <1>1, <1>2, EndedFits
<1>9. Deposits' /\ Repairers' /\ Collected' /\ Sold' /\ CollectionCovered'
  BY <1>2, <1>5, <1>6, <1>7, RepairsAlone
<1>10. Reversed'
  BY <1>1, <1>4, <1>6, <1>7, ReversedKept DEF JobsInv
<1>11. Labours' /\ SettledOnce'
  BY <1>1, <1>4, <1>5, <1>6, <1>7, LaboursKept, SettledKept DEF JobsInv
<1> QED BY <1>2, <1>6, <1>7, <1>8, <1>9, <1>10, <1>11, Assemble

\* Own use draws the components one by one, and then notes the job.
LEMMA OwnUseKeeps ==
  ASSUME JobsInv, NEW t \in Tx, Record(t) \/ OwnUse(t)
  PROVE  JobsInv'
<1> USE DEF outside, cash
<1>1. Tables /\ Asked(t) /\ Doing(t) /\ NoJob \in Job
  BY IdleFacts DEF JobsInv, TxState, Idle
<1>2. Component \in Seq(STRING) /\ DOMAIN Component = 1 .. Len(Component) /\ Len(Component) \in Nat \ {0}
  BY JobsAssumption, LenProperties, EmptySeq
<1>3. CASE Record(t)
  <2>1. R(t).op = "print" /\ R(t) \in Request
    BY <1>1, <1>3, Entries DEF Record, InsertPrint, PrintJob, R
  <2>2. R(t).n \in Nat
    BY <2>1, Requests
  <2>3. PICK p : p = PrintJob("sale", R(t).n)
    OBVIOUS
  <2>4. p \in PrintRow /\ ~p.reversed /\ p.payout = 0
    BY <2>2, <2>3 DEF PrintJob, PrintRow
  <2> QED BY <1>3, <2>3, <2>4, InsertPrintKeeps DEF Record
<1>4. CASE InsertPrint(t, PrintJob("own_use", 0))
  <2>1. PICK p : p = PrintJob("own_use", 0)
    OBVIOUS
  <2>2. p \in PrintRow /\ ~p.reversed /\ p.payout = 0
    BY <2>1 DEF PrintJob, PrintRow
  <2> QED BY <1>4, <2>1, <2>2, InsertPrintKeeps
<1>5. CASE Asks(t, "ownuse") /\ Read(t, "consume", NoJob, 1) /\ UNCHANGED outside
  <2>1. ~Ended(t) /\ R(t).op = "ownuse"
    BY <1>5 DEF Asks, At, Ended
  <2>2. PICK x \in TxState : tx' = [tx EXCEPT ![t] = x] /\ x.pc = "consume" /\ x.req = R(t) /\ x.got = 1
    BY <1>1, <1>5, ReadTo DEF Pcs, R
  <2>3. tx'[t] = x
    BY <1>1, <2>2 DEF Tables
  <2>4. Asked(t)'
    BY <1>1, <1>5, <2>1, <2>2, <2>3 DEF Asked, JobExists, Ended, At, R, Read, books
  <2>5. Doing(t)'
    BY <1>2, <2>2, <2>3 DEF Doing
  <2> QED BY <1>1, <1>5, <2>4, <2>5, ReadKeeps DEF Pcs
<1>6. CASE At(t, "consume") /\ paper[tx[t].got] = 0 /\ Refuse(t) /\ UNCHANGED outside
  BY <1>6, RefuseKeeps
<1>7. CASE /\ At(t, "consume") /\ paper[tx[t].got] # 0
           /\ paper' = [paper EXCEPT ![tx[t].got] = @ - 1]
           /\ tx' = [tx EXCEPT ![t].pc = IF tx[t].got = Len(Component) THEN "note" ELSE "consume",
                               ![t].got = tx[t].got + 1, ![t].part = TRUE]
           /\ UNCHANGED <<jobs, sales, prints, payouts, cash, booked, owed, parts, cut, outside>>
  <2> DEFINE i  == tx[t].got
             pc == IF i = Len(Component) THEN "note" ELSE "consume"
  <2>1. ~Ended(t) /\ R(t).op = "ownuse" /\ i \in DOMAIN Component
    BY <1>1, <1>7 DEF Asked, Doing, Ended, At, R
  <2>2. PICK n \in Nat : n = i + 1
    BY <1>2, <2>1
  <2>3. PICK x : x = [tx[t] EXCEPT !.pc = pc, !.got = n, !.part = TRUE]
    OBVIOUS
  <2>4. x \in TxState /\ x.pc = pc /\ x.req = R(t) /\ x.got = n
    BY <1>1, <2>2, <2>3 DEF Tables, TxState, Pcs, R
  <2>5. tx' = [tx EXCEPT ![t] = x] /\ tx'[t] = x
    BY <1>1, <1>7, <2>2, <2>3 DEF Tables
  <2>6. paper' \in [DOMAIN Component -> Nat]
    <3>1. PICK m \in Nat : m = paper[i] - 1
      BY <1>1, <1>7, <2>1 DEF Tables
    <3>2. paper' = [paper EXCEPT ![i] = m]
      BY <1>7, <3>1
    <3> QED BY <1>1, <2>1, <3>1, <3>2 DEF Tables
  <2>7. UNCHANGED <<jobs, sales, prints, payouts, money, moved, booked, owed, parts, price, today>>
    BY <1>7
  <2>8. Tables'
    BY <1>1, <2>4, <2>5, <2>6, <2>7 DEF Tables
  <2>9. Grows
    BY <1>1, <2>7, Entries DEF Grows
  <2>10. Asked(t)'
    BY <1>1, <2>1, <2>4, <2>5, <2>7 DEF Asked, JobExists, Ended, At, R
  <2>11. Doing(t)'
    <3>1. pc = "consume" => n \in DOMAIN Component
      BY <1>2, <2>1, <2>2
    <3> QED BY <2>4, <2>5, <3>1 DEF Doing
  <2>12. Deposits' /\ Repairers' /\ Collected' /\ Sold' /\ CollectionCovered'
    BY <2>1, <2>4, <2>5, <2>7, <2>8, <2>9, RepairsAlone
  <2>13. Reversed' /\ Labours' /\ SettledOnce'
    BY <2>7 DEF JobsInv, Reversed, Labours, SettledOnce
  <2> QED BY <2>5, <2>8, <2>9, <2>10, <2>11, <2>12, <2>13, Assemble
<1> QED BY <1>3, <1>4, <1>5, <1>6, <1>7 DEF OwnUse

\* A reversal, a payment or a dismissal begins by reading its job.
LEMMA CheckKeeps ==
  ASSUME JobsInv, NEW t \in Tx, Check(t)
  PROVE  JobsInv'
<1>1. Tables /\ Asked(t) /\ NoJob \in Job
  BY IdleFacts DEF JobsInv, TxState, Idle
<1>2. ~Ended(t) /\ R(t).op \in {"reverse", "pay", "dismiss"}
  BY DEF Check, Asks, At, Ended
<1>3. R(t) \in Request
  BY <1>1, Entries DEF R
<1>4. CASE Refuse(t) /\ UNCHANGED outside
  BY <1>4, RefuseKeeps
<1>5. ASSUME NEW pc, Read(t, pc, NoJob, 0), UNCHANGED outside,
             \/ pc = "settle" /\ R(t).op = "dismiss"
             \/ pc = "expense" /\ R(t).op = "pay" /\ R(t).till = None
             \/ pc = "withdraw" /\ R(t).op \in {"reverse", "pay"} /\ R(t).till \in Till
      PROVE  JobsInv'
  <2>1. pc \in Pcs /\ pc # "note"
    BY <1>5 DEF Pcs
  <2>2. PICK x \in TxState : tx' = [tx EXCEPT ![t] = x] /\ x.pc = pc /\ x.req = R(t)
    BY <1>1, <1>5, <2>1, ReadTo DEF R
  <2>3. tx'[t] = x
    BY <1>1, <2>2 DEF Tables
  <2>4. JobExists(t, R(t))'
    BY <1>1, <1>2, <1>5, <2>2, <2>3 DEF Asked, JobExists, R, Read, books
  <2>5. Asked(t)'
    BY <1>5, <2>2, <2>3, <2>4 DEF Asked, Ended, At, R
  <2>6. Doing(t)'
    BY <1>5, <2>2, <2>3 DEF Doing
  <2> QED BY <1>1, <1>5, <2>1, <2>5, <2>6, ReadKeeps
<1>6. R(t).op = "reverse" => R(t).till \in Till
  BY <1>3, JobsAssumption
<1>7. R(t).till \in Till \cup {None}
  BY <1>3, Requests
<1>8. CASE R(t).op = "dismiss" /\ Read(t, "settle", NoJob, 0) /\ UNCHANGED outside
  BY <1>5, <1>8
<1>9. CASE R(t).op = "pay" /\ R(t).till = None /\ Read(t, "expense", NoJob, 0) /\ UNCHANGED outside
  BY <1>5, <1>9
<1>10. CASE /\ R(t).op # "dismiss" /\ ~(R(t).op = "pay" /\ R(t).till = None)
            /\ Read(t, "withdraw", NoJob, 0) /\ UNCHANGED outside
  BY <1>2, <1>5, <1>6, <1>7, <1>10
<1> QED BY <1>2, <1>4, <1>8, <1>9, <1>10 DEF Check

\* What is taken out of the till is moved before anything is marked.
LEMMA TakeOutKeeps ==
  ASSUME JobsInv, NEW t \in Tx, TakeOut(t)
  PROVE  JobsInv'
<1> DEFINE kind == Kind(t)
           id   == P(t)
           n    == Amount(t)
<1> USE DEF printed, outside
<1>1. Tables /\ Asked(t)
  BY DEF JobsInv
<1>2. ~Ended(t) /\ tx[t].pc = "withdraw" /\ R(t).op \in {"reverse", "pay"} /\ R(t).till \in Till
  BY <1>1 DEF TakeOut, Asked, At, Ended, R
<1>3. id \in DOMAIN prints /\ id \in Id /\ prints[id].total \in Nat
  BY <1>2, PrintOf DEF PrintRow
<1>4. R(t) \in Request /\ (R(t).op = "pay" => R(t).n \in Nat)
  BY <1>1, Entries, Requests DEF R
<1>5. /\ kind \in Movements /\ n \in Nat /\ kind # "repairer"
      /\ R(t).op = "reverse" => kind = "reversal" /\ n = prints[id].total
      /\ R(t).op = "pay" => kind = "labour" /\ n = R(t).n
  BY <1>2, <1>3, <1>4 DEF Kind, Amount, Movements
<1>6. CASE Refuse(t) /\ UNCHANGED outside
  BY <1>6, RefuseKeeps
<1>7. CASE /\ Withdraw(t, kind, n) /\ Commit(t, "expense")
           /\ UNCHANGED <<jobs, sales, printed, booked, owed, parts, outside>>
  <2> HIDE DEF kind, n
  <2>1. PICK x \in TxState : tx' = [tx EXCEPT ![t] = x] /\ x.pc = "expense" /\ x.req = R(t)
    BY <1>1, <1>7, CommitTo DEF Pcs, R
  <2>2. tx'[t] = x
    BY <1>1, <2>1 DEF Tables
  <2>3. moved' = [moved EXCEPT ![kind][id] = @ + n]
    BY <1>7 DEF Withdraw, Moving, P
  <2>4. /\ moved' \in [Movements -> [Id -> Nat]]
        /\ moved'[kind][id] = moved[kind][id] + n
        /\ \A k \in Movements : k # kind => moved'[k] = moved[k]
        /\ \A k \in Movements, i \in Id : moved'[k][i] >= moved[k][i]
    <3>1. moved \in [Movements -> [Id -> Nat]]
      BY <1>1 DEF Tables
    <3> QED BY <1>3, <1>5, <2>3, <3>1, Added
  <2>5. money' \in [Till -> Int]
    <3>1. PICK m \in Int : m = money[R(t).till] - n
      BY <1>1, <1>2, <1>5 DEF Tables
    <3>2. money' = [money EXCEPT ![R(t).till] = m]
      BY <1>7, <3>1 DEF Withdraw
    <3> QED BY <1>1, <3>1, <3>2 DEF Tables
  <2>6. Tables'
    BY <1>1, <1>7, <2>1, <2>4, <2>5 DEF Tables
  <2>7. Grows
    BY <1>1, <1>7, <2>4, Entries DEF Grows
  <2>8. Asked(t)'
    BY <1>1, <1>2, <1>7, <2>1, <2>2 DEF Asked, JobExists, Ended, At, R
  <2>9. moved'[kind][id] >= n
    <3>1. moved[kind][id] \in Nat
      BY <1>1, <1>3, <1>5, Entries
    <3> QED BY <1>5, <2>4, <3>1
  <2>10. Doing(t)'
    <3>1. R(t).op = "reverse" => moved'["reversal"][id] >= prints'[id].total
      BY <1>5, <1>7, <2>9
    <3>2. R(t).op = "pay" => moved'["labour"][id] >= R(t).n
      BY <1>5, <2>9
    <3> QED BY <1>2, <2>1, <2>2, <3>1, <3>2 DEF Doing, P
  <2>11. Deposits' /\ Repairers' /\ Collected' /\ Sold' /\ CollectionCovered'
    <3>1. moved'["repairer"] = moved["repairer"]
      BY <1>5, <2>4 DEF Movements
    <3> QED BY <1>7, <2>1, <2>6, <2>7, <3>1, RepairsAlone
  <2>12. Reversed' /\ Labours' /\ SettledOnce'
    <3>1. Reversed'
      BY <1>1, <1>7, <2>6, <2>7, ReversedKept DEF JobsInv
    <3>2. Labours' /\ SettledOnce'
      BY <1>1, <1>7, <2>6, <2>7, LaboursKept DEF JobsInv, SettledOnce
    <3> QED BY <3>1, <3>2
  <2> QED BY <2>1, <2>6, <2>7, <2>8, <2>10, <2>11, <2>12, Assemble
<1> QED BY <1>6, <1>7 DEF TakeOut

\* The expense is booked before a job is flagged as reversed.
LEMMA BookExpenseKeeps ==
  ASSUME JobsInv, NEW t \in Tx, BookExpense(t)
  PROVE  JobsInv'
<1> DEFINE kind == Kind(t)
           id   == P(t)
           n    == Amount(t)
           pc   == Marking(t)
<1> USE DEF printed, cash, outside
<1>1. Tables /\ Asked(t) /\ Doing(t) /\ NoJob \in Job
  BY IdleFacts DEF JobsInv, TxState, Idle
<1>2. ~Ended(t) /\ tx[t].pc = "expense" /\ R(t).op \in {"reverse", "pay"}
  BY <1>1 DEF BookExpense, Asked, At, Ended, R
<1>3. id \in DOMAIN prints /\ id \in Id /\ prints[id].total \in Nat
  BY <1>2, PrintOf DEF PrintRow
<1>4. R(t) \in Request /\ (R(t).op = "pay" => R(t).n \in Nat)
  BY <1>1, Entries, Requests DEF R
<1>5. /\ kind \in Movements /\ n \in Nat /\ kind # "repairer"
      /\ R(t).op = "reverse" => kind = "reversal" /\ n = prints[id].total /\ pc = "flag"
      /\ R(t).op = "pay" => pc = "settle"
  BY <1>2, <1>3, <1>4 DEF Kind, Amount, Movements, Marking
<1>6. /\ R(t).op = "reverse" => moved["reversal"][id] >= prints[id].total
      /\ R(t).op = "pay" /\ R(t).till # None => moved["labour"][id] >= R(t).n
  BY <1>1, <1>2 DEF Doing, R, P
<1>7. CASE R(t).op = "reverse" /\ Refuse(t) /\ UNCHANGED outside
  BY <1>7, RefuseKeeps
<1>8. CASE R(t).op # "reverse" /\ Read(t, "settle", NoJob, 0) /\ UNCHANGED outside
  <2>1. PICK x \in TxState : tx' = [tx EXCEPT ![t] = x] /\ x.pc = "settle" /\ x.req = R(t)
    BY <1>1, <1>8, ReadTo DEF Pcs, R
  <2>2. tx'[t] = x
    BY <1>1, <2>1 DEF Tables
  <2>3. Asked(t)'
    BY <1>1, <1>2, <1>8, <2>1, <2>2 DEF Asked, JobExists, Ended, At, R, Read, books
  <2>4. Doing(t)'
    BY <1>2, <1>6, <1>8, <2>1, <2>2 DEF Doing, Read, books, P
  <2> QED BY <1>1, <1>8, <2>3, <2>4, ReadKeeps DEF Pcs
<1>9. CASE /\ Booking(kind, id, n) /\ Commit(t, pc)
           /\ UNCHANGED <<jobs, sales, printed, cash, owed, parts, outside>>
  <2> HIDE DEF kind, n, pc
  <2>1. pc \in {"flag", "settle"}
    BY <1>2, <1>5
  <2>2. PICK x \in TxState : tx' = [tx EXCEPT ![t] = x] /\ x.pc = pc /\ x.req = R(t)
    BY <1>1, <1>9, <2>1, CommitTo DEF Pcs, R
  <2>3. tx'[t] = x
    BY <1>1, <2>2 DEF Tables
  <2>4. booked' = [booked EXCEPT ![kind][id] = @ + n]
    BY <1>9 DEF Booking
  <2>5. /\ booked' \in [Movements -> [Id -> Nat]]
        /\ booked'[kind][id] = booked[kind][id] + n
        /\ \A k \in Movements : k # kind => booked'[k] = booked[k]
        /\ \A k \in Movements, i \in Id : booked'[k][i] >= booked[k][i]
    <3>1. booked \in [Movements -> [Id -> Nat]]
      BY <1>1 DEF Tables
    <3> QED BY <1>3, <1>5, <2>4, <3>1, Added
  <2>6. Tables'
    BY <1>1, <1>9, <2>2, <2>5 DEF Tables
  <2>7. Grows
    BY <1>1, <1>9, <2>5, Entries DEF Grows
  <2>8. Asked(t)'
    <3>1. JobExists(t, R(t))'
      BY <1>1, <1>2, <1>9, <2>2, <2>3 DEF Asked, JobExists, R
    <3>2. pc = "flag" => R(t).op = "reverse"
      BY <1>2, <1>5
    <3>3. pc = "settle" => R(t).op = "pay"
      BY <1>2, <1>5
    <3> QED BY <2>1, <2>2, <2>3, <3>1, <3>2, <3>3 DEF Asked, Ended, At, R
  <2>9. R(t).op = "reverse" => booked'["reversal"][id] >= prints'[id].total
    <3>1. booked[kind][id] \in Nat
      BY <1>1, <1>3, <1>5, Entries
    <3>2. booked'[kind][id] >= n
      BY <1>5, <2>5, <3>1
    <3> QED BY <1>5, <1>9, <3>2
  <2>10. Doing(t)'
    <3>1. pc = "flag" => R(t).op = "reverse"
      BY <1>2, <1>5
    <3> QED BY <1>2, <1>6, <1>9, <2>1, <2>2, <2>3, <2>9, <3>1 DEF Doing, P
  <2>11. Deposits' /\ Repairers' /\ Collected' /\ Sold' /\ CollectionCovered'
    <3>1. booked'["repairer"] = booked["repairer"]
      BY <1>5, <2>5 DEF Movements
    <3> QED BY <1>9, <2>1, <2>2, <2>6, <2>7, <3>1, RepairsAlone
  <2>12. Reversed'
    BY <1>1, <1>9, <2>6, <2>7, ReversedKept DEF JobsInv
  <2>13. Labours' /\ SettledOnce'
    BY <1>9 DEF JobsInv, Labours, SettledOnce
  <2> QED BY <2>2, <2>6, <2>7, <2>8, <2>10, <2>11, <2>12, <2>13, Assemble
<1> QED BY <1>7, <1>8, <1>9 DEF BookExpense

\* A job is flagged as reversed when its money is back and its revenue contraed.
LEMMA FlagKeeps ==
  ASSUME JobsInv, NEW t \in Tx, Flag(t)
  PROVE  JobsInv'
<1> DEFINE id  == P(t)
           old == prints[P(t)]
<1> USE DEF cash, outside
<1>1. Tables /\ Asked(t) /\ Doing(t)
  BY DEF JobsInv
<1>2. ~Ended(t) /\ tx[t].pc = "flag" /\ R(t).op = "reverse"
  BY <1>1 DEF Flag, Asked, At, Ended, R
<1>3. id \in DOMAIN prints /\ id \in Id /\ old \in PrintRow
  BY <1>2, PrintOf
<1>4. moved["reversal"][id] >= old.total /\ booked["reversal"][id] >= old.total
  BY <1>1, <1>2 DEF Doing, R, P
<1>5. CASE Refuse(t) /\ UNCHANGED outside
  BY <1>5, RefuseKeeps
<1>6. CASE /\ prints' = [prints EXCEPT ![id].reversed = TRUE] /\ Commit(t, "done")
           /\ UNCHANGED <<jobs, sales, payouts, paper, cash, booked, owed, parts, outside>>
  <2>1. PICK x \in TxState : tx' = [tx EXCEPT ![t] = x] /\ x.pc = "idle"
    BY <1>1, <1>6, CommitTo DEF Pcs
  <2>2. PICK p : p = [old EXCEPT !.reversed = TRUE]
    OBVIOUS
  <2>3. p \in PrintRow /\ p.total = old.total /\ p.payout = old.payout /\ p.labour = old.labour
    BY <1>3, <2>2 DEF PrintRow
  <2>4. /\ prints' \in Seq(PrintRow) /\ Len(prints') = Len(prints) /\ DOMAIN prints' = DOMAIN prints
        /\ \A i \in DOMAIN prints : prints'[i] = IF i = id THEN p ELSE prints[i]
    <3>1. prints' = [prints EXCEPT ![id] = p] /\ DOMAIN prints = 1 .. Len(prints)
      BY <1>1, <1>6, <2>2, LenProperties DEF Tables
    <3> QED BY <1>1, <1>3, <2>3, <3>1, ExceptSeq, LenProperties DEF Tables
  <2>5. Tables'
    BY <1>1, <1>6, <2>1, <2>4 DEF Tables
  <2>6. \A i \in DOMAIN prints : /\ prints'[i].total = prints[i].total
                                 /\ prints'[i].payout = prints[i].payout /\ prints'[i].labour = prints[i].labour
    BY <2>3, <2>4
  <2>7. Grows
    BY <1>1, <1>6, <2>4, <2>6, Entries DEF Grows
  <2>8. Asked(t)' /\ Doing(t)'
    BY <1>1, <2>1, EndedFits
  <2>9. Deposits' /\ Repairers' /\ Collected' /\ Sold' /\ CollectionCovered'
    BY <1>6, <2>1, <2>5, <2>7, RepairsAlone
  <2>10. Reversed'
    <3> SUFFICES ASSUME NEW i \in DOMAIN prints', prints'[i].reversed
                 PROVE  moved["reversal"][i] >= prints'[i].total /\ booked["reversal"][i] >= prints'[i].total
      BY <1>6 DEF Reversed
    <3>1. CASE i = id
      BY <1>4, <2>4, <2>6, <3>1
    <3>2. CASE i # id
      BY <2>4, <3>2 DEF JobsInv, Reversed
    <3> QED BY <3>1, <3>2
  <2>11. Labours' /\ SettledOnce'
    BY <1>1, <1>6, <2>4, <2>5, <2>6, <2>7, LaboursKept, SettledKept DEF JobsInv
  <2> QED BY <2>1, <2>5, <2>7, <2>8, <2>9, <2>10, <2>11, Assemble
<1> QED BY <1>5, <1>6 DEF Flag

\* The first settlement of a job's labour is its only one.
LEMMA SettleKeeps ==
  ASSUME JobsInv, NEW t \in Tx, SettleJob(t)
  PROVE  JobsInv'
<1> DEFINE id  == P(t)
           old == prints[P(t)]
           n   == Labour(t)
           no  == Len(payouts) + 1
<1> USE DEF cash, outside
<1>1. Tables /\ Asked(t) /\ Doing(t)
  BY DEF JobsInv
<1>2. ~Ended(t) /\ tx[t].pc = "settle" /\ R(t).op \in {"pay", "dismiss"}
  BY <1>1 DEF SettleJob, Asked, At, Ended, R
<1>3. id \in DOMAIN prints /\ id \in Id /\ old \in PrintRow /\ id \in Nat
  BY <1>2, PrintOf DEF Id
<1>4. R(t) \in Request /\ R(t).till \in Till \cup {None} /\ n \in Nat
  BY <1>1, <1>2, Entries, Requests DEF R, Labour
<1>5. R(t).till # None => moved["labour"][id] >= n
  <2>1. CASE R(t).op = "pay"
    BY <1>1, <1>2, <2>1 DEF Doing, R, P, Labour
  <2>2. CASE R(t).op = "dismiss"
    <3>1. n = 0 /\ moved["labour"][id] \in Nat
      BY <1>1, <1>3, <2>2, Entries DEF Labour, Movements
    <3> QED BY <3>1
  <2> QED BY <1>2, <2>1, <2>2
<1>6. CASE Refuse(t) /\ UNCHANGED outside
  BY <1>6, RefuseKeeps
<1>7. CASE /\ old.payout = 0
           /\ payouts' = Append(payouts, [job |-> id, amount |-> n, till |-> R(t).till])
           /\ prints' = [prints EXCEPT ![id].payout = Len(payouts'), ![id].labour = n]
           /\ Commit(t, "done")
           /\ UNCHANGED <<jobs, sales, paper, cash, booked, owed, parts, outside>>
  <2> HIDE DEF n
  <2>1. PICK x \in TxState : tx' = [tx EXCEPT ![t] = x] /\ x.pc = "idle"
    BY <1>1, <1>7, CommitTo DEF Pcs
  <2>2. PICK y : y = [job |-> id, amount |-> n, till |-> R(t).till]
    OBVIOUS
  <2>3. y \in Payout /\ y.job = id /\ y.amount = n /\ y.till = R(t).till
    BY <1>3, <1>4, <2>2 DEF Payout
  <2>4. Len(payouts) \in Nat /\ DOMAIN payouts = 1 .. Len(payouts)
    BY <1>1, LenProperties DEF Tables
  <2>5. /\ payouts' \in Seq(Payout) /\ Len(payouts') = no /\ no \notin DOMAIN payouts
        /\ DOMAIN payouts' = DOMAIN payouts \cup {no}
        /\ \A i \in DOMAIN payouts' : payouts'[i] = IF i = no THEN y ELSE payouts[i]
    <3>1. payouts' = Append(payouts, y)
      BY <1>7, <2>2
    <3>2. payouts' \in Seq(Payout) /\ Len(payouts') = no
      BY <1>1, <2>3, <3>1, AppendProperties DEF Tables
    <3>3. DOMAIN payouts' = 1 .. no
      BY <3>2, LenProperties
    <3>4. \A i \in 1 .. no : payouts'[i] = IF i = no THEN y ELSE payouts[i]
      BY <1>1, <2>3, <2>4, <3>1, AppendProperties DEF Tables
    <3> QED BY <2>4, <3>2, <3>3, <3>4
  <2>6. PICK q \in Nat : q = no /\ q > 0
    BY <2>4
  <2>7. PICK p : p = [old EXCEPT !.payout = q, !.labour = n]
    OBVIOUS
  <2>8. p \in PrintRow /\ p.total = old.total /\ p.payout = q /\ p.labour = n /\ p.reversed = old.reversed
    BY <1>3, <1>4, <2>7 DEF PrintRow
  <2>9. /\ prints' \in Seq(PrintRow) /\ Len(prints') = Len(prints) /\ DOMAIN prints' = DOMAIN prints
        /\ \A i \in DOMAIN prints : prints'[i] = IF i = id THEN p ELSE prints[i]
    <3>1. prints' = [prints EXCEPT ![id] = p] /\ DOMAIN prints = 1 .. Len(prints)
      BY <1>1, <1>7, <2>5, <2>6, <2>7, LenProperties DEF Tables
    <3> QED BY <1>1, <1>3, <2>8, <3>1, ExceptSeq, LenProperties DEF Tables
  <2>10. Tables'
    BY <1>1, <1>7, <2>1, <2>5, <2>9 DEF Tables
  <2>11. \A i \in DOMAIN prints : prints'[i].total = prints[i].total /\ prints'[i].reversed = prints[i].reversed
    BY <2>8, <2>9
  <2>12. Grows
    BY <1>1, <1>7, <2>9, <2>11, Entries DEF Grows
  <2>13. Asked(t)' /\ Doing(t)'
    BY <1>1, <2>1, EndedFits
  <2>14. Deposits' /\ Repairers' /\ Collected' /\ Sold' /\ CollectionCovered'
    BY <1>7, <2>1, <2>10, <2>12, RepairsAlone
  <2>15. Reversed'
    BY <1>1, <2>9, <2>10, <2>11, <2>12, ReversedKept DEF JobsInv
  <2>16. Labours'
    <3> SUFFICES ASSUME NEW i \in DOMAIN payouts'
                 PROVE  /\ payouts'[i].job \in DOMAIN prints
                        /\ payouts'[i].till # None => moved["labour"][payouts'[i].job] >= payouts'[i].amount
      BY <1>7, <2>9 DEF Labours
    <3>1. CASE i = no
      BY <1>3, <1>5, <2>3, <2>5, <3>1
    <3>2. CASE i # no
      BY <2>5, <3>2 DEF JobsInv, Labours
    <3> QED BY <3>1, <3>2
  <2>17. SettledOnce'
    <3> SUFFICES ASSUME NEW i \in DOMAIN prints
                 PROVE  LET S == {k \in DOMAIN payouts' : payouts'[k].job = i} IN
                        IF prints'[i].payout = 0 THEN S = {}
                        ELSE S = {prints'[i].payout} /\ payouts'[prints'[i].payout].amount = prints'[i].labour
      BY <2>9 DEF SettledOnce
    <3> DEFINE S == {k \in DOMAIN payouts : payouts[k].job = i}
               T == {k \in DOMAIN payouts' : payouts'[k].job = i}
    <3>1. IF prints[i].payout = 0 THEN S = {}
          ELSE S = {prints[i].payout} /\ payouts[prints[i].payout].amount = prints[i].labour
      BY DEF JobsInv, SettledOnce
    <3>2. CASE i = id
      <4>1. S = {}
        BY <1>7, <3>1, <3>2
      <4>2. T = {no}
        BY <2>3, <2>5, <3>2, <4>1
      <4>3. prints'[i].payout = q /\ prints'[i].labour = n
        BY <1>3, <2>8, <2>9, <3>2
      <4> QED BY <2>3, <2>5, <2>6, <4>2, <4>3
    <3>3. CASE i # id
      <4>1. T = S
        BY <2>3, <2>5, <3>3
      <4>2. prints'[i] = prints[i]
        BY <2>9, <3>3
      <4>3. ASSUME prints[i].payout # 0 PROVE payouts'[prints[i].payout] = payouts[prints[i].payout]
        <5>1. prints[i].payout \in DOMAIN payouts
          BY <3>1, <4>3
        <5> QED BY <2>5, <5>1
      <4> QED BY <3>1, <4>1, <4>2, <4>3
    <3> QED BY <3>2, <3>3
  <2> QED BY <2>1, <2>10, <2>12, <2>13, <2>14, <2>15, <2>16, <2>17, Assemble
<1> QED BY <1>6, <1>7 DEF SettleJob, Unsettled

-----------------------------------------------------------------------------
(***************************************************************************)
(* The theorems.                                                           *)
(***************************************************************************)
\* It holds at first: nothing is paid, nothing is sold, nothing is settled.
LEMMA JobsInvInit == Init => JobsInv
<1> SUFFICES ASSUME Init PROVE JobsInv
  OBVIOUS
<1>1. Tables
  <2>1. price \in Nat /\ today \in Nat
    BY JobsAssumption DEF Init
  <2>2. DOMAIN Component = 1 .. Len(Component)
    BY JobsAssumption, LenProperties
  <2>3. tx \in [Tx -> TxState]
    BY IdleFacts DEF Init
  <2>4. money \in [Till -> Int]
    BY JobsAssumption DEF Init
  <2>5. moved \in [Movements -> [Id -> Nat]] /\ booked \in [Movements -> [Id -> Nat]]
    BY DEF Init
  <2>6. sales \in Seq(Sale) /\ payouts \in Seq(Payout)
    BY EmptySeq DEF Init
  <2> QED BY <2>1, <2>2, <2>3, <2>4, <2>5, <2>6, JobsAssumption DEF Init, Tables
<1>2. \A t \in Tx : tx[t].pc = "idle"
  BY IdleFacts DEF Init
<1>3. ASSUME NEW t \in Tx PROVE Asked(t) /\ Doing(t)
  BY <1>2 DEF Asked, Doing, Ended
<1>4. \A j \in Id : Noted(j) = 0 /\ Paid(j) = 0
  BY JobsAssumption DEF Init, Noted, Paid
<1>5. \A k \in Movements, j \in Id : moved[k][j] = 0 /\ booked[k][j] = 0
  BY DEF Init
<1>6. Deposits
  <2> SUFFICES ASSUME NEW j \in Id PROVE Noted(j) + SumFunctionOnSet(Pending(j), Tx) <= moved["deposit"][j]
    BY DEF Deposits
  <2>1. \A t \in Tx : Pending(j)[t] = 0
    BY <1>2 DEF Pending, Owing
  <2>2. SumFunctionOnSet(Pending(j), Tx) = 0
    BY <2>1, SumNone, JobsAssumption
  <2> QED BY <1>4, <1>5, <2>2 DEF Movements
<1>7. Repairers
  BY <1>4, <1>5 DEF Repairers, Movements
<1>8. Collected
  BY JobsAssumption DEF Init, Collected
<1>9. Reversed
  BY JobsAssumption DEF Init, Reversed
<1>10. DOMAIN payouts = {} /\ DOMAIN sales = {}
  BY DEF Init
<1>11. Labours /\ Sold /\ CollectionCovered
  BY <1>10 DEF Labours, Sold, CollectionCovered, Init
<1>12. SettledOnce
  BY <1>10, JobsAssumption DEF SettledOnce, Init
<1> QED BY <1>1, <1>3, <1>6, <1>7, <1>8, <1>9, <1>11, <1>12 DEF JobsInv

\* Every step keeps it.
LEMMA JobsInvStep == JobsInv /\ [Next]_vars => JobsInv'
<1> SUFFICES ASSUME JobsInv, [Next]_vars PROVE JobsInv'
  OBVIOUS
<1>1. price \in Nat /\ today \in Nat /\ Price \subseteq Nat
  BY JobsAssumption DEF JobsInv, Tables
<1>2. CASE UNCHANGED vars
  BY <1>1, <1>2, OutsideKept DEF vars
<1>3. CASE Reprice
  BY <1>1, <1>3, OutsideKept DEF Reprice
<1>4. CASE NextDay
  BY <1>1, <1>4, OutsideKept DEF NextDay
<1>5. ASSUME NEW t \in Tx, Step(t) PROVE JobsInv'
  <2>1. CASE \E r \in Desk[t] : JobExists(t, r) /\ Begin(t, r)
    BY <2>1, BeginKeeps
  <2>2. CASE Cancelled(t)
    BY <2>2, CancelledKeeps
  <2>3. CASE Create(t) \/ Cancel(t)
    BY <2>3, CreateKeeps, CancelKeeps
  <2>4. CASE UpdateJobFields(t) \/ SetStatus(t) \/ AddPart(t) \/ AddCharge(t) \/ RemovePart(t) \/ RemoveCharge(t)
    BY <2>4, EditKeeps
  <2>5. CASE TakeDeposit(t) \/ PayRepairer(t)
    BY <2>5, TakeDepositKeeps, PayRepairerKeeps
  <2>6. CASE Collect(t) \/ Ring(t) \/ MarkCollected(t)
    BY <2>6, CollectKeeps, RingKeeps, MarkKeeps
  <2>7. CASE Rework(t) \/ ReadRefund(t) \/ ReturnParts(t)
    BY <2>7, ReworkKeeps, ReadRefundKeeps, ReturnKeeps
  <2>8. CASE SellPrint(t) \/ Record(t) \/ OwnUse(t)
    BY <2>8, SellPrintKeeps, OwnUseKeeps
  <2>9. CASE Check(t) \/ TakeOut(t) \/ BookExpense(t) \/ Flag(t) \/ SettleJob(t)
    BY <2>9, CheckKeeps, TakeOutKeeps, BookExpenseKeeps, FlagKeeps, SettleKeeps
  <2> QED BY <1>5, <2>1, <2>2, <2>3, <2>4, <2>5, <2>6, <2>7, <2>8, <2>9 DEF Step
<1> QED BY <1>2, <1>3, <1>4, <1>5 DEF Next

\* The invariant, of every behaviour.
LEMMA JobsInvAlways == Spec => []JobsInv
<1> QED BY JobsInvInit, JobsInvStep, PTL DEF Spec

\* The variables keep their types: among other things, no line of parts comes back
\* twice, whoever refunds it.
THEOREM JobsTypes == Spec => []TypeOK
<1>1. JobsInv => TypeOK
  <2> SUFFICES ASSUME JobsInv PROVE TypeOK
    OBVIOUS
  <2>1. Tables /\ owed \in Int
    BY DEF JobsInv, Sold
  <2>2. \A t \in Tx : tx[t].pc \in Pcs /\ tx[t].req \in Request /\ tx[t].seen \in Job
    BY <2>1 DEF Tables, TxState
  <2> QED BY <2>1, <2>2 DEF Tables, TypeOK
<1> QED BY <1>1, JobsInvAlways, PTL

\* No mark on a job is without its money, wherever any request is cut off: deposits,
\* repairers' pay, reversals, labour paid from a till, collections.
THEOREM MarksHaveMoney == Spec => []MarksBacked
<1>1. JobsInv => MarksBacked
  <2> SUFFICES ASSUME JobsInv PROVE MarksBacked
    OBVIOUS
  <2>1. ASSUME NEW j \in DOMAIN jobs
        PROVE  /\ jobs[j].dep <= moved["deposit"][j]
               /\ jobs[j].paid = moved["repairer"][j] /\ jobs[j].paid = booked["repairer"][j]
               /\ jobs[j].status = "collected" => sales[jobs[j].sale].job = j
    <3>1. j \in Id /\ jobs[j].dep <= moved["deposit"][j]
      BY <2>1, NotedPaidIn
    <3>2. Paid(j) = jobs[j].paid
      BY <2>1 DEF Paid
    <3>3. jobs[j].paid = moved["repairer"][j] /\ jobs[j].paid = booked["repairer"][j]
      BY <3>1, <3>2 DEF JobsInv, Repairers
    <3> QED BY <2>1, <3>1, <3>3 DEF JobsInv, Collected
  <2> QED BY <2>1 DEF MarksBacked, JobsInv, Reversed, Labours
<1> QED BY <1>1, JobsInvAlways, PTL

\* A print job's labour is settled once, whoever pays or dismisses it and however
\* many do.
THEOREM LabourSettledOnce == Spec => []SettledOnce
<1>1. JobsInv => SettledOnce
  BY DEF JobsInv
<1> QED BY <1>1, JobsInvAlways, PTL

\* A collection is paid for in full, and spends no more deposit than was paid in.
THEOREM CollectionsPaid == Spec => []CollectionCovered
<1>1. JobsInv => CollectionCovered
  BY DEF JobsInv
<1> QED BY <1>1, JobsInvAlways, PTL
=============================================================================
