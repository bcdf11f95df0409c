-------------------------------- MODULE Dues --------------------------------
(***************************************************************************)
(* What the office reads about its suppliers: a supplier's statement, the     *)
(* dues by age, the purchases of a period and the spend per supplier          *)
(* (suppliers.Statement, suppliers.Owing, reports.SupplierSpend and           *)
(* internal/web/admin_reports.go).  Each is computed from committed rows.     *)
(*                                                                         *)
(* A date is the number of the request that wrote the row, today the last     *)
(* request's.  A draft keeps its date when its goods come.                   *)
(***************************************************************************)
EXTENDS Payables, SequencesExt

CONSTANTS AgeLimits,    \* the ages that part the buckets (30, 60 and 90 days)
          CreditDays    \* a supplier's payment terms, 0 when there are none

ASSUME DuesAssumption == /\ AgeLimits \in Seq(Nat)
                         /\ CreditDays \in [Supplier -> Nat]

Total(f(_), S) == MapThenSumSet(f, S)

Owed(S) == Total(LAMBDA s : com[s].out, S)

-----------------------------------------------------------------------------
\* Mutant: the goods sent back are not itemised.
StatementOfPayments(s) ==
    {[at |-> 0, id |-> 0, n |-> com[s].gross]}
    \cup {[at |-> com[i].at, id |-> i, n |-> com[i].total] : i \in Bills(s)}
    \cup {[at |-> x.id, id |-> 0, n |-> -x.amount] : x \in {y \in Docs("payment") : y.sup = s}}

\* The entries of a statement: the opening balance, purchases, returns and
\* payments, debits positive.  (Payments of before are dated at or before 0.)
Statement(s) ==
    {[at |-> 0, id |-> -1, n |-> com[s].gross]}
    \cup {[at |-> com[i].at, id |-> i, n |-> com[i].total] : i \in Bills(s)}
    \cup {[at |-> x.id, id |-> 0, n |-> -x.amount] :
            x \in {y \in Docs("payment") \cup Docs("return") : y.sup = s}}

\* The running balance it ends with.
ClosingBalance(s) == Total(LAMBDA e : e.n, Statement(s))

-----------------------------------------------------------------------------
Owing == {s \in Supplier : com[s].out > 0}

\* Mutant: an invoice partly paid is taken for a paid one.
NeverPaid(s) == {i \in Bills(s) : com[i].paid = 0 /\ com[i].total > 0}

\* The invoices that date a debt; what was credited to one is not looked at.
Unpaid(s) == {i \in Bills(s) : com[i].total > com[i].paid}

\* In days since the oldest of them, 0 when there is none.
Age(s) == IF Unpaid(s) = {} THEN 0 ELSE served - Min({com[i].at : i \in Unpaid(s)})

Bucket(s)  == 1 + Cardinality({k \in DOMAIN AgeLimits : Age(s) > AgeLimits[k]})
Overdue(s) == CreditDays[s] > 0 /\ Unpaid(s) # {} /\ Age(s) > CreditDays[s]

SupplierDuesReport ==
    [due     |-> Owed(Owing),
     buckets |-> [k \in 1 .. Len(AgeLimits) + 1 |-> Owed({s \in Owing : Bucket(s) = k})],
     overdue |-> Owed({s \in Owing : Overdue(s)})]

-----------------------------------------------------------------------------
Figures(S) == [count |-> Cardinality(S),
               total |-> Total(LAMBDA i : com[i].total, S),
               paid  |-> Total(LAMBDA i : com[i].paid, S),
               due   |-> Total(LAMBDA i : com[i].total - com[i].paid, S)]

\* ListBetween: the purchases taken in that are dated in a period.
ListBetween(from, to) == {i \in Booked : from <= com[i].at /\ com[i].at < to}

PurchasesReport(from, to) == Figures(ListBetween(from, to))

\* One row for each supplier something was bought from.
SupplierSpend(from, to) ==
    [s \in {com[i].sup : i \in ListBetween(from, to)} |->
       Figures({i \in ListBetween(from, to) : com[i].sup = s})]

SupplierSpendReport(from, to) ==
    LET rows == SupplierSpend(from, to)
    IN [count |-> Total(LAMBDA s : rows[s].count, DOMAIN rows),
        total |-> Total(LAMBDA s : rows[s].total, DOMAIN rows),
        paid  |-> Total(LAMBDA s : rows[s].paid, DOMAIN rows),
        due   |-> Total(LAMBDA s : rows[s].due, DOMAIN rows)]

-----------------------------------------------------------------------------
\* Any transaction may be cancelled, so what is committed at some moment is also
\* what is committed at a moment when nothing is in progress.
AtRest == \A t \in Tx : At(t, "idle")

\* The pages agree with the payable, whatever is committed: a statement ends with
\* what is owed, less the refunds it has no entries for; what is owed beyond the
\* old debt has an invoice that dates it; every due is in one bucket; and the
\* spend of a period, split by supplier, is its purchases.
DuesAgree ==
    AtRest =>
    /\ \A s \in Supplier : ClosingBalance(s) = com[s].out - Sum("refund", s)
    /\ \A s \in Owing : com[s].out > com[s].opening => Unpaid(s) # {}
    /\ LET d == SupplierDuesReport
       IN d.due = Total(LAMBDA k : d.buckets[k], DOMAIN d.buckets) /\ d.overdue <= d.due
    /\ \A from \in 0 .. served : SupplierSpendReport(from, served + 1) = PurchasesReport(from, served + 1)
=============================================================================
