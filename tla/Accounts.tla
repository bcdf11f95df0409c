------------------------------ MODULE Accounts ------------------------------
(***************************************************************************)
(* What the shop reads about its customers: a customer's statement, the dues  *)
(* by age, the till's list of debtors, the repayments of a period, and the    *)
(* sheet that is exported, edited and imported again (customers.Statement,    *)
(* Owing and ListPayments, internal/web/admin_reports.go, cashier.go,         *)
(* import_customers.go).  Each is computed from committed rows.               *)
(*                                                                         *)
(* A date is the number of the request that wrote the row, today the last     *)
(* request's.                                                              *)
(***************************************************************************)
EXTENDS Credit

CONSTANTS AgeLimits,  \* the ages that part the buckets (30, 60 and 90 days)
          ListLimit   \* how many customers a list shows at most (100)

ASSUME AccountsAssumption == AgeLimits \in Seq(Nat) /\ ListLimit \in Nat

Total(f(_), S) == MapThenSumSet(f, S)

Active == {c \in Customer : com[c].state = "active"}

\* The first customers of a list; the names are taken to be in the order of the ids.
FirstOf(S) == {c \in S : Cardinality({k \in S : k < c}) < ListLimit}

\* List: the customers a counter can pick; ListAll shows the disabled ones as well.
List    == FirstOf(Active)
ListAll == LET off == {c \in Customer : com[c].state = "disabled"}
           IN FirstOf(Active) \cup {c \in FirstOf(off) : Cardinality(Active) + Cardinality({k \in off : k < c}) < ListLimit}

\* The office's list, with or without the disabled customers.
CustomerRows(inactive) == IF inactive THEN ListAll ELSE List

-----------------------------------------------------------------------------
\* The entries of a statement, debits positive: an opening debt (not an opening
\* credit), what sales left unpaid, the slips of returned lines, and the repayments.
Statement(c) ==
    {[at |-> -1, id |-> 0, n |-> Larger(com[c].gross, 0)]}
    \cup {[at |-> x.at, id |-> x.sale, n |-> Owed(x.sale)] :
            x \in {y \in rung : Bill[y.sale].cust = c /\ Owed(y.sale) > 0}}
    \cup {[at |-> x.id, id |-> 0, n |-> -x.credit] :
            x \in {y \in returned : y.slip /\ Bill[y.sale].cust = c /\ y.credit > 0}}
    \cup {[at |-> x.id, id |-> 0, n |-> -x.amount] : x \in {y \in paid : y.cust = c}}

\* The running balance it ends with.
ClosingBalance(c) == Total(LAMBDA e : e.n, Statement(c))

-----------------------------------------------------------------------------
\* Active customers who owe; a debt is dated by the oldest sale still on credit,
\* whether or not it has been paid since.
Owing     == {c \in Active : com[c].out > 0}
Credits(c) == {x.at : x \in {y \in rung : Bill[y.sale].cust = c /\ com[y.sale] = "credit"}}

\* In days since that sale, 0 when there is none.
Age(c) == IF Credits(c) = {} THEN 0 ELSE served - Min(Credits(c))

Bucket(c)    == 1 + Cardinality({k \in DOMAIN AgeLimits : Age(c) > AgeLimits[k]})
OverLimit(c) == com[c].limit > 0 /\ com[c].out > com[c].limit

DueOf(S) == Total(LAMBDA c : com[c].out, S)

CustomerDuesReport ==
    [rows    |-> {[cust |-> c, due |-> com[c].out, age |-> Age(c), over |-> OverLimit(c)] : c \in Owing},
     due     |-> DueOf(Owing),
     oldest  |-> Max({0} \cup {Age(c) : c \in Owing}),
     over    |-> Cardinality({c \in Owing : OverLimit(c)}),
     buckets |-> [k \in 1 .. Len(AgeLimits) + 1 |-> DueOf({c \in Owing : Bucket(c) = k})]]

\* The till's own list of debtors, made from the list it picks customers from.
CreditList == {c \in List : com[c].out > 0}

-----------------------------------------------------------------------------
\* The receipts of repayments dated in a period, and what one shows.
ListPayments(from, to) == {x \in paid : from <= x.id /\ x.id < to}

DebtReceipt(x) == [paid |-> x.amount, before |-> x.before, after |-> x.before - x.amount,
                   phone |-> com[x.cust].phone]

\* A receipt shown or printed again later.
DebtReceiptView(id) == {DebtReceipt(x) : x \in {y \in paid : y.id = id}}

-----------------------------------------------------------------------------
\* The sheet: what a customer owes now stands in the column of the opening debt.
Export == {[op |-> "import", phone |-> com[c].phone, amount |-> com[c].limit,
            opening |-> com[c].out] : c \in Active}

\* The lines of a file, one after the other, each in a transaction of its own.
ImportAll(d, rows) == FoldSet(LAMBDA r, e : ImportOne(e, r), d, rows)

\* Every active customer has a number, and no two have the same.
Tellable == \A c \in Active : com[c].phone # NoPhone /\ \A k \in Active : com[k].phone = com[c].phone => k = c

-----------------------------------------------------------------------------
\* Any transaction may be cancelled, so what is committed at some moment is also
\* what is committed at a moment when nothing is in progress.
AtRest == \A t \in Tx : At(t, "idle")

Untold(c) == Larger(com[c].gross, 0) - com[c].gross
             + Total(LAMBDA s : Kept(Bill[s]), SalesTo(c))
             + Total(LAMBDA x : x.credit, {x \in returned : ~x.slip /\ Bill[x.sale].cust = c})

\* The pages agree with the balance: a statement ends with what is owed, but for
\* what it has no entry for (an opening credit, change left as an advance, a whole
\* return); every due is in one bucket and on the till's list; an export imported
\* as it is leaves every customer, and every balance, alone.
AccountsAgree ==
    AtRest =>
    /\ \A c \in Customer : ClosingBalance(c) = com[c].out + Untold(c)
    /\ LET d == CustomerDuesReport
       IN /\ d.due = Total(LAMBDA k : d.buckets[k], DOMAIN d.buckets)
          /\ d.due = DueOf(CreditList)
          /\ d.over <= Cardinality(d.rows)
    /\ Tellable => LET people == [c \in Customer |-> com[c]] IN ImportAll(people, Export) = people

\* The credit a customer has is what one desk says it is, where no other serves the
\* customer: the slip of a repayment shows the balance it leaves.
Touches(r) == IF r.op \in {"sale", "return", "partial"} THEN Bill[r.sale].cust
             ELSE IF r.op \in Repayments \cup {"adjust"} THEN r.cust ELSE NoCustomer

OneDesk(c) == \A t, u \in Tx : (\E r \in Desk[t] : Touches(r) = c) /\ (\E r \in Desk[u] : Touches(r) = c) => t = u

SlipsTell == [][\A x \in paid' \ paid : OneDesk(x.cust) => x.before - x.amount = com'[x.cust].out]_vars

\* What a request reads of a customer without a lock - the limit, the balance on a
\* slip - still holds when it commits, where one desk serves the customer.
ReadsHold == LimitRespected /\ SlipsTell
=============================================================================
