------------------------------- MODULE Debts -------------------------------
(***************************************************************************)
(* What the shop promises of its customers' accounts: a sale, a return and  *)
(* a repayment are one step each, which moves the balance by just what is   *)
(* put on record.  Credit implements it (KeepsAccounts), though there each   *)
(* takes several statements of a transaction, beside those of others.        *)
(***************************************************************************)
EXTENDS Integers

CONSTANTS Customer,              \* whose accounts they are
          Sale, Buyer, Charged,  \* the sales: to whom, and what each puts on account
          Unpaid,                \* the most that returns of each may take off at a time
          Amount,                \* what may be repaid
          Before, Start          \* the sales made before, and what they left each customer owing

VARIABLES balance,   \* what each customer owes, beyond the opening debt
          sold,      \* the sales on record
          credited,  \* what returns of each sale have taken off
          repaid     \* what each customer has repaid

vars == <<balance, sold, credited, repaid>>

Init ==
    /\ sold = Before
    /\ credited = [s \in Sale |-> 0] /\ repaid = [c \in Customer |-> 0]
    /\ balance = Start

\* c owes n more; a buyer without an account owes nothing.
Owes(c, n) == balance' = [k \in Customer |-> balance[k] + IF k = c THEN n ELSE 0]

Sell(s) ==
    /\ s \notin sold
    /\ sold' = sold \cup {s}
    /\ Owes(Buyer[s], Charged[s])
    /\ UNCHANGED <<credited, repaid>>

Return(s, n) ==
    /\ s \in sold
    /\ credited' = [credited EXCEPT ![s] = @ + n]
    /\ Owes(Buyer[s], -n)
    /\ UNCHANGED <<sold, repaid>>

Repay(c, n) ==
    /\ repaid' = [repaid EXCEPT ![c] = @ + n]
    /\ Owes(c, -n)
    /\ UNCHANGED <<sold, credited>>

Next == \/ \E s \in Sale : Sell(s) \/ \E n \in 0 .. Unpaid[s] : Return(s, n)
        \/ \E c \in Customer, n \in Amount : Repay(c, n)

Spec == Init /\ [][Next]_vars
=============================================================================
