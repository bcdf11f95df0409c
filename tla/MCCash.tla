------------------------------- MODULE MCCash -------------------------------
(***************************************************************************)
(* Two cashiers, a safe that may not go negative and a bank, and a few      *)
(* amounts around what they hold.                                          *)
(***************************************************************************)
EXTENDS Cash, TLC

CONSTANTS u1, u2, safe, bank

Rq(op, from, to, amount) == [op |-> op, from |-> from, to |-> to, amount |-> amount, neg |-> FALSE]

McBalance == [k \in Locker |-> IF k = safe THEN 2 ELSE 1]

Drawer(u) == {Rq("open", safe, u, 2), Rq("sale", External, u, 1),
              Rq("payin", bank, u, 1), Rq("payin", External, u, 1),
              Rq("withdraw", u, safe, 2), Rq("close", u, safe, 2), Rq("close", u, External, 0)}

Transfers == {Rq("move", safe, bank, 2), Rq("move", bank, safe, 1),
              Rq("move", u1, u2, 1), Rq("move", u2, u1, 2), Rq("move", u1, External, 2)}

Flags == {[Rq("allow", safe, safe, 0) EXCEPT !.neg = b] : b \in BOOLEAN}

\* Moves beside sales, opens and closes, pay-ins and a withdrawal.
McMoves == Transfers \cup Flags
           \cup {Rq("open", safe, u1, 2), Rq("open", External, u2, 1), Rq("payin", safe, u1, 1),
                 Rq("sale", External, u1, 1), Rq("close", u1, bank, 2), Rq("withdraw", u1, safe, 1)}
McAll   == [t \in Tx |-> Request]

McSymmetry == Permutations(Tx)

\* One cashier at two terminals.
McTwice == Drawer(u1)
=============================================================================
