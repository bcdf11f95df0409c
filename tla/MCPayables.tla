----------------------------- MODULE MCPayables -----------------------------
(***************************************************************************)
(* Supplier s1 is dealt with at every terminal: deliveries, payments and     *)
(* goods sent back cross there, over an open invoice and two unspent advances. *)
(* Supplier s2 is dealt with at one: orders, old debt and refunds.          *)
(***************************************************************************)
EXTENDS Dues, TLC

CONSTANTS t1, s1, s2, p1, p2, till, safe, bank

L(n, m)  == p1 :> n @@ p2 :> m
McPrice  == L(1, 2)

\* 1: three are still owed to s1.  2: a draft of both products at s2.
\* 3: an invoice of s2, three still owed.
Bl(status, s, n, m) == [status |-> status, sup |-> s, lines |-> L(n, m), total |-> n + 2 * m,
                        paid |-> 0, credited |-> 0, at |-> 0]
McPurchase == [i \in Purchase |-> IF i = 1 THEN Bl("received", s1, 3, 0)
                                  ELSE IF i = 2 THEN Bl("draft", s2, 2, 1)
                                  ELSE IF i = 3 THEN Bl("received", s2, 1, 1) ELSE Bl("none", s1, 0, 0)]
McOpening == s1 :> 0 @@ s2 :> 2
Advance(i, n, s) == [kind |-> "payment", id |-> i, sup |-> s, amount |-> n,
                  from |-> External]

\* The till's cash, the safe's, a transfer from the bank, one that is not followed.
By(desk, cash, from) == [desk |-> desk, cash |-> cash, from |-> from]
Till == By("counter", TRUE, till)
Safe == By("office", TRUE, safe)
Bank == By("office", FALSE, bank)
Nowhere == By("office", FALSE, External)
McHeld  == till :> 4 @@ safe :> 4 @@ bank :> 0
McFlags == till :> [shared |-> TRUE, below |-> FALSE] @@ safe :> [shared |-> TRUE, below |-> FALSE]
           @@ bank :> [shared |-> FALSE, below |-> TRUE]

Deliver(s, n, pay, by) == [op |-> "deliver", sup |-> s, lines |-> L(n, 0), pay |-> pay, by |-> by]
Pay(s, n, mode, by) == [op |-> "pay", sup |-> s, amount |-> n, mode |-> mode, by |-> by]
Back(s, n)          == [op |-> "return", sup |-> s, amount |-> n]
Refund(s, n, by)    == [op |-> "refund", sup |-> s, amount |-> n, by |-> by]
Receive(n, m, k, by) == [op |-> "receive", inv |-> 2, lines |-> L(n, m), pay |-> 1, keep |-> k, by |-> by]
Edit(n, m)          == [op |-> "edit", inv |-> 2, lines |-> L(n, m)]
Spend(n, by)        == [op |-> "expense", amount |-> n, by |-> by]
Order               == [op |-> "order", drafts |-> <<[sup |-> s1, lines |-> L(0, 1)],
                                                     [sup |-> s2, lines |-> L(1, 0)]>>]
OrderOne            == [op |-> "order", drafts |-> <<[sup |-> s2, lines |-> L(1, 0)]>>]
McOfS1 == {Deliver(s1, 2, 0, Safe), Deliver(s1, 3, 3, Till), Pay(s1, 4, "pay", Safe),
           Pay(s1, 2, "advance", Till), Back(s1, 4)}
McOfS2 == {Order, OrderOne, Edit(1, 2), [op |-> "drop", inv |-> 2], Receive(2, 0, TRUE, Nowhere),
           Receive(1, 2, FALSE, Till), Pay(s2, 3, "old", Bank), Pay(s2, 6, "pay", Nowhere), Back(s2, 6),
           Pay(s2, 2, "picked", By("counter", FALSE, safe)),
           Refund(s2, 1, Bank), Refund(s2, 3, Till), [op |-> "adjust", sup |-> s2, amount |-> 3],
           Deliver(s2, 2, 0, Till), Spend(2, By("office", TRUE, till)),
           [op |-> "correct", amount |-> 1], [op |-> "strike"],
           [op |-> "locker", place |-> safe, flags |-> [shared |-> FALSE, below |-> FALSE]]}
McMix  == McOfS1 \cup McOfS2
McOwn  == [t \in Tx |-> IF t = t1 THEN McOfS2 ELSE McOfS1]
McAll  == [t \in Tx |-> Request]
McBook == {Advance(-1, 2, s1), Advance(0, 5, s1)}

McAgeLimits == <<0, 1, 2>>
McTerms == s1 :> 1 @@ s2 :> 0

McSymmetry == Permutations(Tx \ {t1})

McTwoReceives == {Receive(2, 1, FALSE, Nowhere), Receive(2, 0, FALSE, Nowhere)}
McTwoRefunds  == {Refund(s1, 3, Bank), Deliver(s1, 2, 0, Safe)}
=============================================================================
