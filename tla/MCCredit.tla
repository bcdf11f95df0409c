------------------------------ MODULE MCCredit ------------------------------
(***************************************************************************)
(* A customer whose sale is returned line by line, pays and buys at several *)
(* terminals; a customer whom one terminal serves, with every operation;    *)
(* and buyers without a name.                                              *)
(***************************************************************************)
EXTENDS Accounts, TLC

CONSTANTS t1, till, safe, m1, m2, m1d, s1, s2, s3, s4, s5, i1, i2, i3, i4, i5, i6, p1, p2, p3

c1 == 1
c2 == 2

Bl(cust, lines, total, paidNow, account) ==
    [cust |-> cust, lines |-> lines, total |-> total, paid |-> paidNow, account |-> account,
     given |-> 0, keep |-> FALSE, over |-> FALSE]

Line(p, q, net) == [product |-> p, qty |-> q, net |-> net]
McLines == i1 :> Line(p1, 2, 4) @@ i2 :> Line(p2, 1, 2) @@ i3 :> Line(p3, 1, 3) @@ i4 :> Line(p2, 1, 1)
        @@ i5 :> Line(p1, 2, 5) @@ i6 :> Line(p3, 1, 3)

Sl(s)      == [op |-> "sale", sale |-> s]
Whole(s)   == [op |-> "return", sale |-> s]
Back(s, P) == [op |-> "partial", sale |-> s, parts |-> P]
Of(i, n)   == [item |-> i, n |-> n]
Pay(op, c, n, cash, to, old) ==
    [op |-> op, cust |-> c, amount |-> n, cash |-> cash, to |-> to, old |-> old]
Fix(n)    == [op |-> "adjust", cust |-> c2, amount |-> n]
Lim(n)    == [op |-> "limit", cust |-> c2, amount |-> n]
Edi(n, p) == [op |-> "edit", cust |-> c2, amount |-> n, phone |-> p]
New(op, p, n, old) == [op |-> op, phone |-> p, amount |-> n, opening |-> old]
Flag(op)  == [op |-> op, cust |-> c2]

McGoods   == [p \in Product |-> IF p = p1 THEN 1 ELSE 2]
McStatus  == s1 :> "credit" @@ s2 :> "none" @@ s3 :> "none" @@ s4 :> "credit" @@ s5 :> "none"
McOpening == [c \in Customer |-> IF c \in {c1, c2} THEN 3 ELSE 0]
McPhone   == [c \in Customer |-> CASE c = c1 -> m1 [] c = c2 -> m2 [] OTHER -> NoPhone]
McPlain   == [n \in Phone |-> IF n = m1d THEN m1 ELSE n]
McAges    == <<0, 1>>
McLimit   == [c \in Customer |-> IF c = c1 THEN 15 ELSE 8]

\* c1: s1 and s2 all on account.
\* c2: s3 overpaid with change left as an advance, s4 half paid, with a discount on the
\* bill and a unit value that is rounded up, s5 on account within the limit.
McBills == s1 :> Bl(c1, <<i1, i2>>, 6, 0, 6)
        @@ s2 :> [Bl(c1, <<i3>>, 3, 0, 3) EXCEPT !.over = TRUE]
        @@ s3 :> [Bl(c2, <<i4>>, 1, 4, 0) EXCEPT !.keep = TRUE, !.given = 1]
        @@ s4 :> Bl(c2, <<i5>>, 4, 2, 2)
        @@ s5 :> Bl(c2, <<i6>>, 3, 0, 3)

McOfC1 == {Sl(s2), Back(s1, <<Of(i1, 1)>>),
           Back(s1, <<Of(i1, 2), Of(i2, 1)>>), Back(s2, <<Of(i3, 1)>>), Pay("till", c1, 4, TRUE, till, FALSE)}
McOfC2 == {Sl(s3), Sl(s5), Whole(s4), Whole(s5), Back(s4, <<Of(i5, 1)>>), Pay("office", c2, 5, TRUE, safe, TRUE),
           Pay("api", c2, 1, TRUE, till, FALSE),
           Fix(-1), Lim(4), Edi(2, m1d), Flag("disable"), Flag("restore"),
           New("create", m1d, 2, 0), New("import", m2, 1, 6), New("import", m1d, 0, 2)}

\* c2 is served at one terminal.
McMix == McOfC1 \cup McOfC2
McAll == [t \in Tx |-> Request]
McOwn == [t \in Tx |-> IF t = t1 THEN McOfC2 ELSE McOfC1]

McSymmetry == Permutations(Tx \ {t1})

McWholes == {Whole(s1), Sl(s2), Pay("till", c1, 4, TRUE, till, FALSE)}
McOlds   == {Pay("office", c1, 2, FALSE, safe, TRUE), Pay("office", c1, 4, FALSE, safe, TRUE), Sl(s2)}
McBacks  == {Back(s4, <<Of(i5, 1)>>), Sl(s5), Pay("till", c2, 2, FALSE, till, FALSE)}

\* "the running balance reconciles to the current outstanding balance" (Statement):
\* under CreditMix.cfg it does not, where something has no entry.
StatementReconciles == AtRest => \A c \in Customer : ClosingBalance(c) = com[c].out
=============================================================================
