------------------------------ MODULE MCStock -------------------------------
(***************************************************************************)
(* One product with two lots (the second expires first), a second product   *)
(* for what two-line requests touch, a third whose stock is taken, and every*)
(* kind of line.                                                           *)
(***************************************************************************)
EXTENDS Stock, TLC

CONSTANTS p1, p2, p3, t1

Ln(kind, p, q, lot, over) == [kind |-> kind, p |-> p, q |-> q, lot |-> lot, over |-> over]

\* Lots 1 and 2 of p1 hold two and one units, lot 3 of p2 one, lot 4 of p3 two.
McOwner  == [l \in Lot |-> IF l = 3 THEN p2 ELSE IF l = 4 THEN p3 ELSE p1]
McQty    == [l \in Lot |-> IF l \in {1, 4} THEN 2 ELSE IF l \in {2, 3} THEN 1 ELSE 0]
McStock  == [p \in Product |-> IF p = p1 THEN 3 ELSE IF p = p2 THEN 1 ELSE 2]
McExpiry == [l \in Lot |-> IF l = 2 THEN 1 ELSE 2]

SaleFefo   == <<Ln("sale", p1, 2, NoLot, FALSE)>>
SaleOver   == <<Ln("sale", p1, 3, NoLot, TRUE)>>
SalePicked == <<Ln("sale", p1, 1, 1, TRUE)>>
SaleTwo    == <<Ln("sale", p1, 1, NoLot, FALSE), Ln("sale", p2, 1, NoLot, FALSE)>>
SaleTwoR   == <<Ln("sale", p2, 1, NoLot, FALSE), Ln("sale", p1, 1, NoLot, FALSE)>>
WriteOff   == <<Ln("consume", p1, 1, 2, FALSE)>>
Convert    == <<Ln("consume", p1, 1, NoLot, FALSE), Ln("receive", p2, 2, NoLot, FALSE)>>
Delivery   == <<Ln("receive", p1, 2, NoLot, FALSE)>>
Recovery   == <<Ln("recover", p1, 1, NoLot, FALSE)>>
ReturnLot  == <<Ln("return", p1, 1, 1, FALSE)>>
ReturnBad  == <<Ln("return", p1, 1, NoLot, FALSE), Ln("consume", p1, 1, NoLot, FALSE)>>
CountDown  == <<Ln("adjust", p1, 1, NoLot, FALSE)>>

\* Stock-taking of p3.
CountsOf3 == {<<Ln("adjust", p3, n, NoLot, FALSE)>> : n \in {0, 3}} \cup {<<Ln("adjust", p3, 1, 4, FALSE)>>}
WorkOn3   == {<<Ln("sale", p3, 2, NoLot, TRUE)>>, <<Ln("receive", p3, 1, NoLot, FALSE)>>,
              <<Ln("sale", p3, 1, NoLot, FALSE), Ln("sale", p1, 1, NoLot, FALSE)>>}

McShop  == {SaleFefo, SaleOver, SalePicked, SaleTwo, SaleTwoR, WriteOff,
            Delivery, Recovery, ReturnLot, ReturnBad, Convert}
McCount == CountsOf3 \cup WorkOn3
McMix   == McShop \cup McCount
McDrift == {SaleFefo, Delivery, CountDown}

\* What happens to p3, which is being counted, happens at one terminal.
McAll  == [t \in Tx |-> Request]
McOne3 == [t \in Tx |-> IF t = t1 THEN Request ELSE McShop]
McSymmetry == Permutations(Tx \ {t1})
=============================================================================
