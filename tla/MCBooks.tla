------------------------------ MODULE MCBooks -------------------------------
(***************************************************************************)
(* A product in two lots of different cost, one with a price of its own, a  *)
(* second whose cost was left blank, a service made of it, and airtime.      *)
(***************************************************************************)
EXTENDS Pages

CONSTANTS soap, card, print, airtime

Row(price, cost) == [service |-> FALSE, through |-> FALSE, price |-> price, wholesale |-> 0,
                     tax |-> 0, cost |-> cost, recipe |-> <<>>, category |-> "home"]
Card(per, yield) == [product |-> card, per |-> per, yield |-> yield]

Catalogue(made) ==
    [p \in {soap, card, print, airtime} |->
       CASE p = soap    -> [Row(205, 101) EXCEPT !.tax = 15, !.wholesale = 190]
         [] p = card    -> [Row(31, 17) EXCEPT !.category = "paper"]
         [] p = print   -> [Row(95, 0) EXCEPT !.service = TRUE, !.recipe = <<made>>, !.category = "paper"]
         [] p = airtime -> [Row(0, 0) EXCEPT !.service = TRUE, !.through = TRUE]]

McProduct == Catalogue(Card(0, 2))
McGoods   == {soap, card}
McLots    == << Lot(soap, 2, 100, 0), Lot(soap, 3, 107, 215), Lot(card, 2, 0, 0) >>

Plain     == [type |-> "fixed", value |-> 0]
Off(v)    == [type |-> "fixed", value |-> v]
Pct(v)    == [type |-> "percent", value |-> v]

Item(p, n, d)  == [product |-> p, qty |-> n, discount |-> d, lot |-> 0, amount |-> 0, oversell |-> TRUE]
Picked(p, n, l) == [Item(p, n, Plain) EXCEPT !.lot = l]
Top(v)         == [Item(airtime, 1, Plain) EXCEPT !.amount = v]
Basket(ls, d)  == [lines |-> ls, discount |-> d, wholesale |-> FALSE, cashier |-> "ann"]

McBill == {Basket(<<Item(soap, 3, Off(20))>>, Plain),
           Basket(<<Picked(soap, 2, 2), Item(card, 3, Pct(10))>>, Pct(7)),
           Basket(<<Item(print, 3, Plain), Top(50)>>, Off(5)),
           [Basket(<<Item(soap, 3, Plain)>>, Off(10)) EXCEPT !.wholesale = TRUE, !.cashier = "ben"]}

\* Both sales of one day.
McWhen == << [day |-> 1, hour |-> 9], [day |-> 1, hour |-> 17] >>

McSix    == Catalogue(Card(0, 6))
McPrints == {Basket(<<Item(print, 6, Plain)>>, Plain)}
=============================================================================
