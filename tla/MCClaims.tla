------------------------------ MODULE MCClaims ------------------------------
(***************************************************************************)
(* The warranty counter, and an office that sells and deals with suppliers. *)
(***************************************************************************)
EXTENDS Claims, TLC

CONSTANTS t1, t2, s1, s2, s3

Rq(op, serials, of, how) == [op |-> op, serials |-> serials, of |-> of, how |-> how]
Sell(serials)            == Rq("sell", serials, 0, "")
Make(source, of, how)    == Rq(source, <<>>, of, how)

McSales     == {Sell(<<s1>>), Sell(<<s1, s2>>), Sell(<<s2, s1>>), Sell(<<s3, s3>>)}
McCounter   == {Rq("replace", <<s2>>, 1, ""), Rq("replace", <<s3>>, 2, ""), Rq("receipt", <<>>, 0, "")}
McSuppliers == {Make("warranty", 1, "replacement"), Make("warranty", 2, "paid"),
                Make("damage", 1, "replacement"), Make("damage", 1, "written_off")}
McAll       == McSales \cup McCounter \cup McSuppliers
McDesks     == t1 :> (McSales \cup McCounter) @@ t2 :> (McSales \cup McSuppliers)
McLamps     == [t \in Tx |-> {Rq("receipt", <<>>, 0, "")}]
McShelf     == Phone :> 3 @@ Lamp :> 2
McDamaged   == <<2>>
=============================================================================
