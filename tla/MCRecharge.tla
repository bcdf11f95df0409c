----------------------------- MODULE MCRecharge -----------------------------
(***************************************************************************)
(* One phone and one that is not there yet; one till that opens twice.      *)
(***************************************************************************)
EXTENDS Float

CONSTANTS t1, k1, d1, d2, safe, vault, A, B

Rq(op, k, d, acct, cash, n, svc, mode, of) ==
    [op |-> op, till |-> k, dev |-> d, acct |-> acct, cash |-> cash, amount |-> n, svc |-> svc,
     mode |-> mode, of |-> of]
Dev(op, k, n, svc, mode) == Rq(op, k, d1, None, None, n, svc, mode, 0)
Undo(k, mode, of)     == Rq("reverse", k, None, None, None, 1, 0, mode, of)
Topup(n)                == Rq("refill", None, d1, None, safe, n, 0, "", 0)

McOffice  == Rq("getmoney", None, None, safe, k1, 1, 1, "", 0)
McOne     == {Dev("deposit", k1, 2, 1, ""), Dev("reload", k1, 2, 0, ""), Topup(2),
              Rq("billpay", k1, None, safe, k1, 2, 1, "credit", 0), Undo(k1, "failed", 2)}
McTwo     == {Dev("getmoney", k1, 1, 1, ""), Rq("getmoney", k1, None, None, k1, 1, 1, "credit", 0),
              Dev("billpay", k1, 1, 1, ""), Dev("wallet", k1, 1, 0, ""), McOffice,
              Undo(k1, "wrong_number", 2), Rq("refill", k1, d1, None, vault, 1, 0, "", 0)}
McAll     == McOne \cup McTwo

Ed(op, c, d, name, uses, n) == [op |-> op, carrier |-> c, dev |-> d, name |-> name, uses |-> uses, amount |-> n]
McEdit    == {Ed("add_carrier", 0, None, A, {}, 0), Ed("add_carrier", 0, None, B, {}, 0),
              Ed("rename", 1, None, B, {}, 0), Ed("rename", 2, None, A, {}, 0),
              Ed("switch", 1, None, A, {}, 0), Ed("switch", 2, None, A, {}, 0),
              Ed("add_device", 1, d2, A, {"recharge", "money"}, 1),
              Ed("update", 0, d1, A, {"recharge"}, 0), Ed("retire", 0, d1, A, {}, 0), Ed("toggle", 0, d1, A, {}, 0)}

\* The second carrier is one that was disabled, and its name taken since.
McCarriers == <<[name |-> A, on |-> TRUE, prod |-> 1], [name |-> A, on |-> FALSE, prod |-> 2]>>
McDevs    == d1 :> [st |-> "on", carrier |-> 1, uses |-> Purpose] @@ d2 :> [st |-> "none", carrier |-> 0, uses |-> {}]
McDesk    == [t \in Tx |-> IF t = t1 THEN McOne \cup {Ed("rename", 1, None, B, {}, 0)} ELSE McTwo \cup McEdit]
McMoney   == k1 :> 4 @@ safe :> 3 @@ vault :> 0

\* Session 1 counted five at its opening, sold a reload of two and closed.
McHeld    == d1 :> 3 @@ d2 :> 1
McDs      == [s \in Session |-> d1 :> (IF s = 1 THEN [opening |-> 5, closing |-> 3, closedAt |-> 1] ELSE NoRow)
                                @@ d2 :> NoRow]
Past(s, typ, n, delta) == [sid |-> s, dev |-> d1, typ |-> typ, amount |-> n, delta |-> delta, svc |-> 0,
                           at |-> 0, reversed |-> FALSE, of |-> 0]
McRow     == <<Past(0, "opening", 5, 5), Past(1, "reload", 2, -2)>>
=============================================================================
