------------------------------- MODULE MCJobs -------------------------------
(***************************************************************************)
(* Two terminals: a repair with two parts and a print job on the books.     *)
(***************************************************************************)
EXTENDS Jobs

CONSTANTS t1, k1

Rq(op, k, of, n, mode) == [op |-> op, till |-> k, of |-> of, n |-> n, mode |-> mode]
Card(op, of, n, mode)  == Rq(op, None, of, n, mode)
Till1(op, of, n, mode) == Rq(op, k1, of, n, mode)

McWork    == {Card("new", 0, 1, "customer"), Card("edit", 1, 0, "walkin"), Card("status", 1, 0, "ready"),
              Card("cancel", 1, 0, ""), Card("part", 1, 0, ""), Card("unpart", 1, 0, ""),
              Card("charge", 1, 1, ""), Card("uncharge", 1, 0, "")}
McCounter == {Till1("deposit", 1, 2, ""), Till1("collect", 1, 3, "cash"),
              Till1("collect", 1, Blank, "credit"), Till1("repairer", 1, 2, ""), Card("rework", 1, 0, ""),
              Till1("refund", 1, 0, "")}
McPrint   == {Till1("print", 0, 2, ""), Card("ownuse", 0, 0, ""), Till1("reverse", 1, 0, ""),
              Till1("pay", 1, 1, ""), Card("pay", 1, 1, ""), Card("dismiss", 1, 0, "")}
McAll     == McWork \cup McCounter \cup McPrint
McAny     == [t \in Tx |-> Request]

McRepair  == [NoJob EXCEPT !.status = "received", !.customer = TRUE, !.parts = <<2, 2>>,
                           !.charges = <<1>>, !.days = 1]
McJobs    == <<McRepair>>
McPrints  == <<PrintJob("sale", 2)>>
McMoney   == k1 :> 3
McPaper   == <<2, 1>>
McKinds   == <<"paper", "toner">>
=============================================================================
