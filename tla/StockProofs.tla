---------------------------- MODULE StockProofs -----------------------------
(***************************************************************************)
(* What holds of Stock for every set of products, lots, requests and        *)
(* concurrent transactions.                                                *)
(***************************************************************************)
EXTENDS Stock, SumLaws

\* A transaction in progress is at a line of its request.
LEMMA LineType ==
  ASSUME TypeOK, NEW t \in Tx, ~At(t, "idle")
  PROVE  /\ tx[t].req \in Seq(Line) /\ tx[t].req \in Request
         /\ tx[t].line \in 1 .. Len(tx[t].req)
         /\ L(t) \in Line
BY StockAssumption DEF TypeOK, TxTypeOK, At, L

\* The fields of a line.
LEMMA LineFields ==
  ASSUME NEW l \in Line
  PROVE  /\ l.p \in Product /\ l.p \in Row
         /\ l.q \in Nat
         /\ l.lot # NoLot => l.lot \in Lot /\ l.lot \in Row
BY DEF Line, Row

\* Where a line leads is always a statement.
LEMMA StatementType ==
  ASSUME NEW l \in Line
  PROVE  /\ Start(l) \in Statement \ {"idle"}
         /\ Deplete(l) \in Statement \ {"idle"}
         /\ AfterIncrement(l) \in Statement \ {"idle"}
BY DEF Line, Start, Deplete, AfterIncrement, Statement

\* Rolling back, committing and writing keep the types of the rows.
LEMMA RowTypes ==
  ASSUME DB!DBTypeOK, NEW t \in Tx
  PROVE  /\ DB!Rollback(t) => DB!DBTypeOK'
         /\ DB!Commit(t) => DB!DBTypeOK'
         /\ \A r, v : (r \in Row => v \in Int) /\ DB!Write(t, r, v) => DB!DBTypeOK'
         /\ \A r : DB!LockRow(t, r) => DB!DBTypeOK'
         /\ UNCHANGED rowVars => DB!DBTypeOK'
         /\ \A r \in Row : DB!Visible(t, r) \in Int /\ cur[r] \in Int
BY DEF DB!DBTypeOK, DB!Rollback, DB!Commit, DB!Write, DB!LockRow, DB!Release, DB!Visible, rowVars

\* The fields of a transaction.
LEMMA TxFields ==
  ASSUME TypeOK, NEW t \in Tx
  PROVE  /\ tx[t] \in TxState
         /\ tx[t].left \in Int /\ tx[t].delta \in Int /\ tx[t].line \in Nat
         /\ tx[t].queue \subseteq Lot /\ tx[t].queue \subseteq Row
         /\ tx[t].moves \in [Product -> Int]
BY DEF TypeOK, TxTypeOK, TxState, Row

LEMMA IdleType == Idle \in TxState /\ NoMoves \in [Product -> Int] /\ Idle.pc = "idle"
BY DEF Idle, TxState, NoMoves, Statement

\* One transaction moves to a well-typed state, the others stay.
LEMMA TxTypes ==
  ASSUME TypeOK, NEW t \in Tx, NEW x \in TxState, tx' = [tx EXCEPT ![t] = x],
         x.pc # "idle" => x.req \in Request /\ x.line \in 1 .. Len(x.req)
  PROVE  TxTypeOK'
BY DEF TypeOK, TxTypeOK, At

\* A transaction's new state y that stays at the line of its state x.
Keeps(x, y) == x \in TxState /\ x.req = y.req /\ x.line = y.line

LEMMA TxKeeps ==
  ASSUME TypeOK, NEW t \in Tx, ~At(t, "idle"), NEW x, Keeps(x, tx[t]), tx' = [tx EXCEPT ![t] = x]
  PROVE  TxTypeOK'
BY LineType, TxTypes DEF Keeps

\* The updates that statements make to their transaction.

LEMMA SetsLeft ==
  \A y \in TxState, s \in Statement, n \in Int :
     /\ Keeps([y EXCEPT !.pc = s, !.left = n], y)
     /\ Keeps([y EXCEPT !.left = n, !.pc = s], y)
BY DEF TxState, Keeps

LEMMA SetsDelta ==
  \A y \in TxState, s \in Statement, d \in Int :
     /\ Keeps([y EXCEPT !.pc = s, !.delta = d], y)
     /\ Keeps([y EXCEPT !.delta = d, !.pc = s], y)
BY DEF TxState, Keeps

LEMMA SetsMoves ==
  \A y \in TxState, s \in Statement, m \in [Product -> Int] :
     /\ Keeps([y EXCEPT !.pc = s, !.moves = m], y)
     /\ Keeps([y EXCEPT !.moves = m, !.pc = s], y)
BY DEF TxState, Keeps

LEMMA SetsQueue ==
  \A y \in TxState, s \in Statement, Q \in SUBSET Lot, n \in Int :
     Keeps([y EXCEPT !.queue = Q, !.left = n, !.pc = s], y)
BY DEF TxState, Keeps

LEMMA Statements ==
  \A s \in {"pick", "guard", "short", "found", "foundLot", "reguard", "take", "select", "fefo",
            "read", "set", "increment", "insert", "restock", "record", "commit"} :
     s \in Statement \ {"idle"}
BY DEF Statement

LEMMA GotoTypes ==
  ASSUME TypeOK, NEW t \in Tx, ~At(t, "idle"), NEW s \in Statement \ {"idle"}, Goto(t, s)
  PROVE  TxTypeOK'
<1>1. [tx[t] EXCEPT !.pc = s] \in TxState
  BY TxFields DEF TxState
<1>2. [tx[t] EXCEPT !.pc = s].req = tx[t].req /\ [tx[t] EXCEPT !.pc = s].line = tx[t].line
  BY TxFields DEF TxState
<1>3. tx' = [tx EXCEPT ![t] = [tx[t] EXCEPT !.pc = s]]
  BY DEF Goto
<1>4. QED
  BY <1>1, <1>2, <1>3, TxTypes, LineType

LEMMA FailTypes ==
  ASSUME TypeOK, NEW t \in Tx, Fail(t)
  PROVE  TypeOK'
<1>1. DB!DBTypeOK'
  BY RowTypes DEF Fail, TypeOK
<1>2. TxTypeOK'
  BY TxTypes, IdleType DEF Fail
<1>3. QED
  BY <1>1, <1>2 DEF Fail, TypeOK

\* Opening a lot keeps the types.
LEMMA NewLotTypes ==
  ASSUME TypeOK, NEW t \in Tx, NEW p \in Product, NEW n \in Int, NewLot(t, p, n), TxTypeOK'
  PROVE  TypeOK'
<1>1. DB!DBTypeOK'
  BY RowTypes DEF NewLot, TypeOK
<1>2. owner' \in [Lot -> Product] /\ nextLot' \in 1 .. MaxLot + 1
  BY StockAssumption DEF NewLot, TypeOK, Lot
<1>3. QED
  BY <1>1, <1>2 DEF NewLot, TypeOK

LEMMA TypeInit == Init => TypeOK
BY StockAssumption
   DEF Init, TypeOK, TxTypeOK, DB!DBTypeOK, DB!DBInit, Row, Lot, TxState, Idle, NoMoves, At, Statement

\* Every step keeps the types.
LEMMA TypeStep == TypeOK /\ [Next]_vars => TypeOK'
<1> SUFFICES ASSUME TypeOK, [Next]_vars PROVE TypeOK'
  OBVIOUS
<1>1. ASSUME NEW t \in Tx, NEW r \in Request, Begin(t, r) PROVE TypeOK'
  <2> DEFINE x == [Idle EXCEPT !.pc = Start(r[1]), !.req = r, !.left = r[1].q]
  <2>1. r \in Seq(Line) /\ Len(r) >= 1 /\ r[1] \in Line /\ 1 \in 1 .. Len(r)
    BY StockAssumption
  <2>2. Start(r[1]) \in Statement /\ r[1].q \in Int
    BY <2>1, StatementType, LineFields
  <2>3. x \in TxState
    BY <2>2, IdleType DEF TxState
  <2>4. x.req = r /\ x.line = 1
    BY DEF Idle
  <2>5. tx' = [tx EXCEPT ![t] = x]
    BY <1>1 DEF Begin
  <2> HIDE DEF x
  <2>6. TxTypeOK'
    BY <2>1, <2>3, <2>4, <2>5, TxTypes
  <2>7. QED
    BY <1>1, <2>6, RowTypes, StockAssumption DEF Begin, TypeOK
<1>2. ASSUME NEW t \in Tx, Pick(t) PROVE TypeOK'
  <2>1. ~At(t, "idle") /\ L(t) \in Line
    BY <1>2, LineType DEF Pick, At
  <2>2. CASE Fail(t)
    BY <2>2, FailTypes
  <2>3. CASE ~Fail(t)
    <3>1. TxTypeOK'
      BY <1>2, <2>1, <2>3, GotoTypes DEF Pick, Statement
    <3>2. DB!DBTypeOK'
      BY <1>2, <2>1, <2>3, RowTypes DEF Pick, TypeOK
    <3>3. QED
      BY <1>2, <2>3, <3>1, <3>2 DEF Pick, NoNewLot, TypeOK
  <2>4. QED
    BY <2>2, <2>3
<1>3. ASSUME NEW t \in Tx, Guard(t) PROVE TypeOK'
  <2>1. ~At(t, "idle") /\ L(t) \in Line
    BY <1>3, LineType DEF Guard, At
  <2>2. TxTypeOK'
    BY <1>3, <2>1, GotoTypes, StatementType DEF Guard
  <2>3. DB!DBTypeOK'
    BY <1>3, <2>1, RowTypes, TxFields, LineFields DEF Guard, TypeOK
  <2>4. QED
    BY <1>3, <2>2, <2>3 DEF Guard, NoNewLot, TypeOK
<1>4. ASSUME NEW t \in Tx, GuardFails(t) PROVE TypeOK'
  <2>1. ~At(t, "idle") /\ L(t) \in Line
    BY <1>4, LineType DEF GuardFails, At
  <2>2. CASE Fail(t)
    BY <2>2, FailTypes
  <2>3. CASE ~Fail(t)
    <3>1. TxTypeOK'
      BY <1>4, <2>1, <2>3, GotoTypes DEF GuardFails, Statement
    <3>2. DB!DBTypeOK'
      BY <1>4, <2>1, <2>3, RowTypes, TxFields, LineFields DEF GuardFails, TypeOK
    <3>3. QED
      BY <1>4, <2>3, <3>1, <3>2 DEF GuardFails, NoNewLot, TypeOK
  <2>4. QED
    BY <2>2, <2>3
<1>5. ASSUME NEW t \in Tx, Short(t) PROVE TypeOK'
  <2>1. ~At(t, "idle") /\ L(t) \in Line
    BY <1>5, LineType DEF Short, At
  <2> DEFINE x == [tx[t] EXCEPT !.pc = "found", !.delta = tx[t].left - DB!Visible(t, L(t).p)]
  <2>2. Keeps(x, tx[t])
    <3>1. tx[t] \in TxState /\ "found" \in Statement
      BY TxFields, Statements
    <3>2. tx[t].left - DB!Visible(t, L(t).p) \in Int
      BY <2>1, LineFields, RowTypes, TxFields DEF TypeOK
    <3>3. QED
      BY <3>1, <3>2, SetsDelta, Zenon
  <2>3. tx' = [tx EXCEPT ![t] = x]
    BY <1>5 DEF Short
  <2> HIDE DEF x
  <2>4. TxTypeOK'
    BY <2>1, <2>2, <2>3, TxKeeps
  <2>5. QED
    BY <1>5, <2>4, RowTypes DEF Short, NoNewLot, TypeOK
<1>6. ASSUME NEW t \in Tx, Found(t) PROVE TypeOK'
  <2>1. ~At(t, "idle") /\ L(t) \in Line
    BY <1>6, LineType DEF Found, At
  <2>2. TxTypeOK'
    BY <1>6, <2>1, GotoTypes DEF Found, Statement
  <2>3. DB!DBTypeOK'
    BY <1>6, <2>1, RowTypes, TxFields, LineFields DEF Found, TypeOK
  <2>4. QED
    BY <1>6, <2>2, <2>3 DEF Found, NoNewLot, TypeOK
<1>7. ASSUME NEW t \in Tx, FoundLot(t) PROVE TypeOK'
  <2>1. ~At(t, "idle") /\ L(t) \in Line
    BY <1>7, LineType DEF FoundLot, At
  <2> DEFINE m == [tx[t].moves EXCEPT ![L(t).p] = @ + tx[t].delta]
             x == [tx[t] EXCEPT !.pc = "reguard", !.moves = m]
  <2>2. CASE Fail(t)
    BY <2>2, FailTypes
  <2>3. CASE ~Fail(t)
    <3>0. m \in [Product -> Int]
      BY <2>1, LineFields, TxFields
    <3>1. Keeps(x, tx[t])
      BY <3>0, TxFields, SetsMoves, Statements
    <3>2. tx' = [tx EXCEPT ![t] = x]
      BY <1>7, <2>3 DEF FoundLot
    <3> HIDE DEF x
    <3>3. TxTypeOK'
      BY <2>1, <3>1, <3>2, TxKeeps
    <3>4. CASE L(t).lot = NoLot
      BY <1>7, <2>1, <2>3, <3>3, <3>4, NewLotTypes, LineFields, TxFields DEF FoundLot
    <3>5. CASE L(t).lot # NoLot
      <4>1. DB!DBTypeOK'
        BY <1>7, <2>1, <2>3, <3>5, RowTypes, LineFields, TxFields DEF FoundLot, TypeOK
      <4>2. QED
        BY <1>7, <2>3, <3>3, <3>5, <4>1 DEF FoundLot, NoNewLot, TypeOK
    <3>6. QED
      BY <3>4, <3>5
  <2>4. QED
    BY <2>2, <2>3
<1>8. ASSUME NEW t \in Tx, Reguard(t) PROVE TypeOK'
  <2>1. ~At(t, "idle") /\ L(t) \in Line
    BY <1>8, LineType DEF Reguard, At
  <2>2. CASE Fail(t)
    BY <2>2, FailTypes
  <2>3. CASE ~Fail(t)
    <3>1. TxTypeOK'
      BY <1>8, <2>1, <2>3, GotoTypes, StatementType DEF Reguard
    <3>2. DB!DBTypeOK'
      BY <1>8, <2>1, <2>3, RowTypes, TxFields, LineFields DEF Reguard, TypeOK
    <3>3. QED
      BY <1>8, <2>3, <3>1, <3>2 DEF Reguard, NoNewLot, TypeOK
  <2>4. QED
    BY <2>2, <2>3
<1>9. ASSUME NEW t \in Tx, Take(t) PROVE TypeOK'
  <2>1. ~At(t, "idle") /\ L(t) \in Line
    BY <1>9, LineType DEF Take, At
  <2> DEFINE x == [tx[t] EXCEPT !.pc = "record", !.left = 0]
  <2>2. CASE Fail(t)
    BY <2>2, FailTypes
  <2>3. CASE ~Fail(t)
    <3>1. Keeps(x, tx[t])
      <4>1. tx[t] \in TxState /\ "record" \in Statement /\ 0 \in Int
        BY TxFields, Statements
      <4>2. QED
        BY <4>1, SetsLeft, Zenon
    <3>2. tx' = [tx EXCEPT ![t] = x]
      BY <1>9, <2>3 DEF Take
    <3> HIDE DEF x
    <3>3. TxTypeOK'
      BY <2>1, <3>1, <3>2, TxKeeps
    <3>4. DB!DBTypeOK'
      BY <1>9, <2>1, <2>3, RowTypes, TxFields DEF Take, TypeOK
    <3>5. QED
      BY <1>9, <2>3, <3>3, <3>4 DEF Take, NoNewLot, TypeOK
  <2>4. QED
    BY <2>2, <2>3
<1>10. ASSUME NEW t \in Tx, Select(t) PROVE TypeOK'
  <2>1. ~At(t, "idle") /\ L(t) \in Line
    BY <1>10, LineType DEF Select, At
  <2> DEFINE x == [tx[t] EXCEPT !.queue = LiveLots(t, L(t).p),
                                !.pc = IF LiveLots(t, L(t).p) = {} THEN "record" ELSE "fefo"]
  <2>2. Keeps(x, tx[t])
    BY TxFields DEF TxState, Statement, LiveLots, Keeps
  <2>3. tx' = [tx EXCEPT ![t] = x]
    BY <1>10 DEF Select
  <2> HIDE DEF x
  <2>4. TxTypeOK'
    BY <2>1, <2>2, <2>3, TxKeeps
  <2>5. QED
    BY <1>10, <2>4, RowTypes DEF Select, NoNewLot, TypeOK
<1>11. ASSUME NEW t \in Tx, Fefo(t) PROVE TypeOK'
  <2>1. ~At(t, "idle") /\ L(t) \in Line
    BY <1>11, LineType DEF Fefo, At
  <2> DEFINE some(lot) == IF cur[lot] < tx[t].left THEN cur[lot] ELSE tx[t].left
  <2>2. PICK lot \in Earliest(tx[t].queue) :
          /\ DB!Write(t, lot, cur[lot] - some(lot))
          /\ tx' = [tx EXCEPT ![t].queue = @ \ {lot},
                              ![t].left  = @ - some(lot),
                              ![t].pc    = IF tx[t].queue = {lot} THEN "record" ELSE "fefo"]
    BY <1>11 DEF Fefo
  <2>3. lot \in Row /\ cur[lot] \in Int /\ some(lot) \in Int
    BY TxFields, RowTypes DEF Earliest, TypeOK
  <2> DEFINE x == [tx[t] EXCEPT !.queue = @ \ {lot}, !.left = @ - some(lot),
                                !.pc = IF tx[t].queue = {lot} THEN "record" ELSE "fefo"]
  <2> HIDE DEF some
  <2>4. Keeps(x, tx[t])
    <3>1. /\ tx[t] \in TxState /\ tx[t].queue \ {lot} \in SUBSET Lot /\ tx[t].left - some(lot) \in Int
          /\ (IF tx[t].queue = {lot} THEN "record" ELSE "fefo") \in Statement
      BY <2>3, TxFields, Statements
    <3>2. QED
      BY <3>1, SetsQueue, Zenon
  <2>5. tx' = [tx EXCEPT ![t] = x]
    BY <2>2
  <2> HIDE DEF x
  <2>6. TxTypeOK'
    BY <2>1, <2>4, <2>5, TxKeeps
  <2>7. DB!DBTypeOK'
    BY <2>2, <2>3, RowTypes DEF TypeOK
  <2>8. QED
    BY <1>11, <2>6, <2>7 DEF Fefo, NoNewLot, TypeOK
<1>12. ASSUME NEW t \in Tx, Read(t) PROVE TypeOK'
  <2>1. ~At(t, "idle") /\ L(t) \in Line
    BY <1>12, LineType DEF Read, At
  <2> DEFINE d == L(t).q - DB!Visible(t, L(t).p)
             x == [tx[t] EXCEPT !.delta = d, !.pc = IF d = 0 THEN "commit" ELSE "set"]
  <2>2. d \in Int
    BY <2>1, LineFields, RowTypes DEF TypeOK
  <2>3. tx' = [tx EXCEPT ![t] = x]
    BY <1>12 DEF Read
  <2> HIDE DEF d
  <2>4. Keeps(x, tx[t])
    BY <2>2, TxFields, SetsDelta, Statements
  <2> HIDE DEF x
  <2>5. TxTypeOK'
    BY <2>1, <2>3, <2>4, TxKeeps
  <2>6. QED
    BY <1>12, <2>5, RowTypes DEF Read, NoNewLot, TypeOK
<1>13. ASSUME NEW t \in Tx, Set(t) PROVE TypeOK'
  <2>1. ~At(t, "idle") /\ L(t) \in Line
    BY <1>13, LineType DEF Set, At
  <2> DEFINE d == tx[t].delta
             x == [tx[t] EXCEPT !.left = IF d > 0 THEN d ELSE -d,
                                !.pc   = IF d > 0 THEN "insert" ELSE Deplete(L(t))]
  <2>2. Keeps(x, tx[t])
    <3>1. /\ tx[t] \in TxState /\ (IF d > 0 THEN d ELSE -d) \in Int
          /\ (IF d > 0 THEN "insert" ELSE Deplete(L(t))) \in Statement
      BY <2>1, StatementType, TxFields, Statements
    <3>2. QED
      BY <3>1, SetsLeft, Zenon
  <2>3. tx' = [tx EXCEPT ![t] = x]
    BY <1>13 DEF Set
  <2> HIDE DEF x
  <2>4. TxTypeOK'
    BY <2>1, <2>2, <2>3, TxKeeps
  <2>5. DB!DBTypeOK'
    BY <1>13, <2>1, RowTypes, LineFields DEF Set, TypeOK
  <2>6. QED
    BY <1>13, <2>4, <2>5 DEF Set, NoNewLot, TypeOK
<1>14. ASSUME NEW t \in Tx, Increment(t) PROVE TypeOK'
  <2>1. ~At(t, "idle") /\ L(t) \in Line
    BY <1>14, LineType DEF Increment, At
  <2>2. TxTypeOK'
    BY <1>14, <2>1, GotoTypes, StatementType DEF Increment
  <2>3. DB!DBTypeOK'
    BY <1>14, <2>1, RowTypes, TxFields, LineFields DEF Increment, TypeOK
  <2>4. QED
    BY <1>14, <2>2, <2>3 DEF Increment, NoNewLot, TypeOK
<1>15. ASSUME NEW t \in Tx, Insert(t) PROVE TypeOK'
  <2>1. ~At(t, "idle") /\ L(t) \in Line
    BY <1>15, LineType DEF Insert, At
  <2>2. TxTypeOK'
    BY <1>15, <2>1, GotoTypes DEF Insert, Statement
  <2>3. QED
    BY <1>15, <2>1, <2>2, NewLotTypes, LineFields, TxFields DEF Insert
<1>16. ASSUME NEW t \in Tx, Restock(t) PROVE TypeOK'
  <2>1. ~At(t, "idle") /\ L(t) \in Line
    BY <1>16, LineType DEF Restock, At
  <2>2. TxTypeOK'
    BY <1>16, <2>1, GotoTypes DEF Restock, Statement
  <2>3. DB!DBTypeOK'
    BY <1>16, <2>1, LineFields, RowTypes DEF Restock, TypeOK
  <2>4. QED
    BY <1>16, <2>2, <2>3 DEF Restock, NoNewLot, TypeOK
<1>17. ASSUME NEW t \in Tx, Record(t) PROVE TypeOK'
  <2>1. ~At(t, "idle") /\ L(t) \in Line
    BY <1>17, LineType DEF Record, At
  <2> DEFINE l     == L(t)
             moves == [tx[t].moves EXCEPT ![l.p] = @ + Moved(l, tx[t].delta)]
             n     == tx[t].line + 1
             last  == [tx[t] EXCEPT !.moves = moves, !.pc = "commit"]
             next  == [Idle EXCEPT !.moves = moves, !.req = tx[t].req, !.line = n,
                                   !.left = tx[t].req[n].q, !.pc = Start(tx[t].req[n])]
  <2>2. Moved(l, tx[t].delta) \in Int
    BY <2>1, TxFields DEF Moved, Line
  <2>3. moves \in [Product -> Int]
    BY <2>1, <2>2, TxFields, LineFields
  <2>4. tx' = [tx EXCEPT ![t] = IF n > Len(tx[t].req) THEN last ELSE next]
    BY <1>17 DEF Record
  <2> HIDE DEF moves
  <2>5. CASE n > Len(tx[t].req)
    <3>1. Keeps(last, tx[t])
      BY <2>3, TxFields, SetsMoves, Statements
    <3>2. tx' = [tx EXCEPT ![t] = last]
      BY <2>4, <2>5
    <3> HIDE DEF last
    <3>3. TxTypeOK'
      BY <2>1, <3>1, <3>2, TxKeeps
    <3>4. QED
      BY <1>17, <3>3, RowTypes DEF Record, NoNewLot, TypeOK
  <2>6. CASE ~(n > Len(tx[t].req))
    <3>1. /\ n \in 1 .. Len(tx[t].req) /\ n \in Nat \ {0}
          /\ tx[t].req \in Request /\ tx[t].req[n] \in Line
      BY <2>1, <2>6, LineType
    <3>2. Start(tx[t].req[n]) \in Statement /\ tx[t].req[n].q \in Int
      BY <3>1, StatementType, LineFields
    <3>3. next \in TxState
      BY <2>3, <3>1, <3>2, IdleType DEF TxState
    <3>4. next.req = tx[t].req /\ next.line = n
      BY DEF Idle
    <3>5. tx' = [tx EXCEPT ![t] = next]
      BY <2>4, <2>6
    <3> HIDE DEF next, n
    <3>6. TxTypeOK'
      BY <3>1, <3>3, <3>4, <3>5, TxTypes
    <3>7. QED
      BY <1>17, <3>6, RowTypes DEF Record, NoNewLot, TypeOK
  <2>7. QED
    BY <2>5, <2>6
<1>18. ASSUME NEW t \in Tx, Commit(t) PROVE TypeOK'
  <2>1. ~At(t, "idle") /\ L(t) \in Line
    BY <1>18, LineType DEF Commit, At
  <2>2. TxTypeOK'
    BY <1>18, TxTypes, IdleType DEF Commit
  <2>3. trail' \in [Product -> Int]
    BY <1>18, TxFields DEF Commit, TypeOK
  <2>4. QED
    BY <1>18, <2>2, <2>3, RowTypes DEF Commit, TypeOK
<1>19. ASSUME NEW t \in Tx, Cancel(t) \/ DeadlockAbort(t) PROVE TypeOK'
  BY <1>19, FailTypes DEF Cancel, DeadlockAbort
<1>20. ASSUME UNCHANGED vars PROVE TypeOK'
  BY <1>20 DEF vars, TypeOK, TxTypeOK, DB!DBTypeOK, At
<1>21. QED
  BY <1>1, <1>2, <1>3, <1>4, <1>5, <1>6, <1>7, <1>8, <1>9, <1>10, <1>11, <1>12, <1>13,
     <1>14, <1>15, <1>16, <1>17, <1>18, <1>19, <1>20 DEF Next, Step, Closed

\* Every state has its type.
THEOREM TypeCorrect == Spec => []TypeOK
BY TypeInit, TypeStep, PTL DEF Spec

-----------------------------------------------------------------------------
(***************************************************************************)
(* No oversell.  Between the two statements that correct a count at the     *)
(* till a stock row may hold a negative working quantity, if the row was    *)
(* restocked after it was read; it is locked then, and the second guard or  *)
(* the lots' CHECK ends the transaction.  Every other write is of a         *)
(* quantity that its guard has shown to be covered.                        *)
(***************************************************************************)
Corrected(t, r) == tx[t].pc \in {"foundLot", "reguard"} /\ r = L(t).p

RowOK(r) == /\ com[r] >= 0
            /\ lock[r] = NoTx => cur[r] = com[r]
            /\ cur[r] >= 0 \/ \E t \in Tx : lock[r] = t /\ Corrected(t, r)

StockInv == /\ TypeOK
            /\ \A r \in Row : RowOK(r)
            /\ \A t \in Tx : tx[t].left >= 0

\* A row that a transaction may write holds what it sees, and is not overdrawn.
LEMMA MayWrite ==
  ASSUME StockInv, NEW t \in Tx, NEW r \in Row, DB!Available(t, r)
  PROVE  /\ DB!Visible(t, r) = cur[r] /\ cur[r] \in Int
         /\ ~Corrected(t, r) => cur[r] >= 0
BY StockAssumption DEF StockInv, RowOK, DB!Visible, DB!Available, TypeOK, DB!DBTypeOK

\* A write keeps the rows in order when it is of a covered quantity or belongs to
\* a correction, and leaves no other row of a correction behind.
LEMMA WriteOK ==
  ASSUME StockInv, NEW t \in Tx, NEW r, NEW v, DB!Write(t, r, v),
         \A u \in Tx \ {t} : tx'[u] = tx[u],
         r \in Row => v \in Int /\ (v >= 0 \/ Corrected(t, r)'),
         \A s \in Row \ {r} : Corrected(t, s) => Corrected(t, s)'
  PROVE  \A s \in Row : RowOK(s)'
<1>1. com' = com /\ lock' = [lock EXCEPT ![r] = t] /\ cur' = [cur EXCEPT ![r] = v]
  BY DEF DB!Write
<1>2. \A u \in Tx \ {t}, s \in Row : Corrected(u, s)' <=> Corrected(u, s)
  BY DEF Corrected, L
<1>3. ASSUME NEW s \in Row PROVE RowOK(s)'
  <2>1. lock \in [Row -> Tx \cup {NoTx}] /\ cur \in [Row -> Int] /\ com \in [Row -> Int]
    BY DEF StockInv, TypeOK, DB!DBTypeOK
  <2>2. CASE s = r
    BY <1>1, <2>1, <2>2, StockAssumption DEF StockInv, RowOK
  <2>3. CASE s # r
    <3>1. com'[s] = com[s] /\ lock'[s] = lock[s] /\ cur'[s] = cur[s]
      BY <1>1, <2>1, <2>3
    <3>2. \A u \in Tx : Corrected(u, s) => Corrected(u, s)'
      BY <1>2, <2>3
    <3>3. QED
      BY <3>1, <3>2 DEF StockInv, RowOK
  <2>4. QED
    BY <2>2, <2>3
<1>4. QED
  BY <1>3

\* So does a step that writes no row, if it leaves no correction behind.
LEMMA QuietOK ==
  ASSUME StockInv, NEW t \in Tx, UNCHANGED rowVars,
         \A u \in Tx \ {t} : tx'[u] = tx[u],
         \A s \in Row : Corrected(t, s) => Corrected(t, s)'
  PROVE  \A s \in Row : RowOK(s)'
<1>1. \A u \in Tx, s \in Row : Corrected(u, s) => Corrected(u, s)'
  BY DEF Corrected, L
<1>2. QED
  BY <1>1 DEF StockInv, RowOK, rowVars

\* The end of a transaction leaves its rows as last committed, or as it made them.
LEMMA FailOK ==
  ASSUME StockInv, NEW t \in Tx, Fail(t)
  PROVE  StockInv'
<1>1. \A u \in Tx \ {t} : tx'[u] = tx[u]
  BY DEF Fail, StockInv, TypeOK, TxTypeOK
<1>2. \A u \in Tx \ {t}, s \in Row : Corrected(u, s) => Corrected(u, s)'
  BY <1>1 DEF Corrected, L
<1>3. \A s \in Row : RowOK(s)'
  BY <1>2, StockAssumption DEF StockInv, RowOK, Fail, DB!Rollback, DB!Release, TypeOK, DB!DBTypeOK
<1>4. tx'[t].left = 0
  BY DEF Fail, StockInv, TypeOK, TxTypeOK, Idle
<1>5. QED
  BY <1>1, <1>3, <1>4, FailTypes DEF StockInv

LEMMA CommitOK ==
  ASSUME StockInv, NEW t \in Tx, Commit(t)
  PROVE  \A s \in Row : RowOK(s)'
<1>1. \A u \in Tx \ {t} : tx'[u] = tx[u]
  BY DEF Commit, StockInv, TypeOK, TxTypeOK
<1>2. \A u \in Tx \ {t}, s \in Row : Corrected(u, s) => Corrected(u, s)'
  BY <1>1 DEF Corrected, L
<1>3. \A s \in Row : ~Corrected(t, s)
  BY DEF Commit, At, Corrected
<1>4. QED
  BY <1>2, <1>3, StockAssumption
     DEF StockInv, RowOK, Commit, DB!Commit, DB!Release, DB!Visible, TypeOK, DB!DBTypeOK


\* The shop begins so.
LEMMA StockStart == Init => StockInv
<1> SUFFICES ASSUME Init PROVE StockInv
  OBVIOUS
<1>1. TypeOK
  BY TypeInit
<1>2. \A r \in Row : RowOK(r)
  BY StockAssumption DEF Init, DB!DBInit, RowOK, Row
<1>3. QED
  BY <1>1, <1>2 DEF Init, StockInv, Idle

\* Every step keeps it.
LEMMA StockStep == StockInv /\ [Next]_vars => StockInv'
<1> SUFFICES ASSUME StockInv, [Next]_vars PROVE StockInv'
  OBVIOUS
<1>0. TypeOK /\ TypeOK' /\ tx \in [Tx -> TxState]
  BY TypeStep DEF StockInv, TypeOK, TxTypeOK
<1>1. ASSUME NEW t \in Tx, NEW r \in Request, Begin(t, r) PROVE StockInv'
  <2>1. r[1] \in Line
    BY StockAssumption
  <2> DEFINE y == [Idle EXCEPT !.pc = Start(r[1]), !.req = r, !.left = r[1].q]
  <2>a. y.left = r[1].q
    BY DEF Idle
  <2>b. tx' = [tx EXCEPT ![t] = y]
    BY <1>1 DEF Begin
  <2> HIDE DEF y
  <2>2. /\ tx'[t].left = r[1].q
        /\ \A u \in Tx \ {t} : tx'[u] = tx[u]
    BY <1>0, <2>a, <2>b
  <2>3. \A s \in Row : RowOK(s)'
    BY <1>1, <2>2, QuietOK DEF Begin, At, Corrected
  <2>4. QED
    BY <1>0, <2>1, <2>2, <2>3, LineFields DEF StockInv
<1>2. ASSUME NEW t \in Tx, Pick(t) PROVE StockInv'
  <2>1. ~At(t, "idle") /\ L(t) \in Line /\ L(t).p \in Row /\ tx[t] \in TxState /\ tx[t].left >= 0
    BY <1>0, <1>2, LineType, LineFields, TxFields DEF Pick, At, StockInv
  <2>2. CASE Fail(t)
    BY <2>2, FailOK
  <2>3. CASE ~Fail(t)
    <3>1. tx'[t].left = tx[t].left /\ \A u \in Tx \ {t} : tx'[u] = tx[u]
      BY <1>0, <1>2, <2>1, <2>3 DEF Pick, Goto, TxState
    <3>2. DB!Write(t, L(t).lot, cur[L(t).lot])
      BY <1>2, <2>1, <2>3 DEF Pick, DB!LockRow, NewLot
    <3>3. L(t).lot \in Row => cur[L(t).lot] \in Int /\ cur[L(t).lot] >= 0
      BY <1>0, <1>2, <2>1, <2>3, <3>2, MayWrite, LineFields, TxFields DEF Pick, DB!Write, At, Corrected
    <3>4. \A s \in Row : ~Corrected(t, s)
      BY <1>2, <2>3 DEF Pick, At, Corrected
    <3>5. \A s \in Row : RowOK(s)'
      BY <3>1, <3>2, <3>3, <3>4, WriteOK
    <3>6. QED
      BY <1>0, <2>1, <3>1, <3>5 DEF StockInv
  <2>4. QED
    BY <2>2, <2>3
<1>3. ASSUME NEW t \in Tx, Guard(t) PROVE StockInv'
  <2>1. ~At(t, "idle") /\ L(t) \in Line /\ L(t).p \in Row /\ tx[t] \in TxState /\ tx[t].left >= 0
    BY <1>0, <1>3, LineType, LineFields, TxFields DEF Guard, At, StockInv
  <2>2. tx'[t].left = tx[t].left /\ \A u \in Tx \ {t} : tx'[u] = tx[u]
    BY <1>0, <1>3, <2>1 DEF Guard, Goto, TxState
  <2>3. DB!Write(t, L(t).p, (cur[L(t).p] - tx[t].left))
    BY <1>3, <2>1 DEF Guard, DB!LockRow, NewLot
  <2>4. L(t).p \in Row => (cur[L(t).p] - tx[t].left) \in Int /\ (cur[L(t).p] - tx[t].left) >= 0
    BY <1>0, <1>3, <2>1, <2>3, MayWrite, LineFields, TxFields DEF Guard, DB!Write, At, Corrected
  <2>5. \A s \in Row : ~Corrected(t, s)
    BY <1>3 DEF Guard, At, Corrected
  <2>6. \A s \in Row : RowOK(s)'
    BY <2>2, <2>3, <2>4, <2>5, WriteOK
  <2>7. QED
    BY <1>0, <2>1, <2>2, <2>6 DEF StockInv
<1>4. ASSUME NEW t \in Tx, GuardFails(t) PROVE StockInv'
  <2>1. ~At(t, "idle") /\ L(t) \in Line /\ L(t).p \in Row /\ tx[t] \in TxState /\ tx[t].left >= 0
    BY <1>0, <1>4, LineType, LineFields, TxFields DEF GuardFails, At, StockInv
  <2>2. CASE Fail(t)
    BY <2>2, FailOK
  <2>3. CASE ~Fail(t)
    <3>1. tx'[t].left = tx[t].left /\ \A u \in Tx \ {t} : tx'[u] = tx[u]
      BY <1>0, <1>4, <2>1, <2>3 DEF GuardFails, Goto, TxState
    <3>2. \A s \in Row : ~Corrected(t, s)
      BY <1>4 DEF GuardFails, At, Corrected
    <3>3. CASE UNCHANGED rowVars
      BY <1>0, <2>1, <3>1, <3>2, <3>3, QuietOK DEF StockInv
    <3>4. CASE DB!Write(t, L(t).p, cur[L(t).p])
      <4>1. \A s \in Row : RowOK(s)'
        BY <2>1, <3>1, <3>2, <3>4, MayWrite, WriteOK DEF DB!Write
      <4>2. QED
        BY <1>0, <2>1, <3>1, <4>1 DEF StockInv
    <3>5. QED
      BY <1>4, <2>3, <3>3, <3>4 DEF GuardFails, DB!LockRow
  <2>4. QED
    BY <2>2, <2>3
<1>5. ASSUME NEW t \in Tx, Short(t) PROVE StockInv'
  <2>1. ~At(t, "idle") /\ L(t) \in Line /\ L(t).p \in Row /\ tx[t] \in TxState /\ tx[t].left >= 0
    BY <1>0, <1>5, LineType, LineFields, TxFields DEF Short, At, StockInv
  <2>2. /\ tx'[t].left = tx[t].left
        /\ \A u \in Tx \ {t} : tx'[u] = tx[u]
    BY <1>0, <1>5, <2>1 DEF Short, Goto, TxState
  <2>3. \A s \in Row : RowOK(s)'
    BY <1>5, <2>2, QuietOK DEF Short, At, Corrected
  <2>4. QED
    BY <1>0, <2>1, <2>2, <2>3 DEF StockInv
<1>6. ASSUME NEW t \in Tx, Found(t) PROVE StockInv'
  <2>1. ~At(t, "idle") /\ L(t) \in Line /\ L(t).p \in Row /\ tx[t] \in TxState /\ tx[t].left >= 0
    BY <1>0, <1>6, LineType, LineFields, TxFields DEF Found, At, StockInv
  <2>2. /\ tx'[t].left = tx[t].left /\ tx'[t].pc = "foundLot"
        /\ tx'[t].req = tx[t].req /\ tx'[t].line = tx[t].line
        /\ \A u \in Tx \ {t} : tx'[u] = tx[u]
    BY <1>0, <1>6, <2>1 DEF Found, Goto, TxState
  <2>3. PICK r \in Row : r = L(t).p /\ DB!Write(t, r, cur[r] + tx[t].delta)
    BY <1>6, <2>1 DEF Found
  <2>4. Corrected(t, r)' /\ cur[r] + tx[t].delta \in Int
    BY <1>0, <2>1, <2>2, <2>3, MayWrite, TxFields DEF Corrected, L, DB!Write
  <2>5. \A s \in Row : ~Corrected(t, s)
    BY <1>6 DEF Found, At, Corrected
  <2>6. \A s \in Row : RowOK(s)'
    BY <2>2, <2>3, <2>4, <2>5, WriteOK
  <2>7. QED
    BY <1>0, <2>1, <2>2, <2>6 DEF StockInv
<1>7. ASSUME NEW t \in Tx, FoundLot(t) PROVE StockInv'
  <2>1. ~At(t, "idle") /\ L(t) \in Line /\ L(t).p \in Row /\ tx[t] \in TxState /\ tx[t].left >= 0
    BY <1>0, <1>7, LineType, LineFields, TxFields DEF FoundLot, At, StockInv
  <2>2. CASE Fail(t)
    BY <2>2, FailOK
  <2>3. CASE ~Fail(t)
    <3> DEFINE n == IF L(t).lot = NoLot THEN tx[t].delta ELSE cur[L(t).lot] + tx[t].delta
               m == [tx[t].moves EXCEPT ![L(t).p] = @ + tx[t].delta]
    <3>1. tx' = [tx EXCEPT ![t] = [tx[t] EXCEPT !.pc = "reguard", !.moves = m]]
      BY <1>7, <2>3 DEF FoundLot
    <3> HIDE DEF m
    <3>2. /\ tx'[t].left = tx[t].left /\ tx'[t].pc = "reguard"
          /\ tx'[t].req = tx[t].req /\ tx'[t].line = tx[t].line
          /\ \A u \in Tx \ {t} : tx'[u] = tx[u]
      BY <1>0, <2>1, <3>1 DEF TxState
    <3>3. \E r : DB!Write(t, r, n) /\ n >= 0 /\ (r \in Row => n \in Int)
      <4>1. ~(n < 0) /\ \E r : DB!Write(t, r, n) /\ (r = L(t).lot \/ L(t).lot = NoLot)
        BY <1>7, <2>3 DEF FoundLot, NewLot
      <4>2. L(t).lot \in Row => cur[L(t).lot] \in Int
        BY <1>0 DEF TypeOK, DB!DBTypeOK
      <4>3. L(t).lot # NoLot => L(t).lot \in Row
        BY <2>1, LineFields
      <4>4. n \in Int
        BY <1>0, <4>2, <4>3, TxFields
      <4>5. QED
        BY <4>1, <4>4
    <3>4. \A s \in Row : Corrected(t, s) => Corrected(t, s)'
      BY <3>2 DEF Corrected, L
    <3>5. \A s \in Row : RowOK(s)'
      BY <3>2, <3>3, <3>4, WriteOK
    <3>6. QED
      BY <1>0, <2>1, <3>2, <3>5 DEF StockInv
  <2>4. QED
    BY <2>2, <2>3
<1>8. ASSUME NEW t \in Tx, Reguard(t) PROVE StockInv'
  <2>1. ~At(t, "idle") /\ L(t) \in Line /\ L(t).p \in Row /\ tx[t] \in TxState /\ tx[t].left >= 0
    BY <1>0, <1>8, LineType, LineFields, TxFields DEF Reguard, At, StockInv
  <2>2. CASE Fail(t)
    BY <2>2, FailOK
  <2>3. CASE ~Fail(t)
    <3>1. tx'[t].left = tx[t].left /\ \A u \in Tx \ {t} : tx'[u] = tx[u]
      BY <1>0, <1>8, <2>1, <2>3 DEF Reguard, Goto, TxState
    <3>2. DB!Write(t, L(t).p, (cur[L(t).p] - tx[t].left))
      BY <1>8, <2>1, <2>3 DEF Reguard, DB!LockRow, NewLot
    <3>3. L(t).p \in Row => (cur[L(t).p] - tx[t].left) \in Int /\ (cur[L(t).p] - tx[t].left) >= 0
      BY <1>0, <1>8, <2>1, <2>3, <3>2, MayWrite, LineFields, TxFields DEF Reguard, DB!Write, At, Corrected
    <3>4. \A s \in Row \ {L(t).p} : ~Corrected(t, s)
      BY <1>8, <2>3 DEF Reguard, At, Corrected
    <3>5. \A s \in Row : RowOK(s)'
      BY <3>1, <3>2, <3>3, <3>4, WriteOK
    <3>6. QED
      BY <1>0, <2>1, <3>1, <3>5 DEF StockInv
  <2>4. QED
    BY <2>2, <2>3
<1>9. ASSUME NEW t \in Tx, Take(t) PROVE StockInv'
  <2>1. ~At(t, "idle") /\ L(t) \in Line /\ L(t).p \in Row /\ tx[t] \in TxState /\ tx[t].left >= 0
    BY <1>0, <1>9, LineType, LineFields, TxFields DEF Take, At, StockInv
  <2>2. CASE Fail(t)
    BY <2>2, FailOK
  <2>3. CASE ~Fail(t)
    <3>1. tx'[t].left = 0 /\ \A u \in Tx \ {t} : tx'[u] = tx[u]
      BY <1>0, <1>9, <2>1, <2>3 DEF Take, Goto, TxState
    <3>2. DB!Write(t, L(t).lot, (cur[L(t).lot] - tx[t].left))
      BY <1>9, <2>1, <2>3 DEF Take, DB!LockRow, NewLot
    <3>3. L(t).lot \in Row => (cur[L(t).lot] - tx[t].left) \in Int /\ (cur[L(t).lot] - tx[t].left) >= 0
      BY <1>0, <1>9, <2>1, <2>3, <3>2, MayWrite, LineFields, TxFields DEF Take, DB!Write, At, Corrected
    <3>4. \A s \in Row : ~Corrected(t, s)
      BY <1>9, <2>3 DEF Take, At, Corrected
    <3>5. \A s \in Row : RowOK(s)'
      BY <3>1, <3>2, <3>3, <3>4, WriteOK
    <3>6. QED
      BY <1>0, <2>1, <3>1, <3>5 DEF StockInv
  <2>4. QED
    BY <2>2, <2>3
<1>10. ASSUME NEW t \in Tx, Select(t) PROVE StockInv'
  <2>1. ~At(t, "idle") /\ L(t) \in Line /\ L(t).p \in Row /\ tx[t] \in TxState /\ tx[t].left >= 0
    BY <1>0, <1>10, LineType, LineFields, TxFields DEF Select, At, StockInv
  <2>2. /\ tx'[t].left = tx[t].left
        /\ \A u \in Tx \ {t} : tx'[u] = tx[u]
    BY <1>0, <1>10, <2>1 DEF Select, Goto, TxState
  <2>3. \A s \in Row : RowOK(s)'
    BY <1>10, <2>2, QuietOK DEF Select, At, Corrected
  <2>4. QED
    BY <1>0, <2>1, <2>2, <2>3 DEF StockInv
<1>11. ASSUME NEW t \in Tx, Fefo(t) PROVE StockInv'
  <2>1. ~At(t, "idle") /\ L(t) \in Line /\ L(t).p \in Row /\ tx[t] \in TxState /\ tx[t].left >= 0
    BY <1>0, <1>11, LineType, LineFields, TxFields DEF Fefo, At, StockInv
  <2>2. PICK lot \in Earliest(tx[t].queue) :
          /\ DB!Write(t, lot, cur[lot] - (IF cur[lot] < tx[t].left THEN cur[lot] ELSE tx[t].left))
          /\ tx' = [tx EXCEPT ![t].queue = @ \ {lot},
                              ![t].left  = @ - (IF cur[lot] < tx[t].left THEN cur[lot] ELSE tx[t].left),
                              ![t].pc    = IF tx[t].queue = {lot} THEN "record" ELSE "fefo"]
    BY <1>11 DEF Fefo
  <2>3. \A s \in Row : ~Corrected(t, s)
    BY <1>11 DEF Fefo, At, Corrected
  <2>4. lot \in Row /\ cur[lot] \in Int /\ cur[lot] >= 0 /\ tx[t].left \in Int
    BY <1>0, <2>2, <2>3, TxFields, MayWrite DEF Earliest, DB!Write
  <2> DEFINE some == IF cur[lot] < tx[t].left THEN cur[lot] ELSE tx[t].left
  <2>5. some \in Int /\ cur[lot] - some >= 0 /\ tx[t].left - some >= 0
    BY <2>1, <2>4
  <2>6. DB!Write(t, lot, cur[lot] - some)
    BY <2>2
  <2>7. tx'[t].left = tx[t].left - some /\ \A u \in Tx \ {t} : tx'[u] = tx[u]
    BY <1>0, <2>1, <2>2 DEF TxState
  <2> HIDE DEF some
  <2>8. \A s \in Row : RowOK(s)'
    BY <2>3, <2>4, <2>5, <2>6, <2>7, WriteOK
  <2>9. QED
    BY <1>0, <2>1, <2>5, <2>7, <2>8 DEF StockInv
<1>12. ASSUME NEW t \in Tx, Read(t) PROVE StockInv'
  <2>1. ~At(t, "idle") /\ L(t) \in Line /\ L(t).p \in Row /\ tx[t] \in TxState /\ tx[t].left >= 0
    BY <1>0, <1>12, LineType, LineFields, TxFields DEF Read, At, StockInv
  <2>2. /\ tx'[t].left = tx[t].left
        /\ \A u \in Tx \ {t} : tx'[u] = tx[u]
    BY <1>0, <1>12, <2>1 DEF Read, Goto, TxState
  <2>3. \A s \in Row : RowOK(s)'
    BY <1>12, <2>2, QuietOK DEF Read, At, Corrected
  <2>4. QED
    BY <1>0, <2>1, <2>2, <2>3 DEF StockInv
<1>13. ASSUME NEW t \in Tx, Set(t) PROVE StockInv'
  <2>1. ~At(t, "idle") /\ L(t) \in Line /\ L(t).p \in Row /\ tx[t] \in TxState /\ tx[t].left >= 0
    BY <1>0, <1>13, LineType, LineFields, TxFields DEF Set, At, StockInv
  <2>2. tx'[t].left >= 0 /\ \A u \in Tx \ {t} : tx'[u] = tx[u]
    BY <1>0, <1>13, <2>1 DEF Set, Goto, TxState
  <2>3. DB!Write(t, L(t).p, L(t).q)
    BY <1>13, <2>1 DEF Set, DB!LockRow, NewLot
  <2>4. L(t).p \in Row => L(t).q \in Int /\ L(t).q >= 0
    BY <1>0, <1>13, <2>1, <2>3, MayWrite, LineFields, TxFields DEF Set, DB!Write, At, Corrected
  <2>5. \A s \in Row : ~Corrected(t, s)
    BY <1>13 DEF Set, At, Corrected
  <2>6. \A s \in Row : RowOK(s)'
    BY <2>2, <2>3, <2>4, <2>5, WriteOK
  <2>7. QED
    BY <1>0, <2>1, <2>2, <2>6 DEF StockInv
<1>14. ASSUME NEW t \in Tx, Increment(t) PROVE StockInv'
  <2>1. ~At(t, "idle") /\ L(t) \in Line /\ L(t).p \in Row /\ tx[t] \in TxState /\ tx[t].left >= 0
    BY <1>0, <1>14, LineType, LineFields, TxFields DEF Increment, At, StockInv
  <2>2. tx'[t].left = tx[t].left /\ \A u \in Tx \ {t} : tx'[u] = tx[u]
    BY <1>0, <1>14, <2>1 DEF Increment, Goto, TxState
  <2>3. DB!Write(t, L(t).p, (cur[L(t).p] + L(t).q))
    BY <1>14, <2>1 DEF Increment, DB!LockRow, NewLot
  <2>4. L(t).p \in Row => (cur[L(t).p] + L(t).q) \in Int /\ (cur[L(t).p] + L(t).q) >= 0
    BY <1>0, <1>14, <2>1, <2>3, MayWrite, LineFields, TxFields DEF Increment, DB!Write, At, Corrected
  <2>5. \A s \in Row : ~Corrected(t, s)
    BY <1>14 DEF Increment, At, Corrected
  <2>6. \A s \in Row : RowOK(s)'
    BY <2>2, <2>3, <2>4, <2>5, WriteOK
  <2>7. QED
    BY <1>0, <2>1, <2>2, <2>6 DEF StockInv
<1>15. ASSUME NEW t \in Tx, Insert(t) PROVE StockInv'
  <2>1. ~At(t, "idle") /\ L(t) \in Line /\ L(t).p \in Row /\ tx[t] \in TxState /\ tx[t].left >= 0
    BY <1>0, <1>15, LineType, LineFields, TxFields DEF Insert, At, StockInv
  <2>2. tx'[t].left = tx[t].left /\ \A u \in Tx \ {t} : tx'[u] = tx[u]
    BY <1>0, <1>15, <2>1 DEF Insert, Goto, TxState
  <2>3. DB!Write(t, nextLot, tx[t].left)
    BY <1>15, <2>1 DEF Insert, DB!LockRow, NewLot
  <2>4. nextLot \in Row => tx[t].left \in Int /\ tx[t].left >= 0
    BY <1>0, <1>15, <2>1, <2>3, MayWrite, LineFields, TxFields DEF Insert, DB!Write, At, Corrected
  <2>5. \A s \in Row : ~Corrected(t, s)
    BY <1>15 DEF Insert, At, Corrected
  <2>6. \A s \in Row : RowOK(s)'
    BY <2>2, <2>3, <2>4, <2>5, WriteOK
  <2>7. QED
    BY <1>0, <2>1, <2>2, <2>6 DEF StockInv
<1>16. ASSUME NEW t \in Tx, Restock(t) PROVE StockInv'
  <2>1. ~At(t, "idle") /\ L(t) \in Line /\ L(t).p \in Row /\ tx[t] \in TxState /\ tx[t].left >= 0
    BY <1>0, <1>16, LineType, LineFields, TxFields DEF Restock, At, StockInv
  <2>2. tx'[t].left = tx[t].left /\ \A u \in Tx \ {t} : tx'[u] = tx[u]
    BY <1>0, <1>16, <2>1 DEF Restock, Goto, TxState
  <2>3. DB!Write(t, L(t).lot, (cur[L(t).lot] + L(t).q))
    BY <1>16, <2>1 DEF Restock, DB!LockRow, NewLot
  <2>4. L(t).lot \in Row => (cur[L(t).lot] + L(t).q) \in Int /\ (cur[L(t).lot] + L(t).q) >= 0
    BY <1>0, <1>16, <2>1, <2>3, MayWrite, LineFields, TxFields DEF Restock, DB!Write, At, Corrected
  <2>5. \A s \in Row : ~Corrected(t, s)
    BY <1>16 DEF Restock, At, Corrected
  <2>6. \A s \in Row : RowOK(s)'
    BY <2>2, <2>3, <2>4, <2>5, WriteOK
  <2>7. QED
    BY <1>0, <2>1, <2>2, <2>6 DEF StockInv
<1>17. ASSUME NEW t \in Tx, Record(t) PROVE StockInv'
  <2>1. ~At(t, "idle") /\ L(t) \in Line /\ L(t).p \in Row /\ tx[t] \in TxState /\ tx[t].left >= 0
    BY <1>0, <1>17, LineType, LineFields, TxFields DEF Record, At, StockInv
  <2> DEFINE n == tx[t].line + 1
             m == [tx[t].moves EXCEPT ![L(t).p] = @ + Moved(L(t), tx[t].delta)]
             y == [Idle EXCEPT !.moves = m, !.req = tx[t].req, !.line = n,
                               !.left = tx[t].req[n].q, !.pc = Start(tx[t].req[n])]
  <2>2. tx' = [tx EXCEPT ![t] = IF n > Len(tx[t].req) THEN [tx[t] EXCEPT !.moves = m, !.pc = "commit"]
                                                      ELSE y]
    BY <1>17 DEF Record
  <2> HIDE DEF m
  <2>3. y.left = tx[t].req[n].q
    BY DEF Idle
  <2>4. n <= Len(tx[t].req) => tx[t].req[n].q >= 0
    BY <1>0, <2>1, LineType, LineFields
  <2>5. tx'[t].left >= 0 /\ \A u \in Tx \ {t} : tx'[u] = tx[u]
    <3>1. tx'[t] = IF n > Len(tx[t].req) THEN [tx[t] EXCEPT !.moves = m, !.pc = "commit"] ELSE y
      BY <1>0, <2>2
    <3> HIDE DEF y
    <3>2. CASE n > Len(tx[t].req)
      BY <1>0, <2>1, <2>2, <3>1, <3>2 DEF TxState
    <3>3. CASE ~(n > Len(tx[t].req))
      BY <1>0, <2>1, <2>2, <2>3, <2>4, <3>1, <3>3, LineType
    <3>4. QED
      BY <3>2, <3>3
  <2>6. \A s \in Row : RowOK(s)'
    BY <1>17, <2>5, QuietOK DEF Record, At, Corrected
  <2>7. QED
    BY <1>0, <2>1, <2>5, <2>6 DEF StockInv
<1>18. ASSUME NEW t \in Tx, Commit(t) PROVE StockInv'
  <2>1. ~At(t, "idle") /\ L(t) \in Line /\ L(t).p \in Row /\ tx[t] \in TxState /\ tx[t].left >= 0
    BY <1>0, <1>18, LineType, LineFields, TxFields DEF Commit, At, StockInv
  <2>2. tx'[t].left = 0 /\ \A u \in Tx \ {t} : tx'[u] = tx[u]
    BY <1>0, <1>18 DEF Commit, Idle
  <2>3. QED
    BY <1>0, <1>18, <2>2, CommitOK DEF StockInv
<1>19. ASSUME NEW t \in Tx, Cancel(t) \/ DeadlockAbort(t) PROVE StockInv'
  BY <1>19, FailOK DEF Cancel, DeadlockAbort
<1>20. ASSUME UNCHANGED vars PROVE StockInv'
  BY <1>0, <1>20 DEF vars, StockInv, RowOK, Corrected, L
<1>21. QED
  BY <1>1, <1>2, <1>3, <1>4, <1>5, <1>6, <1>7, <1>8, <1>9, <1>10, <1>11, <1>12,
     <1>13, <1>14, <1>15, <1>16, <1>17, <1>18, <1>19, <1>20 DEF Next, Step, Closed

\* No oversell, for every mix of requests.
THEOREM NoOversell == Spec => []NeverNegative
<1>1. StockInv => NeverNegative
  BY DEF StockInv, RowOK, NeverNegative
<1>2. QED
  BY StockStart, StockStep, <1>1, PTL DEF Spec

-----------------------------------------------------------------------------
(***************************************************************************)
(* That the lots tell the same units as the stock rows, and the movement    *)
(* trail explains both, for every set of products, lots, requests and       *)
(* concurrent transactions.                                                *)
(*                                                                         *)
(* A transaction writes its row, its lots and its movements one after the   *)
(* other, so in between they disagree by exactly what the line it is at has  *)
(* still to write (Gap, Due).  The invariant says so of what each           *)
(* transaction has changed and not committed; the committed rows then agree  *)
(* because a transaction commits with nothing left to write.                *)
(***************************************************************************)

\* What t has changed row r by, and the lots of p together, and not committed.
Changed(t, r) == IF lock[r] = t THEN cur[r] - com[r] ELSE 0

LotChange(t, p) == [l \in Lot |-> IF owner[l] = p THEN Changed(t, l) ELSE 0]

ChangedLots(t, p) == SumFunctionOnSet(LotChange(t, p), Lot)

\* What t sees in the lots of p.
LotSeen(t, p) == [l \in Lot |-> IF owner[l] = p THEN DB!Visible(t, l) ELSE 0]

\* The units that t's line has taken from the stock row and not yet from lots:
\* less than none while it puts units in.
Gap(t) == IF \/ tx[t].pc \in {"take", "select", "fefo"}
             \/ tx[t].pc = "pick" /\ L(t).kind # "sale"
             \/ tx[t].pc = "increment" /\ L(t).kind = "recover"
            THEN tx[t].left
          ELSE IF tx[t].pc = "restock" \/ (tx[t].pc = "insert" /\ L(t).kind # "recover")
            THEN -tx[t].left
          ELSE IF tx[t].pc = "foundLot" THEN -tx[t].delta
          ELSE 0

GapAt(t, p) == IF At(t, "idle") THEN 0 ELSE IF p = L(t).p THEN Gap(t) ELSE 0

\* The units that t's line has changed the stock row by and not yet recorded.
Due(t) == IF \/ tx[t].pc \in {"take", "select", "fefo", "restock", "record"}
             \/ tx[t].pc \in {"pick"} /\ L(t).kind # "sale"
             \/ tx[t].pc = "insert" /\ L(t).kind # "recover"
            THEN Moved(L(t), tx[t].delta)
          ELSE IF tx[t].pc = "foundLot" THEN tx[t].delta
          ELSE 0

DueAt(t, p) == IF At(t, "idle") THEN 0 ELSE IF p = L(t).p THEN Due(t) ELSE 0

\* The lines that may be at each statement, and what is left to them there.
Takes(l) == l.kind \in {"sale", "consume", "adjust"}
Puts(l)  == l.kind \in {"receive", "recover", "return"}

LineOK(t) ==
  LET s == tx[t].pc
      l == L(t)
      n == tx[t].left
  IN /\ s \in {"pick", "take"} => Takes(l) /\ l.lot # NoLot
     /\ s \in {"select", "fefo"} => Takes(l) /\ l.lot = NoLot
     /\ s = "guard" => l.kind \in {"sale", "consume"}
     /\ s \in {"short", "found", "foundLot", "reguard"} => l.kind = "sale" /\ l.lot = NoLot
     /\ s \in {"read", "set"} => l.kind = "adjust"
     /\ s = "increment" => Puts(l)
     /\ s = "insert" => Puts(l) \/ (l.kind = "adjust" /\ n = tx[t].delta)
     /\ s = "restock" => l.kind = "return" /\ l.lot # NoLot
     /\ l.kind \in {"sale", "consume"} => n = (IF s \in {"fefo", "record", "commit"} THEN n ELSE l.q)
     /\ s = "record" /\ l.kind \in {"sale", "consume"} => n = 0
     /\ Puts(l) => n = l.q

\* The lot that a line has picked covers what the line needs.
PickedOK(t) ==
  (At(t, "guard") /\ L(t).kind = "sale" /\ L(t).lot # NoLot) \/ At(t, "take")
  => LET l == L(t).lot IN lock[l] = t /\ owner[l] = L(t).p /\ cur[l] >= tx[t].left

\* Lots are written under their stock row.
HeldOK(t) ==
  \/ tx[t].pc \in {"take", "select", "fefo", "restock"}
  \/ At(t, "pick") /\ L(t).kind # "sale"
  => lock[L(t).p] = t

\* The lots a removal has still to visit hold what it still needs.
QueueOK(t) ==
  At(t, "fefo") =>
     /\ \A l \in tx[t].queue : owner[l] = L(t).p /\ l < nextLot /\ DB!Visible(t, l) > 0
     /\ SumFunctionOnSet(LotSeen(t, L(t).p), tx[t].queue) >= tx[t].left

\* What a count found missing or over is so when it is written.
SetOK(t) == At(t, "set") => tx[t].delta = L(t).q - DB!Visible(t, L(t).p)

\* A transaction holds the stock rows of its request only.
DeskOK(t) ==
  /\ At(t, "idle") \/ tx[t].req \in Desk[t]
  /\ \A p \in Product : lock[p] = t => ~At(t, "idle") /\ \E i \in DOMAIN tx[t].req : tx[t].req[i].p = p

TxOK(t) ==
  /\ ~At(t, "idle") => LineOK(t) /\ PickedOK(t) /\ HeldOK(t) /\ QueueOK(t) /\ SetOK(t)
  /\ DeskOK(t)
  /\ \A p \in Product : ChangedLots(t, p) = Changed(t, p) + GapAt(t, p)
  /\ \A p \in Product : Changed(t, p) = tx[t].moves[p] + DueAt(t, p)

\* A changed lot that has been committed before has its stock row held with it.
EditedOK == \A l \in Lot, t \in Tx :
              lock[l] = t /\ cur[l] # com[l] /\ com[l] # 0 => lock[owner[l]] = t

\* The lots of the beginning keep their product; those to come are empty.
LotsOK == /\ nextLot > InitLots
          /\ \A l \in Lot : l <= InitLots => owner[l] = InitOwner[l]
          /\ \A l \in Lot : l >= nextLot => com[l] = 0 /\ cur[l] = 0

LotInv == /\ StockInv
          /\ MirrorOK /\ TrailExplainsStock
          /\ EditedOK /\ LotsOK
          /\ \A t \in Tx : TxOK(t)

-----------------------------------------------------------------------------
(***************************************************************************)
(* What a write changes.                                                   *)
(***************************************************************************)
\* There are finitely many lots, so what is in them can be added up.
LEMMA LotFinite == IsFiniteSet(Lot)
BY FS_Interval, StockAssumption DEF Lot

\* The rows hold integers.
LEMMA RowInts ==
  ASSUME TypeOK, NEW t \in Tx, NEW r \in Row
  PROVE  /\ com[r] \in Int /\ cur[r] \in Int /\ DB!Visible(t, r) \in Int /\ Changed(t, r) \in Int
         /\ DB!Visible(t, r) = com[r] + Changed(t, r)
BY DEF TypeOK, DB!DBTypeOK, DB!Visible, Changed

\* So do the lots, and their sums are integers.
LEMMA LotInts ==
  ASSUME TypeOK, NEW t \in Tx, NEW p
  PROVE  /\ \A l \in Lot : LotChange(t, p)[l] \in Int /\ LotSeen(t, p)[l] \in Int
         /\ ChangedLots(t, p) \in Int
<1>1. \A l \in Lot : LotChange(t, p)[l] \in Int /\ LotSeen(t, p)[l] \in Int
  BY RowInts DEF LotChange, LotSeen, Row
<1>2. QED
  BY <1>1, LotFinite, SumInt DEF ChangedLots

\* One row, for one transaction; nothing is committed.
LEMMA WriteChange ==
  ASSUME StockInv, NEW t \in Tx, NEW r \in Row, NEW v \in Int, DB!Write(t, r, v)
  PROVE  /\ com' = com /\ cur'[r] = v /\ lock'[r] = t /\ lock[r] \in {t, NoTx}
         /\ lock[r] = NoTx => cur[r] = com[r]
         /\ Changed(t, r)' = Changed(t, r) + (v - cur[r])
         /\ \A s \in Row \ {r} : cur'[s] = cur[s] /\ lock'[s] = lock[s]
         /\ \A s \in Row \ {r}, u \in Tx : Changed(u, s)' = Changed(u, s)
         /\ \A s \in Row, u \in Tx \ {t} : /\ Changed(u, s)' = Changed(u, s)
                                           /\ DB!Visible(u, s)' = DB!Visible(u, s)
<1>1. /\ lock \in [Row -> Tx \cup {NoTx}] /\ cur \in [Row -> Int] /\ com \in [Row -> Int]
      /\ lock[r] = NoTx => cur[r] = com[r]
  BY DEF StockInv, RowOK, TypeOK, DB!DBTypeOK
<1>2. /\ com' = com /\ lock' = [lock EXCEPT ![r] = t] /\ cur' = [cur EXCEPT ![r] = v]
      /\ lock[r] \in {t, NoTx}
  BY DEF DB!Write, DB!Available
<1>3. QED
  BY <1>1, <1>2, StockAssumption DEF Changed, DB!Visible

\* A stock row is no lot.
LEMMA RowWrite ==
  ASSUME StockInv, NEW t \in Tx, NEW r \in Product, NEW v \in Int, DB!Write(t, r, v), owner' = owner
  PROVE  \A u \in Tx : \A p : ChangedLots(u, p)' = ChangedLots(u, p)
<1>1. r \in Row /\ \A l \in Lot : l \in Row \ {r}
  BY StockAssumption DEF Row
<1>2. \A u \in Tx : \A p : LotChange(u, p)' = LotChange(u, p)
  BY <1>1, WriteChange DEF LotChange
<1>3. QED
  BY <1>2 DEF ChangedLots

\* A lot.
LEMMA LotWrite ==
  ASSUME StockInv, NEW t \in Tx, NEW r \in Lot, NEW v \in Int, DB!Write(t, r, v), owner' = owner
  PROVE  /\ \A p : ChangedLots(t, p)' = ChangedLots(t, p) + (IF p = owner[r] THEN v - cur[r] ELSE 0)
         /\ \A u \in Tx \ {t} : \A p : ChangedLots(u, p)' = ChangedLots(u, p)
<1>1. TypeOK /\ r \in Row /\ \A l \in Lot : l \in Row
  BY DEF StockInv, Row
<1>2. \A u \in Tx \ {t} : \A p : ChangedLots(u, p)' = ChangedLots(u, p)
  <2>1. \A u \in Tx \ {t} : \A p : LotChange(u, p)' = LotChange(u, p)
    BY <1>1, WriteChange DEF LotChange
  <2>2. QED
    BY <2>1 DEF ChangedLots
<1>3. ASSUME NEW p
      PROVE  ChangedLots(t, p)' = ChangedLots(t, p) + (IF p = owner[r] THEN v - cur[r] ELSE 0)
  <2> DEFINE f == LotChange(t, p)
             g == LotChange(t, p)'
             d == IF p = owner[r] THEN v - cur[r] ELSE 0
  <2>1. d \in Int /\ \A l \in Lot : f[l] \in Int
    BY <1>1, RowInts, LotInts
  <2>2. \A l \in Lot : g[l] = IF l = r THEN f[l] + d ELSE f[l]
    BY <1>1, <2>1, WriteChange, RowInts DEF LotChange
  <2> HIDE DEF f, g, d
  <2>3. SumFunctionOnSet(g, Lot) = SumFunctionOnSet(f, Lot) + d
    BY <2>1, <2>2, LotFinite, SumBump
  <2>4. QED
    BY <2>3 DEF f, g, d, ChangedLots
<1>4. QED
  BY <1>2, <1>3

\* A lot is opened: the number is new, so nobody has changed it.
LEMMA LotOpened ==
  ASSUME StockInv, LotsOK, NEW t \in Tx, NEW p \in Product, NEW n \in Int, NewLot(t, p, n)
  PROVE  /\ \A q : ChangedLots(t, q)' = ChangedLots(t, q) + (IF q = p THEN n ELSE 0)
         /\ \A u \in Tx \ {t} : \A q : ChangedLots(u, q)' = ChangedLots(u, q)
         /\ \A u \in Tx : Changed(u, nextLot) = 0
         /\ nextLot \in Lot /\ nextLot \in Row /\ DB!Write(t, nextLot, n)
         /\ \A l \in Lot \ {nextLot} : owner'[l] = owner[l]
         /\ owner'[nextLot] = p /\ nextLot' = nextLot + 1 /\ com[nextLot] = 0 /\ cur[nextLot] = 0
<1>1. TypeOK /\ nextLot \in Lot /\ nextLot \in Row /\ (\A l \in Lot : l \in Row) /\ owner \in [Lot -> Product]
  BY DEF StockInv, Row, TypeOK, NewLot
<1>2. /\ com[nextLot] = 0 /\ cur[nextLot] = 0
      /\ \A u \in Tx : Changed(u, nextLot) = 0
  BY <1>1 DEF LotsOK, Changed, Lot
<1>3. /\ DB!Write(t, nextLot, n) /\ owner' = [owner EXCEPT ![nextLot] = p] /\ nextLot' = nextLot + 1
  BY DEF NewLot
<1>0. PICK y \in Lot : y = nextLot
  BY <1>1
<1>4. Changed(t, y)' = n /\ \A u \in Tx \ {t} : Changed(u, y)' = 0
  <2>1. /\ y \in Row /\ DB!Write(t, y, n) /\ cur[y] = 0 /\ \A u \in Tx : Changed(u, y) = 0
    BY <1>0, <1>1, <1>2, <1>3
  <2>2. QED
    BY <2>1, WriteChange
<1>5. \A u \in Tx \ {t} : \A q : ChangedLots(u, q)' = ChangedLots(u, q)
  <2>1. \A u \in Tx \ {t} : \A q : LotChange(u, q)' = LotChange(u, q)
    BY <1>0, <1>1, <1>2, <1>3, <1>4, WriteChange DEF LotChange
  <2>2. QED
    BY <2>1 DEF ChangedLots
<1>6. ASSUME NEW q
      PROVE  ChangedLots(t, q)' = ChangedLots(t, q) + (IF q = p THEN n ELSE 0)
  <2> DEFINE f == LotChange(t, q)
             g == LotChange(t, q)'
             d == IF q = p THEN n ELSE 0
  <2>1. d \in Int /\ \A l \in Lot : f[l] \in Int
    BY <1>1, LotInts
  <2>2. \A l \in Lot : g[l] = IF l = y THEN f[l] + d ELSE f[l]
    BY <1>0, <1>1, <1>2, <1>3, <1>4, <2>1, WriteChange DEF LotChange
  <2> HIDE DEF f, g, d
  <2>3. SumFunctionOnSet(g, Lot) = SumFunctionOnSet(f, Lot) + d
    BY <1>1, <2>1, <2>2, LotFinite, SumBump
  <2>4. QED
    BY <2>3 DEF f, g, d, ChangedLots
<1>7. QED
  BY <1>1, <1>2, <1>3, <1>5, <1>6

-----------------------------------------------------------------------------
(***************************************************************************)
(* What a step of t leaves to the others.                                  *)
(***************************************************************************)
\* The line and its parts do not change while the transaction's state does not.
LEMMA SameTx ==
  ASSUME NEW u \in Tx, tx'[u] = tx[u]
  PROVE  /\ L(u)' = L(u) /\ Gap(u)' = Gap(u) /\ Due(u)' = Due(u)
         /\ \A s : At(u, s)' = At(u, s)
         /\ LineOK(u)' = LineOK(u)
         /\ \A p : GapAt(u, p)' = GapAt(u, p) /\ DueAt(u, p)' = DueAt(u, p)
<1>1. L(u)' = L(u) /\ \A s : At(u, s)' = At(u, s)
  BY DEF L, At
<1>2. Gap(u)' = Gap(u) /\ Due(u)' = Due(u)
  BY <1>1 DEF Gap, Due
<1>3. LineOK(u)' = LineOK(u)
  BY <1>1 DEF LineOK
<1>4. QED
  BY <1>1, <1>2, <1>3 DEF GapAt, DueAt

\* Whoever holds none of the rows the step touches, and sees the rows its next
\* statements rely on as before, is as it was.
LEMMA OtherKeeps ==
  ASSUME LotInv, NEW u \in Tx, tx'[u] = tx[u],
         \A r \in Row : /\ Changed(u, r)' = Changed(u, r)
                        /\ lock'[r] = u <=> lock[r] = u
                        /\ lock[r] = u => cur'[r] = cur[r],
         \A p : ChangedLots(u, p)' = ChangedLots(u, p),
         nextLot' \in Int, nextLot' >= nextLot,
         \A l \in Lot : owner'[l] = owner[l] \/ (l = nextLot /\ lock[l] # u),
         At(u, "set") => DB!Visible(u, L(u).p)' = DB!Visible(u, L(u).p),
         At(u, "fefo") => \A l \in tx[u].queue : DB!Visible(u, l)' = DB!Visible(u, l)
  PROVE  TxOK(u)'
<1>0. TypeOK /\ TxOK(u) /\ owner \in [Lot -> Product] /\ nextLot \in Int
  BY DEF LotInv, StockInv, TypeOK
<1>1. /\ L(u)' = L(u) /\ (\A s : At(u, s)' = At(u, s)) /\ LineOK(u)' = LineOK(u)
      /\ \A p : GapAt(u, p)' = GapAt(u, p) /\ DueAt(u, p)' = DueAt(u, p)
  BY SameTx
<1>2. DeskOK(u)'
  BY <1>0, <1>1 DEF TxOK, DeskOK, Row
<1>3. \A p \in Product : /\ ChangedLots(u, p)' = Changed(u, p)' + GapAt(u, p)'
                         /\ Changed(u, p)' = tx'[u].moves[p] + DueAt(u, p)'
  BY <1>0, <1>1 DEF TxOK, Row
<1>4. ASSUME ~At(u, "idle")
      PROVE  LineOK(u)' /\ PickedOK(u)' /\ HeldOK(u)' /\ QueueOK(u)' /\ SetOK(u)'
  <2>1. L(u) \in Line /\ L(u).p \in Row /\ L(u).p \in Product /\ (L(u).lot # NoLot => L(u).lot \in Lot /\ L(u).lot \in Row)
        /\ LineOK(u) /\ PickedOK(u) /\ HeldOK(u) /\ QueueOK(u) /\ SetOK(u) /\ tx[u].queue \subseteq Lot
    BY <1>0, <1>4, LineType, LineFields, TxFields DEF TxOK
  <2>2. LineOK(u)'
    BY <1>1, <2>1
  <2>3. PickedOK(u)'
    <3>1. At(u, "take") => L(u).lot # NoLot
      BY <2>1 DEF LineOK, At
    <3>2. QED
      BY <1>1, <2>1, <3>1 DEF PickedOK
  <2>4. HeldOK(u)'
    BY <1>1, <2>1 DEF HeldOK
  <2>5. SetOK(u)'
    BY <1>1, <2>1 DEF SetOK
  <2>6. QueueOK(u)'
    <3> SUFFICES ASSUME At(u, "fefo") PROVE QueueOK(u)'
      BY <1>1 DEF QueueOK
    <3>1. \A l \in tx[u].queue : /\ l \in Lot /\ owner[l] = L(u).p /\ l < nextLot /\ DB!Visible(u, l) > 0
                                 /\ owner'[l] = owner[l] /\ DB!Visible(u, l)' = DB!Visible(u, l)
      BY <2>1, <1>0 DEF QueueOK, Lot
    <3>2. \A l \in tx[u].queue : LotSeen(u, L(u).p)'[l] = LotSeen(u, L(u).p)[l]
      BY <1>1, <3>1 DEF LotSeen
    <3>3. IsFiniteSet(tx[u].queue)
      BY <2>1, LotFinite, FS_Subset
    <3>4. SumFunctionOnSet(LotSeen(u, L(u).p)', tx[u].queue) = SumFunctionOnSet(LotSeen(u, L(u).p), tx[u].queue)
      BY <3>2, <3>3, SumSame
    <3>5. \A l \in tx[u].queue : l < nextLot'
      BY <3>1, <1>0 DEF Lot
    <3>6. QED
      BY <1>1, <2>1, <3>1, <3>4, <3>5 DEF QueueOK
  <2>7. QED
    BY <2>2, <2>3, <2>4, <2>5, <2>6
<1>5. QED
  BY <1>1, <1>2, <1>3, <1>4 DEF TxOK

\* What the rows and the lots keep whoever writes one row of them: t writes r.
LEMMA WriteKeeps ==
  ASSUME LotInv, NEW t \in Tx, NEW r \in Row, NEW v \in Int, DB!Write(t, r, v),
         UNCHANGED <<owner, nextLot, trail>>, \A u \in Tx \ {t} : tx'[u] = tx[u],
         r \in Lot => /\ v = cur[r] \/ lock[owner[r]] = t
                      /\ r >= nextLot => v = 0
  PROVE  /\ \A u \in Tx \ {t} : TxOK(u)'
         /\ EditedOK' /\ LotsOK' /\ MirrorOK' /\ TrailExplainsStock'
<1>0. StockInv /\ TypeOK /\ owner \in [Lot -> Product] /\ nextLot \in Int
  BY DEF LotInv, StockInv, TypeOK
<1>1. /\ com' = com /\ cur'[r] = v /\ lock'[r] = t /\ lock[r] \in {t, NoTx}
      /\ lock[r] = NoTx => cur[r] = com[r]
      /\ \A s \in Row \ {r} : cur'[s] = cur[s] /\ lock'[s] = lock[s]
      /\ \A s \in Row, u \in Tx \ {t} : /\ Changed(u, s)' = Changed(u, s)
                                        /\ DB!Visible(u, s)' = DB!Visible(u, s)
  BY <1>0, WriteChange
<1>2. \A u \in Tx \ {t} : \A p : ChangedLots(u, p)' = ChangedLots(u, p)
  BY <1>0, RowWrite, LotWrite DEF Row
<1>3. ASSUME NEW u \in Tx \ {t} PROVE TxOK(u)'
  <2>1. \A s \in Row : /\ Changed(u, s)' = Changed(u, s)
                       /\ lock'[s] = u <=> lock[s] = u
                       /\ lock[s] = u => cur'[s] = cur[s]
    BY <1>1, StockAssumption
  <2>2. tx'[u] = tx[u] /\ (At(u, "set") => L(u).p \in Row) /\ (At(u, "fefo") => tx[u].queue \subseteq Row)
    BY <1>0, LineType, LineFields, TxFields DEF At
  <2>3. At(u, "set") => DB!Visible(u, L(u).p)' = DB!Visible(u, L(u).p)
    <3>1. L(u)' = L(u)
      BY <2>2, SameTx
    <3>2. QED
      BY <1>1, <2>2, <3>1
  <2>4. At(u, "fefo") => \A l \in tx[u].queue : DB!Visible(u, l)' = DB!Visible(u, l)
    BY <1>1, <2>2
  <2>5. QED
    BY <1>0, <1>2, <2>1, <2>2, <2>3, <2>4, OtherKeeps
<1>4. EditedOK'
  <2> SUFFICES ASSUME NEW l \in Lot, NEW u \in Tx, lock'[l] = u, cur'[l] # com'[l], com'[l] # 0
               PROVE  lock'[owner'[l]] = u
    BY DEF EditedOK
  <2>1. l \in Row /\ owner[l] \in Row /\ owner[l] \in Product /\ owner[l] # l
    BY <1>0, StockAssumption DEF Row
  <2>2. CASE l = r
    <3>1. u = t /\ (cur[l] = v => lock[l] = t /\ cur[l] # com[l])
      BY <1>1, <2>1, <2>2
    <3>2. lock[owner[l]] = t
      BY <1>1, <2>2, <3>1 DEF LotInv, EditedOK
    <3>3. QED
      BY <1>1, <2>1, <2>2, <3>1, <3>2
  <2>3. CASE l # r
    <3>1. lock[l] = u /\ cur[l] # com[l] /\ com[l] # 0
      BY <1>1, <2>1, <2>3
    <3>2. lock[owner[l]] = u
      BY <3>1 DEF LotInv, EditedOK
    <3>3. QED
      BY <1>1, <2>1, <3>2, StockAssumption
  <2>4. QED
    BY <2>2, <2>3
<1>5. LotsOK'
  BY <1>0, <1>1 DEF LotInv, LotsOK, Row
<1>6. MirrorOK' /\ TrailExplainsStock'
  BY <1>1 DEF LotInv, MirrorOK, OnHand, TrailExplainsStock
<1>7. QED
  BY <1>3, <1>4, <1>5, <1>6

\* A new lot.
LEMMA OpenKeeps ==
  ASSUME LotInv, NEW t \in Tx, NEW p \in Product, NEW n \in Int, NewLot(t, p, n),
         \A u \in Tx \ {t} : tx'[u] = tx[u]
  PROVE  /\ \A u \in Tx \ {t} : TxOK(u)'
         /\ EditedOK' /\ LotsOK' /\ MirrorOK' /\ TrailExplainsStock'
<1>0. StockInv /\ LotsOK /\ TypeOK /\ owner \in [Lot -> Product] /\ nextLot \in Int
  BY DEF LotInv, StockInv, TypeOK
<1>1. PICK y \in Lot : y = nextLot
  BY LotOpened, <1>0
<1>2. /\ y \in Row /\ DB!Write(t, y, n)
      /\ (\A l \in Lot \ {y} : owner'[l] = owner[l]) /\ owner'[y] = p
      /\ nextLot' = nextLot + 1 /\ com[y] = 0 /\ cur[y] = 0
      /\ \A u \in Tx \ {t} : \A q : ChangedLots(u, q)' = ChangedLots(u, q)
  BY <1>0, <1>1, LotOpened
<1>3. /\ com' = com /\ cur'[y] = n /\ lock'[y] = t /\ lock[y] \in {t, NoTx}
      /\ \A s \in Row \ {y} : cur'[s] = cur[s] /\ lock'[s] = lock[s]
      /\ \A s \in Row, u \in Tx \ {t} : /\ Changed(u, s)' = Changed(u, s)
                                        /\ DB!Visible(u, s)' = DB!Visible(u, s)
  BY <1>0, <1>2, WriteChange
<1>4. ASSUME NEW u \in Tx \ {t} PROVE TxOK(u)'
  <2>1. \A s \in Row : /\ Changed(u, s)' = Changed(u, s)
                       /\ lock'[s] = u <=> lock[s] = u
                       /\ lock[s] = u => cur'[s] = cur[s]
    BY <1>3, StockAssumption
  <2>2. tx'[u] = tx[u] /\ (At(u, "set") => L(u).p \in Row) /\ (At(u, "fefo") => tx[u].queue \subseteq Row)
    BY <1>0, LineType, LineFields, TxFields DEF At
  <2>3. At(u, "set") => DB!Visible(u, L(u).p)' = DB!Visible(u, L(u).p)
    <3>1. L(u)' = L(u)
      BY <2>2, SameTx
    <3>2. QED
      BY <1>3, <2>2, <3>1
  <2>4. At(u, "fefo") => \A l \in tx[u].queue : DB!Visible(u, l)' = DB!Visible(u, l)
    BY <1>3, <2>2
  <2>5. \A l \in Lot : owner'[l] = owner[l] \/ (l = nextLot /\ lock[l] # u)
    BY <1>1, <1>2, <1>3, StockAssumption
  <2>6. nextLot' \in Int /\ nextLot' >= nextLot
    BY <1>0, <1>2
  <2>7. QED
    BY <1>2, <2>1, <2>2, <2>3, <2>4, <2>5, <2>6, OtherKeeps
<1>5. EditedOK'
  <2> SUFFICES ASSUME NEW l \in Lot, NEW u \in Tx, lock'[l] = u, cur'[l] # com'[l], com'[l] # 0
               PROVE  lock'[owner'[l]] = u
    BY DEF EditedOK
  <2>1. l # y /\ l \in Row /\ owner[l] \in Row /\ owner[l] # y /\ owner'[l] = owner[l]
    BY <1>0, <1>2, <1>3, StockAssumption DEF Row
  <2>2. lock[owner[l]] = u
    BY <1>3, <2>1 DEF LotInv, EditedOK
  <2>3. QED
    BY <1>3, <2>1, <2>2
<1>6. LotsOK'
  <2>1. \A l \in Lot \ {y} : cur'[l] = cur[l] /\ com'[l] = com[l] /\ owner'[l] = owner[l]
    BY <1>2, <1>3 DEF Row
  <2>2. /\ nextLot' > InitLots /\ \A l \in Lot : l <= InitLots \/ l >= nextLot' => l # y
    BY <1>0, <1>1, <1>2, StockAssumption DEF LotsOK, Lot
  <2>3. \A l \in Lot : l >= nextLot' => l >= nextLot
    BY <1>0, <1>2 DEF Lot
  <2>4. QED
    BY <1>0, <2>1, <2>2, <2>3 DEF LotsOK
<1>7. MirrorOK'
  <2> SUFFICES ASSUME NEW q \in Product PROVE OnHand(q)' = OnHand(q)
    BY <1>3 DEF LotInv, MirrorOK, Row
  <2> DEFINE R == {l \in Lot : owner[l] = q}
             R2 == {l \in Lot : owner'[l] = q}
             f == [l \in Lot |-> IF l \in R THEN com[l] ELSE 0]
             g == [l \in Lot |-> IF l \in R2 THEN com[l] ELSE 0]
  <2>1. R \in SUBSET Lot /\ R2 \in SUBSET Lot /\ \A l \in Lot : com[l] \in Int
    BY <1>0, RowInts DEF Row
  <2>2. \A l \in Lot : f[l] = g[l]
    BY <1>2
  <2> HIDE DEF R, R2
  <2>3. SumFunctionOnSet(com, R) = SumFunctionOnSet(f, Lot) /\ SumFunctionOnSet(com, R2) = SumFunctionOnSet(g, Lot)
    BY <2>1, LotFinite, SumWhere
  <2> HIDE DEF f, g
  <2>4. SumFunctionOnSet(f, Lot) = SumFunctionOnSet(g, Lot)
    BY <2>2, LotFinite, SumSame
  <2>5. QED
    BY <1>3, <2>3, <2>4 DEF OnHand, R, R2
<1>8. TrailExplainsStock'
  BY <1>3 DEF LotInv, TrailExplainsStock, NewLot
<1>9. QED
  BY <1>4, <1>5, <1>6, <1>7, <1>8

\* Nothing is written.
LEMMA QuietKeeps ==
  ASSUME LotInv, NEW t \in Tx, UNCHANGED <<rowVars, owner, nextLot, trail>>,
         \A u \in Tx \ {t} : tx'[u] = tx[u]
  PROVE  /\ \A u \in Tx \ {t} : TxOK(u)'
         /\ EditedOK' /\ LotsOK' /\ MirrorOK' /\ TrailExplainsStock'
<1>1. /\ com' = com /\ cur' = cur /\ lock' = lock /\ owner' = owner /\ nextLot' = nextLot /\ trail' = trail
      /\ nextLot \in Int
  BY DEF rowVars, LotInv, StockInv, TypeOK
<1>2. \A u \in Tx : \A r : Changed(u, r)' = Changed(u, r) /\ DB!Visible(u, r)' = DB!Visible(u, r)
  BY <1>1 DEF Changed, DB!Visible
<1>3. \A u \in Tx : \A p : ChangedLots(u, p)' = ChangedLots(u, p)
  BY <1>1, <1>2 DEF ChangedLots, LotChange
<1>4. ASSUME NEW u \in Tx \ {t} PROVE TxOK(u)'
  <2>1. tx'[u] = tx[u] /\ L(u)' = L(u)
    BY SameTx
  <2>2. DB!Visible(u, L(u).p)' = DB!Visible(u, L(u).p)
    BY <1>1, <2>1 DEF DB!Visible
  <2>3. QED
    BY <1>1, <1>2, <1>3, <2>1, <2>2, OtherKeeps
<1>5. QED
  BY <1>1, <1>4 DEF LotInv, EditedOK, LotsOK, MirrorOK, OnHand, TrailExplainsStock

\* What is counted at one terminal is touched at no other: the stock-taking of
\* a product is not interrupted (a count is read first and written after).
CountedApart ==
  \A t, u \in Tx : t # u =>
     \A r \in Desk[t], s \in Desk[u] :
        \A i \in DOMAIN r, j \in DOMAIN s : r[i].kind = "adjust" => s[j].p # r[i].p

\* An idle transaction has changed nothing.
LEMMA EndedOK ==
  ASSUME NEW t \in Tx, tx'[t] = Idle, \A r \in Row : lock'[r] # t
  PROVE  TxOK(t)'
<1>1. tx'[t].pc = "idle" /\ tx'[t].moves = [p \in Product |-> 0]
  BY DEF Idle, NoMoves
<1>2. \A r \in Row : Changed(t, r)' = 0
  BY DEF Changed
<1>3. ASSUME NEW p PROVE ChangedLots(t, p)' = 0
  <2> DEFINE f == LotChange(t, p)'
  <2>1. \A l \in Lot : f[l] = 0
    BY <1>2 DEF LotChange, Row
  <2> HIDE DEF f
  <2>2. SumFunctionOnSet(f, Lot) = 0
    BY <2>1, LotFinite, SumNone
  <2>3. QED
    BY <2>2 DEF f, ChangedLots
<1>4. \A p \in Product : GapAt(t, p)' = 0 /\ DueAt(t, p)' = 0
  BY <1>1 DEF GapAt, DueAt, At
<1>5. QED
  BY <1>1, <1>2, <1>3, <1>4 DEF TxOK, DeskOK, At, Row

\* A transaction that is rolled back.
LEMMA FailKeeps ==
  ASSUME LotInv, NEW t \in Tx, Fail(t)
  PROVE  LotInv'
<1>0. /\ StockInv /\ TypeOK /\ owner \in [Lot -> Product] /\ nextLot \in Int /\ tx \in [Tx -> TxState]
      /\ cur \in [Row -> Int] /\ lock \in [Row -> Tx \cup {NoTx}]
  BY DEF LotInv, StockInv, TypeOK, TxTypeOK, DB!DBTypeOK
<1>1. /\ com' = com /\ UNCHANGED <<owner, nextLot, trail>> /\ tx' = [tx EXCEPT ![t] = Idle]
      /\ \A r \in Row : /\ cur'[r] = (IF lock[r] = t THEN com[r] ELSE cur[r])
                        /\ lock'[r] = (IF lock[r] = t THEN NoTx ELSE lock[r])
  BY DEF Fail, DB!Rollback, DB!Release
<1>2. StockInv'
  BY <1>0, FailOK
<1>3. ASSUME NEW u \in Tx \ {t} PROVE TxOK(u)'
  <2>1. tx'[u] = tx[u] /\ L(u)' = L(u) /\ (At(u, "set") => L(u).p \in Row)
        /\ (At(u, "fefo") => tx[u].queue \subseteq Row)
    BY <1>0, <1>1, SameTx, LineType, LineFields, TxFields DEF At
  <2>2. \A r \in Row : /\ Changed(u, r)' = Changed(u, r)
                       /\ lock'[r] = u <=> lock[r] = u
                       /\ lock[r] = u => cur'[r] = cur[r]
                       /\ DB!Visible(u, r)' = DB!Visible(u, r)
    BY <1>1, StockAssumption DEF Changed, DB!Visible
  <2>3. \A p : ChangedLots(u, p)' = ChangedLots(u, p)
    BY <1>1, <2>2 DEF ChangedLots, LotChange, Row
  <2>4. At(u, "set") => DB!Visible(u, L(u).p)' = DB!Visible(u, L(u).p)
    BY <2>1, <2>2
  <2>5. QED
    BY <1>0, <1>1, <2>1, <2>2, <2>3, <2>4, OtherKeeps
<1>4. TxOK(t)'
  BY <1>0, <1>1, StockAssumption, EndedOK
<1>5. EditedOK'
  <2> SUFFICES ASSUME NEW l \in Lot, NEW u \in Tx, lock'[l] = u, cur'[l] # com'[l], com'[l] # 0
               PROVE  lock'[owner'[l]] = u
    BY DEF EditedOK
  <2>1. l \in Row /\ owner[l] \in Row /\ u # t /\ lock[l] = u /\ cur[l] # com[l] /\ com[l] # 0
    BY <1>0, <1>1, StockAssumption DEF Row
  <2>2. QED
    BY <1>1, <2>1 DEF LotInv, EditedOK
<1>6. LotsOK'
  BY <1>1 DEF LotInv, LotsOK, Row
<1>7. MirrorOK' /\ TrailExplainsStock'
  BY <1>1 DEF LotInv, MirrorOK, OnHand, TrailExplainsStock
<1>8. QED
  BY <1>2, <1>3, <1>4, <1>5, <1>6, <1>7 DEF LotInv

\* A transaction that commits.
LEMMA CommitKeeps ==
  ASSUME CountedApart, LotInv, NEW t \in Tx, Commit(t), StockInv'
  PROVE  LotInv'
<1>0. /\ StockInv /\ TypeOK /\ owner \in [Lot -> Product] /\ nextLot \in Int /\ tx \in [Tx -> TxState]
      /\ com \in [Row -> Int] /\ cur \in [Row -> Int] /\ lock \in [Row -> Tx \cup {NoTx}]
  BY DEF LotInv, StockInv, TypeOK, TxTypeOK, DB!DBTypeOK
<1>1. /\ cur' = cur /\ UNCHANGED <<owner, nextLot>> /\ tx' = [tx EXCEPT ![t] = Idle]
      /\ \A r \in Row : /\ com'[r] = com[r] + Changed(t, r)
                        /\ com'[r] = DB!Visible(t, r)
                        /\ lock'[r] = (IF lock[r] = t THEN NoTx ELSE lock[r])
  BY <1>0, RowInts DEF Commit, DB!Commit, DB!Release
<1>2. TxOK(t) /\ At(t, "commit")
  BY DEF LotInv, Commit
<1>3. ASSUME NEW u \in Tx \ {t} PROVE TxOK(u)'
  <2>1. tx'[u] = tx[u] /\ L(u)' = L(u) /\ TxOK(u)
        /\ (At(u, "set") => L(u).p \in Product) /\ (At(u, "fefo") => tx[u].queue \subseteq Lot)
    BY <1>0, <1>1, SameTx, LineType, LineFields, TxFields DEF At, LotInv
  <2>2. \A r \in Row : /\ Changed(u, r)' = Changed(u, r)
                       /\ lock'[r] = u <=> lock[r] = u
                       /\ lock[r] = u => cur'[r] = cur[r]
                       /\ lock[r] # t \/ cur[r] = com[r] => DB!Visible(u, r)' = DB!Visible(u, r)
    BY <1>0, <1>1, StockAssumption DEF Changed, DB!Visible
  <2>3. \A p : ChangedLots(u, p)' = ChangedLots(u, p)
    BY <1>1, <2>2 DEF ChangedLots, LotChange, Row
  <2>4. At(u, "set") => DB!Visible(u, L(u).p)' = DB!Visible(u, L(u).p)
    <3> SUFFICES ASSUME At(u, "set") PROVE lock[L(u).p] # t
      BY <2>1, <2>2 DEF Row
    <3>1. tx[u].req \in Desk[u] /\ tx[u].line \in DOMAIN tx[u].req /\ L(u).kind = "adjust"
      BY <1>0, <2>1, LineType DEF At, TxOK, DeskOK, LineOK, L
    <3>2. SUFFICES ASSUME lock[L(u).p] = t PROVE FALSE
      OBVIOUS
    <3>3. PICK i \in DOMAIN tx[t].req : tx[t].req[i].p = L(u).p
      BY <1>2, <2>1, <3>2 DEF TxOK, DeskOK
    <3>4. tx[t].req \in Desk[t]
      BY <1>2 DEF TxOK, DeskOK, At
    <3>5. QED
      BY <3>1, <3>3, <3>4 DEF CountedApart, L
  <2>5. At(u, "fefo") => \A l \in tx[u].queue : DB!Visible(u, l)' = DB!Visible(u, l)
    <3> SUFFICES ASSUME At(u, "fefo"), NEW l \in tx[u].queue PROVE lock[l] # t \/ cur[l] = com[l]
      BY <2>1, <2>2 DEF Row
    <3>1. owner[l] = L(u).p /\ DB!Visible(u, l) > 0 /\ lock[L(u).p] = u /\ l \in Lot
      BY <2>1 DEF TxOK, QueueOK, HeldOK, At
    <3>2. lock[l] # u => com[l] > 0
      BY <3>1 DEF DB!Visible
    <3>3. QED
      BY <3>1, <3>2 DEF LotInv, EditedOK
  <2>6. QED
    BY <1>0, <1>1, <2>1, <2>2, <2>3, <2>4, <2>5, OtherKeeps
<1>4. TxOK(t)'
  BY <1>0, <1>1, StockAssumption, EndedOK
<1>5. EditedOK'
  <2> SUFFICES ASSUME NEW l \in Lot, NEW u \in Tx, lock'[l] = u, cur'[l] # com'[l], com'[l] # 0
               PROVE  lock'[owner'[l]] = u
    BY DEF EditedOK
  <2>1. l \in Row /\ owner[l] \in Row /\ u # t /\ lock[l] = u
    BY <1>0, <1>1, StockAssumption DEF Row
  <2>2. com'[l] = com[l]
    BY <1>1, <2>1 DEF DB!Visible
  <2>3. QED
    BY <1>1, <2>1, <2>2 DEF LotInv, EditedOK
<1>6. LotsOK'
  BY <1>1 DEF LotInv, LotsOK, Row, DB!Visible
<1>7. MirrorOK'
  <2> SUFFICES ASSUME NEW p \in Product PROVE com'[p] = OnHand(p)'
    BY DEF MirrorOK
  <2> DEFINE R == {l \in Lot : owner[l] = p}
             f == [l \in Lot |-> IF l \in R THEN com[l] ELSE 0]
             g == [l \in Lot |-> IF l \in R THEN com'[l] ELSE 0]
             h == LotChange(t, p)
  <2>1. R \in SUBSET Lot /\ \A l \in Lot : com[l] \in Int /\ com'[l] \in Int
    BY <1>0, <1>1, RowInts DEF Row
  <2>2. \A l \in Lot : f[l] \in Int /\ h[l] \in Int /\ g[l] = f[l] + h[l]
    BY <1>0, <1>1, <2>1, RowInts DEF LotChange, Row
  <2>3. OnHand(p) = SumFunctionOnSet(com, R) /\ OnHand(p)' = SumFunctionOnSet(com', R)
    BY <1>1 DEF OnHand
  <2> HIDE DEF R
  <2>4. SumFunctionOnSet(com, R) = SumFunctionOnSet(f, Lot) /\ SumFunctionOnSet(com', R) = SumFunctionOnSet(g, Lot)
    BY <2>1, LotFinite, SumWhere
  <2> HIDE DEF f, g, h
  <2>5. SumFunctionOnSet(g, Lot) = SumFunctionOnSet(f, Lot) + SumFunctionOnSet(h, Lot)
    BY <2>2, LotFinite, SumPlus
  <2>6. SumFunctionOnSet(h, Lot) = Changed(t, p)
    <3>1. GapAt(t, p) = 0
      BY <1>2 DEF GapAt, Gap, At
    <3>2. Changed(t, p) \in Int
      BY <1>0, RowInts DEF Row
    <3>3. QED
      BY <1>2, <3>1, <3>2 DEF TxOK, ChangedLots, h
  <2>7. com[p] = OnHand(p)
    BY DEF LotInv, MirrorOK
  <2>8. QED
    BY <1>1, <2>3, <2>4, <2>5, <2>6, <2>7 DEF Row
<1>8. TrailExplainsStock'
  <2> SUFFICES ASSUME NEW p \in Product PROVE com'[p] = InitStock[p] + trail'[p]
    BY DEF TrailExplainsStock
  <2>1. trail'[p] = trail[p] + tx[t].moves[p] /\ com'[p] = com[p] + Changed(t, p)
    BY <1>1 DEF Commit, Row
  <2>2. DueAt(t, p) = 0 /\ tx[t].moves[p] \in Int
    BY <1>0, <1>2, TxFields DEF DueAt, Due, At
  <2>3. Changed(t, p) = tx[t].moves[p]
    BY <1>2, <2>2 DEF TxOK
  <2>4. com[p] = InitStock[p] + trail[p] /\ InitStock[p] \in Int /\ trail[p] \in Int
    BY <1>0, StockAssumption DEF LotInv, TrailExplainsStock, TypeOK
  <2>5. QED
    BY <2>1, <2>2, <2>3, <2>4
<1>9. QED
  BY <1>3, <1>4, <1>5, <1>6, <1>7, <1>8 DEF LotInv

-----------------------------------------------------------------------------
(***************************************************************************)
(* What a step of t leaves to itself, when it stays at its line.            *)
(***************************************************************************)
\* t stays at its line, the others where they are.
Stays(t) == /\ ~At(t, "idle") /\ tx'[t].pc # "idle"
            /\ tx'[t].req = tx[t].req /\ tx'[t].line = tx[t].line
            /\ \A u \in Tx \ {t} : tx'[u] = tx[u]

\* The movements it has recorded and the one its line owes grow by d.
Records(t, d) == /\ tx'[t].moves[L(t).p] + Due(t)' = tx[t].moves[L(t).p] + Due(t) + d
                 /\ \A q \in Product \ {L(t).p} : tx'[t].moves[q] = tx[t].moves[q]

\* The conditions of TxOK on the next statement.
StepOK(t) == LineOK(t) /\ PickedOK(t) /\ HeldOK(t) /\ QueueOK(t) /\ SetOK(t)

\* What holds of a line that stays, whatever its statement wrote.
LEMMA StaysOK ==
  ASSUME LotInv, NEW t \in Tx, Stays(t), \A q \in Product \ {L(t).p} : lock'[q] = t => lock[q] = t
  PROVE  /\ L(t)' = L(t) /\ L(t) \in Line /\ L(t).p \in Product /\ L(t).p \in Row
         /\ TypeOK /\ StockInv /\ TxOK(t)
         /\ DeskOK(t)' /\ ~At(t, "idle")'
         /\ GapAt(t, L(t).p) = Gap(t) /\ DueAt(t, L(t).p) = Due(t)
         /\ \A q : /\ GapAt(t, q)' = (IF q = L(t).p THEN Gap(t)' ELSE 0)
                   /\ DueAt(t, q)' = (IF q = L(t).p THEN Due(t)' ELSE 0)
         /\ \A q \in Product \ {L(t).p} : GapAt(t, q) = 0 /\ DueAt(t, q) = 0
<1>1. L(t)' = L(t) /\ ~At(t, "idle") /\ ~At(t, "idle")'
  BY DEF Stays, L, At
<1>2. TypeOK /\ StockInv /\ TxOK(t)
  BY DEF LotInv, StockInv
<1>3. L(t) \in Line /\ L(t).p \in Product /\ L(t).p \in Row
      /\ tx[t].req[tx[t].line] = L(t) /\ tx[t].line \in DOMAIN tx[t].req
  BY <1>1, <1>2, LineType, LineFields DEF L
<1>4. DeskOK(t)'
  <2> SUFFICES ASSUME NEW p \in Product, lock'[p] = t
               PROVE  \E i \in DOMAIN tx[t].req : tx[t].req[i].p = p
    BY <1>1, <1>2 DEF DeskOK, TxOK, Stays
  <2>1. CASE p = L(t).p
    BY <1>3, <2>1
  <2>2. CASE p # L(t).p
    BY <1>2, <2>2 DEF TxOK, DeskOK
  <2>3. QED
    BY <2>1, <2>2
<1>5. QED
  BY <1>1, <1>2, <1>3, <1>4 DEF GapAt, DueAt

\* A write of the stock row of the line.
LEMMA RowStep ==
  ASSUME LotInv, StockInv', NEW t \in Tx, Stays(t), NEW v \in Int, DB!Write(t, L(t).p, v),
         UNCHANGED <<owner, nextLot, trail>>, StepOK(t)',
         Gap(t) \in Int, Gap(t)' = Gap(t) - (v - cur[L(t).p]),
         Records(t, v - cur[L(t).p]), Due(t) \in Int
  PROVE  LotInv'
<1>a. PICK r \in Product : r = L(t).p
  BY LineType, LineFields DEF Stays, LotInv, StockInv
<1>0. r \in Product /\ r \in Row /\ TypeOK /\ StockInv /\ TxOK(t) /\ DB!Write(t, r, v) /\ r \notin Lot
  <2>1. ~At(t, "idle") /\ TypeOK /\ StockInv /\ TxOK(t)
    BY DEF Stays, LotInv, StockInv
  <2>2. QED
    BY <1>a, <2>1, LineType, LineFields, StockAssumption
<1>1. /\ Changed(t, r)' = Changed(t, r) + (v - cur[r])
      /\ \A s \in Row \ {r} : lock'[s] = lock[s] /\ Changed(t, s)' = Changed(t, s)
  BY <1>0, WriteChange
<1>2. \A p : ChangedLots(t, p)' = ChangedLots(t, p)
  BY <1>0, RowWrite
<1>3. /\ \A u \in Tx \ {t} : TxOK(u)'
      /\ EditedOK' /\ LotsOK' /\ MirrorOK' /\ TrailExplainsStock'
  BY <1>0, WriteKeeps DEF Stays
<1>4. /\ DeskOK(t)' /\ ~At(t, "idle")'
      /\ GapAt(t, r) = Gap(t) /\ DueAt(t, r) = Due(t)
      /\ \A q : /\ GapAt(t, q)' = (IF q = r THEN Gap(t)' ELSE 0)
                /\ DueAt(t, q)' = (IF q = r THEN Due(t)' ELSE 0)
      /\ \A q \in Product \ {r} : GapAt(t, q) = 0 /\ DueAt(t, q) = 0
  <2>1. \A q \in Product \ {L(t).p} : lock'[q] = t => lock[q] = t
    BY <1>1, <1>a DEF Row
  <2>2. QED
    BY <1>a, <2>1, StaysOK
<1>5. ASSUME NEW q \in Product
      PROVE  /\ ChangedLots(t, q)' = Changed(t, q)' + GapAt(t, q)'
             /\ Changed(t, q)' = tx'[t].moves[q] + DueAt(t, q)'
  <2>1. ChangedLots(t, q) = Changed(t, q) + GapAt(t, q) /\ Changed(t, q) = tx[t].moves[q] + DueAt(t, q)
    BY <1>0 DEF TxOK
  <2>2. Changed(t, q) \in Int /\ q \in Row /\ cur[r] \in Int /\ tx[t].moves[q] \in Int
    BY <1>0, RowInts, TxFields DEF Row
  <2>3. CASE q = r
    <3>1. tx'[t].moves[r] + Due(t)' = tx[t].moves[r] + Due(t) + (v - cur[r]) /\ Gap(t)' = Gap(t) - (v - cur[r])
      BY <1>a DEF Records
    <3>2. QED
      BY <1>1, <1>2, <1>4, <2>1, <2>2, <2>3, <3>1
  <2>4. CASE q # r
    <3>1. tx'[t].moves[q] = tx[t].moves[q]
      BY <1>a, <2>4 DEF Records
    <3>2. QED
      BY <1>1, <1>2, <1>4, <2>1, <2>2, <2>4, <3>1
  <2>5. QED
    BY <2>3, <2>4
<1>6. TxOK(t)'
  BY <1>4, <1>5 DEF TxOK, StepOK
<1>7. QED
  BY <1>3, <1>6 DEF LotInv

\* A write of a lot of the line's product.
LEMMA LotStep ==
  ASSUME LotInv, StockInv', NEW t \in Tx, Stays(t), NEW r \in Lot, NEW v \in Int, DB!Write(t, r, v),
         UNCHANGED <<owner, nextLot, trail>>, StepOK(t)',
         owner[r] = L(t).p, v = cur[r] \/ lock[L(t).p] = t, r >= nextLot => v = 0,
         Gap(t) \in Int, Gap(t)' = Gap(t) + (v - cur[r]), Records(t, 0), Due(t) \in Int
  PROVE  LotInv'
<1>0. r \in Row /\ TypeOK /\ StockInv /\ TxOK(t) /\ \A p \in Product : p \in Row \ {r}
  BY StockAssumption DEF LotInv, StockInv, Row
<1>1. \A s \in Row \ {r} : lock'[s] = lock[s] /\ Changed(t, s)' = Changed(t, s)
  BY <1>0, WriteChange
<1>2. \A p : ChangedLots(t, p)' = ChangedLots(t, p) + (IF p = owner[r] THEN v - cur[r] ELSE 0)
  BY <1>0, LotWrite
<1>3. /\ \A u \in Tx \ {t} : TxOK(u)'
      /\ EditedOK' /\ LotsOK' /\ MirrorOK' /\ TrailExplainsStock'
  BY <1>0, WriteKeeps DEF Stays
<1>4. /\ DeskOK(t)' /\ ~At(t, "idle")'
      /\ GapAt(t, L(t).p) = Gap(t) /\ DueAt(t, L(t).p) = Due(t)
      /\ \A q : /\ GapAt(t, q)' = (IF q = L(t).p THEN Gap(t)' ELSE 0)
                /\ DueAt(t, q)' = (IF q = L(t).p THEN Due(t)' ELSE 0)
      /\ \A q \in Product \ {L(t).p} : GapAt(t, q) = 0 /\ DueAt(t, q) = 0
  BY <1>0, <1>1, StaysOK
<1>5. ASSUME NEW q \in Product
      PROVE  /\ ChangedLots(t, q)' = Changed(t, q)' + GapAt(t, q)'
             /\ Changed(t, q)' = tx'[t].moves[q] + DueAt(t, q)'
  <2>1. ChangedLots(t, q) = Changed(t, q) + GapAt(t, q) /\ Changed(t, q) = tx[t].moves[q] + DueAt(t, q)
    BY <1>0 DEF TxOK
  <2>2. Changed(t, q) \in Int /\ cur[r] \in Int /\ tx[t].moves[q] \in Int
    BY <1>0, RowInts, TxFields
  <2>3. CASE q = L(t).p
    <3>1. tx'[t].moves[q] + Due(t)' = tx[t].moves[q] + Due(t) + 0
      BY <2>3 DEF Records
    <3>2. QED
      BY <1>0, <1>1, <1>2, <1>4, <2>1, <2>2, <2>3, <3>1
  <2>4. CASE q # L(t).p
    <3>1. tx'[t].moves[q] = tx[t].moves[q]
      BY <2>4 DEF Records
    <3>2. ChangedLots(t, q) \in Int
      BY <1>0, LotInts
    <3>3. QED
      BY <1>0, <1>1, <1>2, <1>4, <2>1, <2>2, <2>4, <3>1, <3>2
  <2>5. QED
    BY <2>3, <2>4
<1>6. TxOK(t)'
  BY <1>4, <1>5 DEF TxOK, StepOK
<1>7. QED
  BY <1>3, <1>6 DEF LotInv

\* A new lot of the line's product.
LEMMA OpenStep ==
  ASSUME LotInv, StockInv', NEW t \in Tx, Stays(t), NEW n \in Int, NewLot(t, L(t).p, n), StepOK(t)',
         Gap(t) \in Int, Gap(t)' = Gap(t) + n, Records(t, 0), Due(t) \in Int
  PROVE  LotInv'
<1>0. /\ L(t).p \in Product /\ TypeOK /\ StockInv /\ LotsOK /\ TxOK(t)
      /\ \A r \in Lot : r \in Row /\ \A p \in Product : p \in Row \ {r}
  <2>1. ~At(t, "idle") /\ TypeOK /\ StockInv /\ LotsOK /\ TxOK(t)
    BY DEF Stays, LotInv, StockInv
  <2>2. QED
    BY <2>1, LineType, LineFields, StockAssumption DEF Row
<1>1. PICK r \in Lot : r = nextLot /\ DB!Write(t, r, n)
  BY <1>0, LotOpened
<1>2. \A s \in Row \ {r} : lock'[s] = lock[s] /\ Changed(t, s)' = Changed(t, s)
  BY <1>0, <1>1, WriteChange
<1>3. \A p : ChangedLots(t, p)' = ChangedLots(t, p) + (IF p = L(t).p THEN n ELSE 0)
  BY <1>0, LotOpened
<1>4. /\ \A u \in Tx \ {t} : TxOK(u)'
      /\ EditedOK' /\ LotsOK' /\ MirrorOK' /\ TrailExplainsStock'
  BY <1>0, OpenKeeps DEF Stays
<1>5. /\ DeskOK(t)' /\ ~At(t, "idle")'
      /\ GapAt(t, L(t).p) = Gap(t) /\ DueAt(t, L(t).p) = Due(t)
      /\ \A q : /\ GapAt(t, q)' = (IF q = L(t).p THEN Gap(t)' ELSE 0)
                /\ DueAt(t, q)' = (IF q = L(t).p THEN Due(t)' ELSE 0)
      /\ \A q \in Product \ {L(t).p} : GapAt(t, q) = 0 /\ DueAt(t, q) = 0
  BY <1>0, <1>2, StaysOK
<1>6. ASSUME NEW q \in Product
      PROVE  /\ ChangedLots(t, q)' = Changed(t, q)' + GapAt(t, q)'
             /\ Changed(t, q)' = tx'[t].moves[q] + DueAt(t, q)'
  <2>1. ChangedLots(t, q) = Changed(t, q) + GapAt(t, q) /\ Changed(t, q) = tx[t].moves[q] + DueAt(t, q)
    BY <1>0 DEF TxOK
  <2>2. Changed(t, q) \in Int /\ tx[t].moves[q] \in Int /\ ChangedLots(t, q) \in Int
    BY <1>0, RowInts, TxFields, LotInts DEF Row
  <2>3. CASE q = L(t).p
    <3>1. tx'[t].moves[q] + Due(t)' = tx[t].moves[q] + Due(t) + 0
      BY <2>3 DEF Records
    <3>2. QED
      BY <1>0, <1>2, <1>3, <1>5, <2>1, <2>2, <2>3, <3>1
  <2>4. CASE q # L(t).p
    <3>1. tx'[t].moves[q] = tx[t].moves[q]
      BY <2>4 DEF Records
    <3>2. QED
      BY <1>0, <1>2, <1>3, <1>5, <2>1, <2>2, <2>4, <3>1
  <2>5. QED
    BY <2>3, <2>4
<1>7. TxOK(t)'
  BY <1>5, <1>6 DEF TxOK, StepOK
<1>8. QED
  BY <1>4, <1>7 DEF LotInv

\* A read.
LEMMA QuietStep ==
  ASSUME LotInv, StockInv', NEW t \in Tx, Stays(t), UNCHANGED <<rowVars, owner, nextLot, trail>>, StepOK(t)',
         Gap(t) \in Int, Gap(t)' = Gap(t), Records(t, 0), Due(t) \in Int
  PROVE  LotInv'
<1>0. /\ L(t).p \in Product /\ TypeOK /\ StockInv /\ TxOK(t)
  <2>1. ~At(t, "idle") /\ TypeOK /\ StockInv /\ TxOK(t)
    BY DEF Stays, LotInv, StockInv
  <2>2. QED
    BY <2>1, LineType, LineFields
<1>1. /\ lock' = lock /\ \A s : Changed(t, s)' = Changed(t, s)
      /\ \A p : ChangedLots(t, p)' = ChangedLots(t, p)
  BY DEF Changed, ChangedLots, LotChange, rowVars
<1>2. /\ \A u \in Tx \ {t} : TxOK(u)'
      /\ EditedOK' /\ LotsOK' /\ MirrorOK' /\ TrailExplainsStock'
  BY QuietKeeps DEF Stays
<1>3. /\ DeskOK(t)' /\ ~At(t, "idle")'
      /\ GapAt(t, L(t).p) = Gap(t) /\ DueAt(t, L(t).p) = Due(t)
      /\ \A q : /\ GapAt(t, q)' = (IF q = L(t).p THEN Gap(t)' ELSE 0)
                /\ DueAt(t, q)' = (IF q = L(t).p THEN Due(t)' ELSE 0)
      /\ \A q \in Product \ {L(t).p} : GapAt(t, q) = 0 /\ DueAt(t, q) = 0
  BY <1>1, StaysOK
<1>4. ASSUME NEW q \in Product
      PROVE  /\ ChangedLots(t, q)' = Changed(t, q)' + GapAt(t, q)'
             /\ Changed(t, q)' = tx'[t].moves[q] + DueAt(t, q)'
  <2>1. ChangedLots(t, q) = Changed(t, q) + GapAt(t, q) /\ Changed(t, q) = tx[t].moves[q] + DueAt(t, q)
    BY <1>0 DEF TxOK
  <2>2. tx[t].moves[q] \in Int
    BY <1>0, TxFields
  <2>3. CASE q = L(t).p
    <3>1. tx'[t].moves[q] + Due(t)' = tx[t].moves[q] + Due(t) + 0
      BY <2>3 DEF Records
    <3>2. QED
      BY <1>1, <1>3, <2>1, <2>2, <2>3, <3>1
  <2>4. CASE q # L(t).p
    <3>1. tx'[t].moves[q] = tx[t].moves[q]
      BY <2>4 DEF Records
    <3>2. QED
      BY <1>1, <1>3, <2>1, <2>4, <3>1
  <2>5. QED
    BY <2>3, <2>4
<1>5. TxOK(t)'
  BY <1>3, <1>4 DEF TxOK, StepOK
<1>6. QED
  BY <1>2, <1>5 DEF LotInv

-----------------------------------------------------------------------------
(***************************************************************************)
(* What the lots cover.                                                    *)
(***************************************************************************)
\* What t sees in the lots of p is what is committed there and what it changed.
LEMMA SeenIs ==
  ASSUME LotInv, NEW t \in Tx, NEW p \in Product
  PROVE  /\ SumFunctionOnSet(LotSeen(t, p), Lot) = DB!Visible(t, p) + GapAt(t, p)
         /\ GapAt(t, p) \in Int /\ DB!Visible(t, p) \in Int
<1>0. TypeOK /\ TxOK(t) /\ p \in Row /\ \A l \in Lot : l \in Row
  BY DEF LotInv, StockInv, Row
<1> DEFINE R == {l \in Lot : owner[l] = p}
           f == [l \in Lot |-> IF l \in R THEN com[l] ELSE 0]
           g == LotChange(t, p)
           h == LotSeen(t, p)
<1>1. \A l \in Lot : f[l] \in Int /\ g[l] \in Int /\ h[l] = f[l] + g[l]
  BY <1>0, RowInts DEF LotChange, LotSeen
<1>2. R \in SUBSET Lot /\ \A l \in R : com[l] \in Int
  BY <1>0, RowInts
<1>3. OnHand(p) = SumFunctionOnSet(com, R)
  BY DEF OnHand
<1>4. com[p] = OnHand(p) /\ ChangedLots(t, p) = SumFunctionOnSet(g, Lot)
  BY DEF LotInv, MirrorOK, ChangedLots
<1> HIDE DEF R
<1>5. SumFunctionOnSet(com, R) = SumFunctionOnSet(f, Lot)
  BY <1>2, LotFinite, SumWhere
<1> HIDE DEF f, g
<1>6. SumFunctionOnSet(h, Lot) = SumFunctionOnSet(f, Lot) + SumFunctionOnSet(g, Lot)
  <2> HIDE DEF h
  <2>1. QED
    BY <1>1, LotFinite, SumPlus
<1>7. ChangedLots(t, p) = Changed(t, p) + GapAt(t, p)
  BY <1>0 DEF TxOK
<1>8. GapAt(t, p) \in Int
  BY <1>0, TxFields DEF GapAt, Gap
<1>9. com[p] \in Int /\ Changed(t, p) \in Int /\ DB!Visible(t, p) = com[p] + Changed(t, p)
  BY <1>0, RowInts
<1>10. QED
  BY <1>3, <1>4, <1>5, <1>6, <1>7, <1>8, <1>9

\* No lot is seen below zero.
LEMMA SeenNat ==
  ASSUME LotInv, NEW t \in Tx, ~At(t, "idle"), NEW p \in Product
  PROVE  \A l \in Lot : LotSeen(t, p)[l] \in Nat /\ DB!Visible(t, l) \in Nat
<1>1. /\ StockInv /\ TypeOK /\ L(t).p \notin Lot
  BY LineType, LineFields, StockAssumption DEF LotInv, StockInv
<1>2. ASSUME NEW l \in Lot PROVE DB!Visible(t, l) \in Nat
  <2>1. l \in Row /\ ~Corrected(t, l) /\ com[l] \in Int /\ com[l] >= 0 /\ cur[l] \in Int
    BY <1>1, RowInts DEF Corrected, Row, StockInv, RowOK
  <2>2. CASE lock[l] = t
    <3>1. cur[l] >= 0
      BY <1>1, <2>1, <2>2, MayWrite DEF DB!Available
    <3>2. QED
      BY <2>1, <2>2, <3>1 DEF DB!Visible
  <2>3. QED
    BY <2>1, <2>2 DEF DB!Visible
<1>3. QED
  BY <1>2 DEF LotSeen

\* A picked lot that covers the line means that the stock row does.
LEMMA PickedCovers ==
  ASSUME LotInv, NEW t \in Tx, At(t, "guard"), L(t).kind = "sale", L(t).lot # NoLot
  PROVE  DB!Visible(t, L(t).p) >= tx[t].left
<1>1. TypeOK /\ TxOK(t) /\ ~At(t, "idle")
  BY DEF LotInv, StockInv, At
<1>2. L(t).p \in Product /\ L(t).lot \in Lot /\ tx[t].left \in Int
  BY <1>1, LineType, LineFields, TxFields
<1>3. lock[L(t).lot] = t /\ owner[L(t).lot] = L(t).p /\ cur[L(t).lot] >= tx[t].left
  BY <1>1 DEF TxOK, PickedOK
<1>4. LotSeen(t, L(t).p)[L(t).lot] = cur[L(t).lot]
  BY <1>2, <1>3 DEF LotSeen, DB!Visible
<1>5. LotSeen(t, L(t).p)[L(t).lot] <= SumFunctionOnSet(LotSeen(t, L(t).p), Lot)
  BY <1>1, <1>2, SeenNat, LotFinite, SumNat
<1>6. SumFunctionOnSet(LotSeen(t, L(t).p), Lot) = DB!Visible(t, L(t).p) + GapAt(t, L(t).p)
      /\ DB!Visible(t, L(t).p) \in Int
  BY <1>2, SeenIs
<1>7. GapAt(t, L(t).p) = 0
  BY DEF GapAt, Gap, At
<1>8. cur[L(t).lot] \in Int
  BY <1>1, <1>2, RowInts DEF Row
<1>9. QED
  BY <1>2, <1>3, <1>4, <1>5, <1>6, <1>7, <1>8

\* Past the guard, the live lots hold what the line still needs.
LEMMA LiveCovers ==
  ASSUME LotInv, NEW t \in Tx, At(t, "select")
  PROVE  SumFunctionOnSet(LotSeen(t, L(t).p), LiveLots(t, L(t).p)) >= tx[t].left
<1>1. TypeOK /\ StockInv /\ TxOK(t) /\ ~At(t, "idle")
  BY DEF LotInv, StockInv, At
<1>2. L(t).p \in Product /\ L(t).p \in Row /\ tx[t].left \in Int
  BY <1>1, LineType, LineFields, TxFields
<1> DEFINE f == LotSeen(t, L(t).p)
           R == LiveLots(t, L(t).p)
<1>3. R \in SUBSET Lot /\ (\A l \in Lot \ R : f[l] = 0) /\ (\A l \in R : f[l] \in Int)
  <2>1. \A l \in Lot : f[l] \in Nat /\ DB!Visible(t, l) \in Nat
    BY <1>1, <1>2, SeenNat
  <2>2. \A l \in Lot \ R : f[l] = 0
    BY <2>1 DEF LotSeen, LiveLots
  <2>3. QED
    BY <2>1, <2>2 DEF LiveLots
<1>4. SumFunctionOnSet(f, Lot) = DB!Visible(t, L(t).p) + GapAt(t, L(t).p)
  BY <1>2, SeenIs
<1>5. GapAt(t, L(t).p) = tx[t].left
  BY <1>1 DEF GapAt, Gap, At
<1>6. lock[L(t).p] = t
  BY <1>1 DEF TxOK, HeldOK, At
<1>7. DB!Visible(t, L(t).p) >= 0 /\ DB!Visible(t, L(t).p) \in Int
  BY <1>1, <1>2, <1>6, MayWrite DEF DB!Available, Corrected, At
<1> HIDE DEF f, R
<1>8. SumFunctionOnSet(f, Lot) = SumFunctionOnSet(f, R)
  BY <1>3, LotFinite, SumZeros
<1>9. QED
  BY <1>2, <1>4, <1>5, <1>7, <1>8 DEF f, R

-----------------------------------------------------------------------------
(***************************************************************************)
(* The statements, one by one.                                             *)
(***************************************************************************)
\* A statement that only moves on.
LEMMA GotoStays ==
  ASSUME TypeOK, NEW t \in Tx, ~At(t, "idle"), NEW s, s # "idle", Goto(t, s)
  PROVE  /\ Stays(t) /\ L(t)' = L(t) /\ tx'[t].pc = s
         /\ tx'[t].left = tx[t].left /\ tx'[t].delta = tx[t].delta
         /\ tx'[t].queue = tx[t].queue /\ tx'[t].moves = tx[t].moves
<1>1. tx \in [Tx -> TxState] /\ tx[t] \in TxState
  BY DEF TypeOK, TxTypeOK
<1>2. tx' = [tx EXCEPT ![t] = [tx[t] EXCEPT !.pc = s]]
  BY DEF Goto
<1>3. /\ tx'[t] = [tx[t] EXCEPT !.pc = s]
      /\ \A u \in Tx \ {t} : tx'[u] = tx[u]
  BY <1>1, <1>2
<1>4. QED
  BY <1>1, <1>3 DEF Stays, L, TxState

\* What a statement leaves of its line, by the next statement.
LEMMA Allowed ==
  ASSUME NEW t \in Tx, L(t)' = L(t), L(t) \in Line
  PROVE  /\ tx'[t].pc = "guard" /\ L(t).kind \in {"sale", "consume"} /\ tx'[t].left = L(t).q => LineOK(t)'
         /\ tx'[t].pc = "take" /\ Takes(L(t)) /\ L(t).lot # NoLot
              /\ (L(t).kind \in {"sale", "consume"} => tx'[t].left = L(t).q) => LineOK(t)'
         /\ tx'[t].pc = "pick" /\ Takes(L(t)) /\ L(t).lot # NoLot
              /\ (L(t).kind \in {"sale", "consume"} => tx'[t].left = L(t).q) => LineOK(t)'
         /\ tx'[t].pc = "select" /\ Takes(L(t)) /\ L(t).lot = NoLot
              /\ (L(t).kind \in {"sale", "consume"} => tx'[t].left = L(t).q) => LineOK(t)'
         /\ tx'[t].pc \in {"short", "found", "foundLot", "reguard"} /\ L(t).kind = "sale" /\ L(t).lot = NoLot
              /\ tx'[t].left = L(t).q => LineOK(t)'
         /\ tx'[t].pc \in {"read", "set"} /\ L(t).kind = "adjust" => LineOK(t)'
         /\ tx'[t].pc = "increment" /\ Puts(L(t)) /\ tx'[t].left = L(t).q => LineOK(t)'
         /\ tx'[t].pc = "insert" /\ Puts(L(t)) /\ tx'[t].left = L(t).q => LineOK(t)'
         /\ tx'[t].pc = "insert" /\ L(t).kind = "adjust" /\ tx'[t].left = tx'[t].delta => LineOK(t)'
         /\ tx'[t].pc = "restock" /\ L(t).kind = "return" /\ L(t).lot # NoLot /\ tx'[t].left = L(t).q => LineOK(t)'
         /\ tx'[t].pc = "record" /\ (Puts(L(t)) => tx'[t].left = L(t).q)
              /\ (L(t).kind \in {"sale", "consume"} => tx'[t].left = 0) => LineOK(t)'
BY DEF LineOK, Takes, Puts

\* Conditions on other statements than the next one.
LEMMA Elsewhere ==
  ASSUME NEW t \in Tx
  PROVE  /\ tx'[t].pc \notin {"guard", "take"} => PickedOK(t)'
         /\ tx'[t].pc \notin {"take", "select", "fefo", "restock", "pick"} => HeldOK(t)'
         /\ tx'[t].pc # "fefo" => QueueOK(t)'
         /\ tx'[t].pc # "set" => SetOK(t)'
BY DEF PickedOK, HeldOK, QueueOK, SetOK, At

\* LockBatch.
LEMMA PickKeeps ==
  ASSUME LotInv, StockInv', NEW t \in Tx, Pick(t)
  PROVE  LotInv'
<1>0. /\ TypeOK /\ StockInv /\ LotsOK /\ TxOK(t) /\ ~At(t, "idle") /\ tx \in [Tx -> TxState]
      /\ LineOK(t) /\ PickedOK(t) /\ HeldOK(t) /\ QueueOK(t) /\ SetOK(t)
  BY DEF LotInv, StockInv, TypeOK, TxTypeOK, Pick, At, TxOK
<1>1. /\ L(t) \in Line /\ L(t).p \in Product /\ L(t).p \in Row /\ L(t).q \in Nat
      /\ (L(t).lot # NoLot => L(t).lot \in Lot /\ L(t).lot \in Row)
      /\ tx[t].left \in Int /\ tx[t].left >= 0 /\ tx[t].delta \in Int /\ tx[t].moves[L(t).p] \in Int
      /\ cur[L(t).p] \in Int /\ L(t).p \notin Lot
  BY <1>0, LineType, LineFields, TxFields, RowInts, StockAssumption DEF StockInv
<1>2. Moved(L(t), tx[t].delta) \in Int
  BY <1>1 DEF Moved, Line
<1>3. CASE Fail(t)
  BY <1>3, FailKeeps
<1>4. CASE ~Fail(t)
  <2> DEFINE s == IF L(t).kind = "sale" THEN "guard" ELSE "take"
  <2>1. /\ DB!Write(t, L(t).lot, cur[L(t).lot]) /\ Goto(t, s) /\ UNCHANGED <<owner, nextLot, trail>>
        /\ ~(cur[L(t).lot] < tx[t].left) /\ owner[L(t).lot] = L(t).p
    BY <1>4 DEF Pick, DB!LockRow, NoNewLot
  <2>2. L(t).lot # NoLot /\ Takes(L(t)) /\ L(t).lot \in Lot /\ L(t).lot \in Row /\ cur[L(t).lot] \in Int /\ At(t, "pick")
    BY <1>0, <1>1, RowInts DEF LineOK, Pick, At
  <2>3. /\ Stays(t) /\ L(t)' = L(t) /\ tx'[t].pc = s /\ tx'[t].left = tx[t].left
        /\ tx'[t].delta = tx[t].delta /\ tx'[t].moves = tx[t].moves
    BY <1>0, <2>1, GotoStays
  <2>4. /\ cur'[L(t).lot] = cur[L(t).lot] /\ lock'[L(t).lot] = t
        /\ \A r \in Row \ {L(t).lot} : lock'[r] = lock[r]
    BY <1>0, <2>1, <2>2, WriteChange
  <2>5. LineOK(t)'
    BY <1>0, <1>1, <2>2, <2>3, Allowed DEF LineOK, Takes, At
  <2>6. PickedOK(t)'
    BY <1>1, <2>1, <2>2, <2>3, <2>4 DEF PickedOK
  <2>7. HeldOK(t)'
    BY <1>0, <1>1, <2>2, <2>3, <2>4 DEF HeldOK, At
  <2>8. StepOK(t)'
    BY <2>3, <2>5, <2>6, <2>7, Elsewhere DEF StepOK
  <2>9. /\ Gap(t) \in Int /\ Gap(t)' = Gap(t) + (cur[L(t).lot] - cur[L(t).lot])
        /\ Due(t) \in Int /\ Records(t, 0)
    BY <1>1, <1>2, <2>2, <2>3 DEF Gap, Due, Records, At
  <2>10. L(t).lot >= nextLot => cur[L(t).lot] = 0
    BY <1>0, <2>2 DEF LotsOK
  <2>11. QED
    BY <2>1, <2>2, <2>3, <2>8, <2>9, <2>10, LotStep
<1>5. QED
  BY <1>3, <1>4

\* DecrementGuarded.
LEMMA GuardKeeps ==
  ASSUME LotInv, StockInv', NEW t \in Tx, Guard(t)
  PROVE  LotInv'
<1>0. /\ TypeOK /\ StockInv /\ LotsOK /\ TxOK(t) /\ ~At(t, "idle") /\ tx \in [Tx -> TxState]
      /\ LineOK(t) /\ PickedOK(t) /\ HeldOK(t) /\ QueueOK(t) /\ SetOK(t)
  BY DEF LotInv, StockInv, TypeOK, TxTypeOK, Guard, At, TxOK
<1>1. /\ L(t) \in Line /\ L(t).p \in Product /\ L(t).p \in Row /\ L(t).q \in Nat
      /\ (L(t).lot # NoLot => L(t).lot \in Lot /\ L(t).lot \in Row)
      /\ tx[t].left \in Int /\ tx[t].left >= 0 /\ tx[t].delta \in Int /\ tx[t].moves[L(t).p] \in Int
      /\ cur[L(t).p] \in Int /\ L(t).p \notin Lot
  BY <1>0, LineType, LineFields, TxFields, RowInts, StockAssumption DEF StockInv
<1>2. Moved(L(t), tx[t].delta) \in Int
  BY <1>1 DEF Moved, Line
<1>3. /\ DB!Write(t, L(t).p, cur[L(t).p] - tx[t].left) /\ Goto(t, Deplete(L(t)))
      /\ UNCHANGED <<owner, nextLot, trail>> /\ At(t, "guard")
  BY DEF Guard, NoNewLot
<1>4. L(t).kind \in {"sale", "consume"} /\ tx[t].left = L(t).q
  BY <1>0, <1>3 DEF LineOK, At
<1>5. /\ Stays(t) /\ L(t)' = L(t) /\ tx'[t].pc = Deplete(L(t)) /\ tx'[t].left = tx[t].left
      /\ tx'[t].delta = tx[t].delta /\ tx'[t].moves = tx[t].moves
  BY <1>0, <1>1, <1>3, GotoStays, StatementType
<1>6. /\ lock'[L(t).p] = t
      /\ \A r \in Row \ {L(t).p} : cur'[r] = cur[r] /\ lock'[r] = lock[r]
  BY <1>0, <1>1, <1>3, WriteChange
<1>7. \/ Deplete(L(t)) = "select" /\ L(t).lot = NoLot
      \/ Deplete(L(t)) = "take" /\ L(t).lot # NoLot /\ L(t).kind = "sale"
      \/ Deplete(L(t)) = "pick" /\ L(t).lot # NoLot /\ L(t).kind = "consume"
  BY <1>4 DEF Deplete
<1>8. LineOK(t)'
  BY <1>1, <1>4, <1>5, <1>7, Allowed DEF Takes
<1>9. PickedOK(t)'
  BY <1>0, <1>1, <1>3, <1>5, <1>6, <1>7 DEF PickedOK, At
<1>10. StepOK(t)'
  BY <1>5, <1>6, <1>7, <1>8, <1>9, Elsewhere DEF StepOK, HeldOK
<1>11. Gap(t) = 0 /\ Gap(t)' = tx[t].left /\ Due(t) = 0 /\ Due(t)' = -tx[t].left
  BY <1>3, <1>4, <1>5, <1>7 DEF Gap, Due, Moved, At
<1>12. cur[L(t).p] - tx[t].left \in Int /\ Records(t, (cur[L(t).p] - tx[t].left) - cur[L(t).p])
  BY <1>1, <1>5, <1>11 DEF Records
<1>13. QED
  BY <1>1, <1>3, <1>5, <1>10, <1>11, <1>12, RowStep

\* The guard found too little; a picked lot rules that out.
LEMMA GuardFailsKeeps ==
  ASSUME LotInv, StockInv', NEW t \in Tx, GuardFails(t)
  PROVE  LotInv'
<1>0. /\ TypeOK /\ StockInv /\ LotsOK /\ TxOK(t) /\ ~At(t, "idle") /\ tx \in [Tx -> TxState]
      /\ LineOK(t) /\ PickedOK(t) /\ HeldOK(t) /\ QueueOK(t) /\ SetOK(t)
  BY DEF LotInv, StockInv, TypeOK, TxTypeOK, GuardFails, At, TxOK
<1>1. /\ L(t) \in Line /\ L(t).p \in Product /\ L(t).p \in Row /\ L(t).q \in Nat
      /\ (L(t).lot # NoLot => L(t).lot \in Lot /\ L(t).lot \in Row)
      /\ tx[t].left \in Int /\ tx[t].left >= 0 /\ tx[t].delta \in Int /\ tx[t].moves[L(t).p] \in Int
      /\ cur[L(t).p] \in Int /\ L(t).p \notin Lot
  BY <1>0, LineType, LineFields, TxFields, RowInts, StockAssumption DEF StockInv
<1>2. Moved(L(t), tx[t].delta) \in Int
  BY <1>1 DEF Moved, Line
<1>3. CASE Fail(t)
  BY <1>3, FailKeeps
<1>4. CASE ~Fail(t)
  <2>1. /\ Goto(t, "short") /\ UNCHANGED <<owner, nextLot, trail>> /\ At(t, "guard")
        /\ L(t).kind = "sale" /\ DB!Visible(t, L(t).p) < tx[t].left
        /\ DB!Write(t, L(t).p, cur[L(t).p]) \/ UNCHANGED rowVars
    BY <1>4 DEF GuardFails, NoNewLot, DB!LockRow
  <2>2. L(t).lot = NoLot
    BY <1>0, <1>1, <2>1, PickedCovers, RowInts
  <2>3. /\ Stays(t) /\ L(t)' = L(t) /\ tx'[t].pc = "short" /\ tx'[t].left = tx[t].left
        /\ tx'[t].delta = tx[t].delta /\ tx'[t].moves = tx[t].moves
    BY <1>0, <2>1, GotoStays
  <2>4. LineOK(t)'
    BY <1>0, <1>1, <2>1, <2>2, <2>3, Allowed DEF LineOK, At
  <2>5. StepOK(t)'
    BY <2>3, <2>4, Elsewhere DEF StepOK
  <2>6. Gap(t) = 0 /\ Gap(t)' = 0 /\ Due(t) = 0 /\ Due(t)' = 0
    BY <2>1, <2>3 DEF Gap, Due, At
  <2>7. Records(t, 0) /\ Records(t, cur[L(t).p] - cur[L(t).p])
    BY <1>1, <2>3, <2>6 DEF Records
  <2>8. CASE UNCHANGED rowVars
    BY <2>1, <2>3, <2>5, <2>6, <2>7, <2>8, QuietStep
  <2>9. CASE DB!Write(t, L(t).p, cur[L(t).p])
    BY <1>1, <2>1, <2>3, <2>5, <2>6, <2>7, <2>9, RowStep
  <2>10. QED
    BY <2>1, <2>8, <2>9
<1>5. QED
  BY <1>3, <1>4

\* GetQuantity.
LEMMA ShortKeeps ==
  ASSUME LotInv, StockInv', NEW t \in Tx, Short(t)
  PROVE  LotInv'
<1>0. /\ TypeOK /\ StockInv /\ LotsOK /\ TxOK(t) /\ ~At(t, "idle") /\ tx \in [Tx -> TxState]
      /\ LineOK(t) /\ PickedOK(t) /\ HeldOK(t) /\ QueueOK(t) /\ SetOK(t)
  BY DEF LotInv, StockInv, TypeOK, TxTypeOK, Short, At, TxOK
<1>1. /\ L(t) \in Line /\ L(t).p \in Product /\ L(t).p \in Row /\ L(t).q \in Nat
      /\ (L(t).lot # NoLot => L(t).lot \in Lot /\ L(t).lot \in Row)
      /\ tx[t].left \in Int /\ tx[t].left >= 0 /\ tx[t].delta \in Int /\ tx[t].moves[L(t).p] \in Int
      /\ cur[L(t).p] \in Int /\ L(t).p \notin Lot
  BY <1>0, LineType, LineFields, TxFields, RowInts, StockAssumption DEF StockInv
<1>2. Moved(L(t), tx[t].delta) \in Int
  BY <1>1 DEF Moved, Line
<1>3. /\ UNCHANGED <<rowVars, owner, nextLot, trail>> /\ At(t, "short")
      /\ tx' = [tx EXCEPT ![t].pc = "found", ![t].delta = tx[t].left - DB!Visible(t, L(t).p)]
  BY DEF Short, NoNewLot
<1>4. /\ Stays(t) /\ L(t)' = L(t) /\ tx'[t].pc = "found" /\ tx'[t].left = tx[t].left
      /\ tx'[t].moves = tx[t].moves
  BY <1>0, <1>3 DEF Stays, L, TxState
<1>5. LineOK(t)'
  BY <1>0, <1>1, <1>3, <1>4, Allowed DEF LineOK, At
<1>6. StepOK(t)'
  BY <1>4, <1>5, Elsewhere DEF StepOK
<1>7. Gap(t) = 0 /\ Gap(t)' = 0 /\ Due(t) = 0 /\ Due(t)' = 0
  BY <1>3, <1>4 DEF Gap, Due, At
<1>8. Records(t, 0)
  BY <1>1, <1>4, <1>7 DEF Records
<1>9. QED
  BY <1>3, <1>4, <1>6, <1>7, <1>8, QuietStep

\* FoundAtTill, its Increment.
LEMMA FoundKeeps ==
  ASSUME LotInv, StockInv', NEW t \in Tx, Found(t)
  PROVE  LotInv'
<1>0. /\ TypeOK /\ StockInv /\ LotsOK /\ TxOK(t) /\ ~At(t, "idle") /\ tx \in [Tx -> TxState]
      /\ LineOK(t) /\ PickedOK(t) /\ HeldOK(t) /\ QueueOK(t) /\ SetOK(t)
  BY DEF LotInv, StockInv, TypeOK, TxTypeOK, Found, At, TxOK
<1>1. /\ L(t) \in Line /\ L(t).p \in Product /\ L(t).p \in Row /\ L(t).q \in Nat
      /\ (L(t).lot # NoLot => L(t).lot \in Lot /\ L(t).lot \in Row)
      /\ tx[t].left \in Int /\ tx[t].left >= 0 /\ tx[t].delta \in Int /\ tx[t].moves[L(t).p] \in Int
      /\ cur[L(t).p] \in Int /\ L(t).p \notin Lot
  BY <1>0, LineType, LineFields, TxFields, RowInts, StockAssumption DEF StockInv
<1>2. Moved(L(t), tx[t].delta) \in Int
  BY <1>1 DEF Moved, Line
<1>3. /\ DB!Write(t, L(t).p, cur[L(t).p] + tx[t].delta) /\ Goto(t, "foundLot")
      /\ UNCHANGED <<owner, nextLot, trail>> /\ At(t, "found")
  BY DEF Found, NoNewLot
<1>4. /\ Stays(t) /\ L(t)' = L(t) /\ tx'[t].pc = "foundLot" /\ tx'[t].left = tx[t].left
      /\ tx'[t].delta = tx[t].delta /\ tx'[t].moves = tx[t].moves
  BY <1>0, <1>3, GotoStays
<1>5. LineOK(t)'
  BY <1>0, <1>1, <1>3, <1>4, Allowed DEF LineOK, At
<1>6. StepOK(t)'
  BY <1>4, <1>5, Elsewhere DEF StepOK
<1>7. Gap(t) = 0 /\ Gap(t)' = -tx[t].delta /\ Due(t) = 0 /\ Due(t)' = tx[t].delta
  BY <1>3, <1>4 DEF Gap, Due, At
<1>8. cur[L(t).p] + tx[t].delta \in Int /\ Records(t, (cur[L(t).p] + tx[t].delta) - cur[L(t).p])
  BY <1>1, <1>4, <1>7 DEF Records
<1>9. QED
  BY <1>1, <1>3, <1>4, <1>6, <1>7, <1>8, RowStep

\* FoundAtTill, its lot and its movement.
LEMMA FoundLotKeeps ==
  ASSUME LotInv, StockInv', NEW t \in Tx, FoundLot(t)
  PROVE  LotInv'
<1>0. /\ TypeOK /\ StockInv /\ LotsOK /\ TxOK(t) /\ ~At(t, "idle") /\ tx \in [Tx -> TxState]
      /\ LineOK(t) /\ PickedOK(t) /\ HeldOK(t) /\ QueueOK(t) /\ SetOK(t)
  BY DEF LotInv, StockInv, TypeOK, TxTypeOK, FoundLot, At, TxOK
<1>1. /\ L(t) \in Line /\ L(t).p \in Product /\ L(t).p \in Row /\ L(t).q \in Nat
      /\ (L(t).lot # NoLot => L(t).lot \in Lot /\ L(t).lot \in Row)
      /\ tx[t].left \in Int /\ tx[t].left >= 0 /\ tx[t].delta \in Int /\ tx[t].moves[L(t).p] \in Int
      /\ cur[L(t).p] \in Int /\ L(t).p \notin Lot
  BY <1>0, LineType, LineFields, TxFields, RowInts, StockAssumption DEF StockInv
<1>2. Moved(L(t), tx[t].delta) \in Int
  BY <1>1 DEF Moved, Line
<1>3. CASE Fail(t)
  BY <1>3, FailKeeps
<1>4. CASE ~Fail(t)
  <2> DEFINE m == [tx[t].moves EXCEPT ![L(t).p] = @ + tx[t].delta]
  <2>1. At(t, "foundLot") /\ L(t).lot = NoLot
    BY <1>0 DEF FoundLot, LineOK, At
  <2>2. NewLot(t, L(t).p, tx[t].delta) /\ tx' = [tx EXCEPT ![t].pc = "reguard", ![t].moves = m]
    BY <1>4, <2>1 DEF FoundLot
  <2>3. /\ m[L(t).p] = tx[t].moves[L(t).p] + tx[t].delta
        /\ \A q \in Product \ {L(t).p} : m[q] = tx[t].moves[q]
    BY <1>0, <1>1, TxFields
  <2> HIDE DEF m
  <2>4. /\ Stays(t) /\ L(t)' = L(t) /\ tx'[t].pc = "reguard" /\ tx'[t].left = tx[t].left
        /\ tx'[t].moves = m
    BY <1>0, <2>2 DEF Stays, L, TxState
  <2>5. LineOK(t)'
    BY <1>0, <1>1, <2>1, <2>4, Allowed DEF LineOK, At
  <2>6. StepOK(t)'
    BY <2>4, <2>5, Elsewhere DEF StepOK
  <2>7. Gap(t) = -tx[t].delta /\ Gap(t)' = 0 /\ Due(t) = tx[t].delta /\ Due(t)' = 0
    BY <2>1, <2>4 DEF Gap, Due, At
  <2>8. Records(t, 0) /\ Gap(t)' = Gap(t) + tx[t].delta
    BY <1>1, <2>3, <2>4, <2>7 DEF Records
  <2>9. QED
    BY <1>1, <2>2, <2>4, <2>6, <2>7, <2>8, OpenStep
<1>5. QED
  BY <1>3, <1>4

\* The second DecrementGuarded.
LEMMA ReguardKeeps ==
  ASSUME LotInv, StockInv', NEW t \in Tx, Reguard(t)
  PROVE  LotInv'
<1>0. /\ TypeOK /\ StockInv /\ LotsOK /\ TxOK(t) /\ ~At(t, "idle") /\ tx \in [Tx -> TxState]
      /\ LineOK(t) /\ PickedOK(t) /\ HeldOK(t) /\ QueueOK(t) /\ SetOK(t)
  BY DEF LotInv, StockInv, TypeOK, TxTypeOK, Reguard, At, TxOK
<1>1. /\ L(t) \in Line /\ L(t).p \in Product /\ L(t).p \in Row /\ L(t).q \in Nat
      /\ (L(t).lot # NoLot => L(t).lot \in Lot /\ L(t).lot \in Row)
      /\ tx[t].left \in Int /\ tx[t].left >= 0 /\ tx[t].delta \in Int /\ tx[t].moves[L(t).p] \in Int
      /\ cur[L(t).p] \in Int /\ L(t).p \notin Lot
  BY <1>0, LineType, LineFields, TxFields, RowInts, StockAssumption DEF StockInv
<1>2. Moved(L(t), tx[t].delta) \in Int
  BY <1>1 DEF Moved, Line
<1>3. CASE Fail(t)
  BY <1>3, FailKeeps
<1>4. CASE ~Fail(t)
  <2>1. /\ DB!Write(t, L(t).p, cur[L(t).p] - tx[t].left) /\ Goto(t, Deplete(L(t)))
        /\ UNCHANGED <<owner, nextLot, trail>> /\ At(t, "reguard")
    BY <1>4 DEF Reguard, NoNewLot
  <2>2. L(t).kind = "sale" /\ L(t).lot = NoLot /\ tx[t].left = L(t).q /\ Deplete(L(t)) = "select"
    BY <1>0, <2>1 DEF LineOK, At, Deplete
  <2>3. /\ Stays(t) /\ L(t)' = L(t) /\ tx'[t].pc = "select" /\ tx'[t].left = tx[t].left
        /\ tx'[t].delta = tx[t].delta /\ tx'[t].moves = tx[t].moves
    BY <1>0, <2>1, <2>2, GotoStays
  <2>4. lock'[L(t).p] = t
    BY <1>0, <1>1, <2>1, WriteChange
  <2>5. LineOK(t)'
    BY <1>1, <2>2, <2>3, Allowed DEF Takes
  <2>6. StepOK(t)'
    BY <2>3, <2>4, <2>5, Elsewhere DEF StepOK, HeldOK
  <2>7. Gap(t) = 0 /\ Gap(t)' = tx[t].left /\ Due(t) = 0 /\ Due(t)' = -tx[t].left
    BY <2>1, <2>2, <2>3 DEF Gap, Due, Moved, At
  <2>8. cur[L(t).p] - tx[t].left \in Int /\ Records(t, (cur[L(t).p] - tx[t].left) - cur[L(t).p])
    BY <1>1, <2>3, <2>7 DEF Records
  <2>9. QED
    BY <1>1, <2>1, <2>3, <2>6, <2>7, <2>8, RowStep
<1>5. QED
  BY <1>3, <1>4

\* DepleteBatch.
LEMMA TakeKeeps ==
  ASSUME LotInv, StockInv', NEW t \in Tx, Take(t)
  PROVE  LotInv'
<1>0. /\ TypeOK /\ StockInv /\ LotsOK /\ TxOK(t) /\ ~At(t, "idle") /\ tx \in [Tx -> TxState]
      /\ LineOK(t) /\ PickedOK(t) /\ HeldOK(t) /\ QueueOK(t) /\ SetOK(t)
  BY DEF LotInv, StockInv, TypeOK, TxTypeOK, Take, At, TxOK
<1>1. /\ L(t) \in Line /\ L(t).p \in Product /\ L(t).p \in Row /\ L(t).q \in Nat
      /\ (L(t).lot # NoLot => L(t).lot \in Lot /\ L(t).lot \in Row)
      /\ tx[t].left \in Int /\ tx[t].left >= 0 /\ tx[t].delta \in Int /\ tx[t].moves[L(t).p] \in Int
      /\ cur[L(t).p] \in Int /\ L(t).p \notin Lot
  BY <1>0, LineType, LineFields, TxFields, RowInts, StockAssumption DEF StockInv
<1>2. Moved(L(t), tx[t].delta) \in Int
  BY <1>1 DEF Moved, Line
<1>3. CASE Fail(t)
  BY <1>3, FailKeeps
<1>4. CASE ~Fail(t)
  <2> DEFINE v == cur[L(t).lot] - tx[t].left
  <2>1. /\ DB!Write(t, L(t).lot, v) /\ tx' = [tx EXCEPT ![t].pc = "record", ![t].left = 0]
        /\ UNCHANGED <<owner, nextLot, trail>> /\ At(t, "take")
    BY <1>4 DEF Take, NoNewLot
  <2>2. /\ L(t).lot \in Lot /\ L(t).lot \in Row /\ Takes(L(t)) /\ lock[L(t).p] = t
        /\ owner[L(t).lot] = L(t).p /\ cur[L(t).lot] >= tx[t].left /\ cur[L(t).lot] \in Int
    BY <1>0, <1>1, <2>1, RowInts DEF LineOK, PickedOK, HeldOK, At
  <2>3. /\ Stays(t) /\ L(t)' = L(t) /\ tx'[t].pc = "record" /\ tx'[t].left = 0
        /\ tx'[t].delta = tx[t].delta /\ tx'[t].moves = tx[t].moves
    BY <1>0, <2>1 DEF Stays, L, TxState
  <2>4. LineOK(t)'
    BY <1>1, <2>2, <2>3, Allowed DEF Takes, Puts
  <2>5. StepOK(t)'
    BY <2>3, <2>4, Elsewhere DEF StepOK
  <2>6. /\ Gap(t) = tx[t].left /\ Gap(t)' = 0
        /\ Due(t) = Moved(L(t), tx[t].delta) /\ Due(t)' = Moved(L(t), tx[t].delta)
    BY <2>1, <2>3 DEF Gap, Due, At
  <2>7. L(t).lot >= nextLot => v = 0
    BY <1>0, <1>1, <2>2 DEF LotsOK
  <2>8. v \in Int /\ Gap(t)' = Gap(t) + (v - cur[L(t).lot]) /\ Records(t, 0)
    BY <1>1, <1>2, <2>2, <2>3, <2>6 DEF Records
  <2> HIDE DEF v
  <2>9. QED
    BY <1>1, <1>2, <2>1, <2>2, <2>3, <2>5, <2>6, <2>7, <2>8, LotStep
<1>5. QED
  BY <1>3, <1>4

\* DepleteFEFO, its SELECT: the live lots cover the line, or nothing is left.
LEMMA SelectKeeps ==
  ASSUME LotInv, StockInv', NEW t \in Tx, Select(t)
  PROVE  LotInv'
<1>0. /\ TypeOK /\ StockInv /\ LotsOK /\ TxOK(t) /\ ~At(t, "idle") /\ tx \in [Tx -> TxState]
      /\ LineOK(t) /\ PickedOK(t) /\ HeldOK(t) /\ QueueOK(t) /\ SetOK(t)
  BY DEF LotInv, StockInv, TypeOK, TxTypeOK, Select, At, TxOK
<1>1. /\ L(t) \in Line /\ L(t).p \in Product /\ L(t).p \in Row /\ L(t).q \in Nat
      /\ (L(t).lot # NoLot => L(t).lot \in Lot /\ L(t).lot \in Row)
      /\ tx[t].left \in Int /\ tx[t].left >= 0 /\ tx[t].delta \in Int /\ tx[t].moves[L(t).p] \in Int
      /\ cur[L(t).p] \in Int /\ L(t).p \notin Lot
  BY <1>0, LineType, LineFields, TxFields, RowInts, StockAssumption DEF StockInv
<1>2. Moved(L(t), tx[t].delta) \in Int
  BY <1>1 DEF Moved, Line
<1> DEFINE lots == LiveLots(t, L(t).p)
<1>3. /\ UNCHANGED <<rowVars, owner, nextLot, trail>> /\ At(t, "select")
      /\ tx' = [tx EXCEPT ![t].queue = lots, ![t].pc = IF lots = {} THEN "record" ELSE "fefo"]
  BY DEF Select, NoNewLot
<1>4. /\ Takes(L(t)) /\ L(t).lot = NoLot
      /\ SumFunctionOnSet(LotSeen(t, L(t).p), lots) >= tx[t].left
  BY <1>0, <1>3, LiveCovers DEF LineOK, At
<1>5. \A l \in lots : l \in Lot /\ owner[l] = L(t).p /\ DB!Visible(t, l) > 0
  BY DEF LiveLots
<1> HIDE DEF lots
<1>6. /\ Stays(t) /\ L(t)' = L(t) /\ tx'[t].left = tx[t].left /\ tx'[t].queue = lots
      /\ tx'[t].delta = tx[t].delta /\ tx'[t].moves = tx[t].moves
      /\ tx'[t].pc = (IF lots = {} THEN "record" ELSE "fefo")
  BY <1>0, <1>3 DEF Stays, L, TxState
<1>7. lots = {} => tx[t].left = 0
  BY <1>1, <1>4, SumEmpty
<1>8. LineOK(t)'
  BY <1>1, <1>4, <1>6, <1>7 DEF LineOK, Takes, Puts
<1>9. QueueOK(t)'
  <2>1. LotSeen(t, L(t).p)' = LotSeen(t, L(t).p) /\ \A l : DB!Visible(t, l)' = DB!Visible(t, l)
    BY <1>3, <1>6 DEF LotSeen, DB!Visible, rowVars
  <2>2. \A l \in lots : l < nextLot
    <3> SUFFICES ASSUME NEW l \in lots, ~(l < nextLot) PROVE FALSE
      OBVIOUS
    <3>1. l >= nextLot
      BY <1>0, <1>5 DEF TypeOK, Lot
    <3>2. DB!Visible(t, l) = 0
      BY <1>0, <1>5, <3>1 DEF LotsOK, DB!Visible
    <3>3. QED
      BY <1>5, <3>2
  <2>3. QED
    BY <1>3, <1>4, <1>5, <1>6, <2>1, <2>2 DEF QueueOK
<1>10. HeldOK(t)'
  BY <1>0, <1>3, <1>6 DEF HeldOK, rowVars, At
<1>11. StepOK(t)'
  BY <1>6, <1>8, <1>9, <1>10, Elsewhere DEF StepOK
<1>12. /\ Gap(t) = tx[t].left /\ Gap(t)' = tx[t].left
       /\ Due(t) = Moved(L(t), tx[t].delta) /\ Due(t)' = Moved(L(t), tx[t].delta)
  BY <1>3, <1>6, <1>7 DEF Gap, Due, At
<1>13. Records(t, 0)
  BY <1>1, <1>2, <1>6, <1>12 DEF Records
<1>14. QED
  BY <1>1, <1>2, <1>3, <1>6, <1>11, <1>12, <1>13, QuietStep

\* DepleteFEFO, one lot: what the others hold covers what is then left.
LEMMA FefoKeeps ==
  ASSUME LotInv, StockInv', NEW t \in Tx, Fefo(t)
  PROVE  LotInv'
<1>0. /\ TypeOK /\ StockInv /\ LotsOK /\ TxOK(t) /\ ~At(t, "idle") /\ tx \in [Tx -> TxState]
      /\ LineOK(t) /\ PickedOK(t) /\ HeldOK(t) /\ QueueOK(t) /\ SetOK(t)
  BY DEF LotInv, StockInv, TypeOK, TxTypeOK, Fefo, At, TxOK
<1>1. /\ L(t) \in Line /\ L(t).p \in Product /\ L(t).p \in Row /\ L(t).q \in Nat
      /\ (L(t).lot # NoLot => L(t).lot \in Lot /\ L(t).lot \in Row)
      /\ tx[t].left \in Int /\ tx[t].left >= 0 /\ tx[t].delta \in Int /\ tx[t].moves[L(t).p] \in Int
      /\ cur[L(t).p] \in Int /\ L(t).p \notin Lot
  BY <1>0, LineType, LineFields, TxFields, RowInts, StockAssumption DEF StockInv
<1>2. Moved(L(t), tx[t].delta) \in Int
  BY <1>1 DEF Moved, Line
<1> DEFINE Some(k) == IF cur[k] < tx[t].left THEN cur[k] ELSE tx[t].left
<1>a. PICK lot \in tx[t].queue :
        /\ DB!Write(t, lot, cur[lot] - Some(lot))
        /\ tx' = [tx EXCEPT ![t].queue = @ \ {lot},
                            ![t].left  = @ - Some(lot),
                            ![t].pc    = IF tx[t].queue = {lot} THEN "record" ELSE "fefo"]
        /\ UNCHANGED <<owner, nextLot, trail>> /\ At(t, "fefo")
  BY DEF Fefo, Earliest, NoNewLot
<1>b. PICK some : some = Some(lot)
  OBVIOUS
<1>3. /\ some = (IF cur[lot] < tx[t].left THEN cur[lot] ELSE tx[t].left)
      /\ DB!Write(t, lot, cur[lot] - some)
      /\ tx' = [tx EXCEPT ![t].queue = @ \ {lot},
                          ![t].left  = @ - some,
                          ![t].pc    = IF tx[t].queue = {lot} THEN "record" ELSE "fefo"]
      /\ UNCHANGED <<owner, nextLot, trail>> /\ At(t, "fefo")
  BY <1>a, <1>b
<1> DEFINE Q == tx[t].queue
           R == tx[t].queue \ {lot}
           f == LotSeen(t, L(t).p)
<1>4. /\ Takes(L(t)) /\ L(t).lot = NoLot /\ lock[L(t).p] = t /\ Q \subseteq Lot
      /\ (\A l \in Q : l \in Lot /\ owner[l] = L(t).p /\ l < nextLot /\ DB!Visible(t, l) > 0)
      /\ SumFunctionOnSet(f, Q) >= tx[t].left
  BY <1>0, <1>3, TxFields DEF LineOK, HeldOK, QueueOK, At
<1>5. /\ lot \in Lot /\ lot \in Row /\ lot < nextLot /\ owner[lot] = L(t).p
      /\ cur[lot] \in Int /\ cur[lot] > 0 /\ DB!Visible(t, lot) = cur[lot]
  BY <1>0, <1>3, <1>4, MayWrite DEF DB!Write, Row
<1>6. some \in Int /\ some >= 0 /\ some <= cur[lot] /\ some <= tx[t].left
  BY <1>1, <1>3, <1>5
<1>7. IsFiniteSet(Q) /\ IsFiniteSet(R) /\ (\A l \in Q : f[l] \in Nat) /\ f[lot] = cur[lot]
  BY <1>0, <1>1, <1>4, <1>5, SeenNat, LotFinite, FS_Subset DEF LotSeen
<1>8. /\ Stays(t) /\ L(t)' = L(t) /\ tx'[t].left = tx[t].left - some /\ tx'[t].queue = R
      /\ tx'[t].delta = tx[t].delta /\ tx'[t].moves = tx[t].moves
      /\ tx'[t].pc = (IF R = {} THEN "record" ELSE "fefo")
  <2>1. tx[t].queue = {lot} <=> R = {}
    BY <1>3
  <2>2. QED
    BY <1>0, <1>3, <2>1 DEF Stays, L, TxState
<1>9. /\ SumFunctionOnSet(f, Q) = cur[lot] + SumFunctionOnSet(f, R)
      /\ SumFunctionOnSet(f, R) \in Nat
      /\ R = {} => SumFunctionOnSet(f, R) = 0
  <2> HIDE DEF f
  <2>1. SumFunctionOnSet(f, Q) = f[lot] + SumFunctionOnSet(f, Q \ {lot})
    BY <1>3, <1>7, SumTake
  <2>2. SumFunctionOnSet(f, R) \in Nat
    BY <1>7, SumNat
  <2>3. R = {} => SumFunctionOnSet(f, R) = 0
    BY SumEmpty
  <2>4. QED
    BY <1>7, <2>1, <2>2, <2>3
<1>10. /\ tx'[t].left \in Int /\ tx'[t].left >= 0
       /\ SumFunctionOnSet(f, R) >= tx'[t].left
       /\ R = {} => tx'[t].left = 0
  BY <1>1, <1>3, <1>4, <1>5, <1>6, <1>8, <1>9
<1>11. /\ \A r \in Row \ {lot} : cur'[r] = cur[r] /\ lock'[r] = lock[r]
       /\ com' = com
  BY <1>0, <1>3, <1>5, <1>6, WriteChange
<1>12. \A l \in R : /\ DB!Visible(t, l)' = DB!Visible(t, l)
                    /\ LotSeen(t, L(t).p)'[l] = f[l]
  BY <1>3, <1>4, <1>8, <1>11 DEF LotSeen, DB!Visible, Row
<1> HIDE DEF f, Q
<1>13. SumFunctionOnSet(LotSeen(t, L(t).p)', R) = SumFunctionOnSet(f, R)
  BY <1>7, <1>12, SumSame
<1>14. QueueOK(t)'
  <2>1. \A l \in R : owner'[l] = L(t).p /\ l < nextLot' /\ DB!Visible(t, l)' > 0
    BY <1>3, <1>4, <1>12 DEF Q
  <2>2. QED
    BY <1>8, <1>10, <1>13, <2>1 DEF QueueOK
<1> HIDE DEF R
<1>15. LineOK(t)'
  BY <1>1, <1>4, <1>8, <1>10 DEF LineOK, Takes, Puts
<1>16. HeldOK(t)'
  BY <1>1, <1>4, <1>5, <1>8, <1>11 DEF HeldOK
<1>17. StepOK(t)'
  BY <1>8, <1>14, <1>15, <1>16, Elsewhere DEF StepOK
<1>18. /\ Gap(t) = tx[t].left /\ Gap(t)' = tx'[t].left
       /\ Due(t) = Moved(L(t), tx[t].delta) /\ Due(t)' = Moved(L(t), tx[t].delta)
  BY <1>3, <1>8, <1>10 DEF Gap, Due, At
<1>19. PICK v \in Int : v = cur[lot] - some
  BY <1>5, <1>6
<1>20. Records(t, 0) /\ Gap(t)' = Gap(t) + (v - cur[lot])
  BY <1>1, <1>2, <1>5, <1>6, <1>8, <1>18, <1>19 DEF Records
<1>21. DB!Write(t, lot, v) /\ UNCHANGED <<owner, nextLot, trail>> /\ ~(lot >= nextLot)
  BY <1>0, <1>3, <1>5, <1>19 DEF TypeOK, Lot
<1>22. QED
  BY <1>1, <1>2, <1>4, <1>5, <1>8, <1>17, <1>18, <1>20, <1>21, LotStep

\* Adjust, its SELECT.
LEMMA ReadKeeps ==
  ASSUME LotInv, StockInv', NEW t \in Tx, Read(t)
  PROVE  LotInv'
<1>0. /\ TypeOK /\ StockInv /\ LotsOK /\ TxOK(t) /\ ~At(t, "idle") /\ tx \in [Tx -> TxState]
      /\ LineOK(t) /\ PickedOK(t) /\ HeldOK(t) /\ QueueOK(t) /\ SetOK(t)
  BY DEF LotInv, StockInv, TypeOK, TxTypeOK, Read, At, TxOK
<1>1. /\ L(t) \in Line /\ L(t).p \in Product /\ L(t).p \in Row /\ L(t).q \in Nat
      /\ (L(t).lot # NoLot => L(t).lot \in Lot /\ L(t).lot \in Row)
      /\ tx[t].left \in Int /\ tx[t].left >= 0 /\ tx[t].delta \in Int /\ tx[t].moves[L(t).p] \in Int
      /\ cur[L(t).p] \in Int /\ L(t).p \notin Lot
  BY <1>0, LineType, LineFields, TxFields, RowInts, StockAssumption DEF StockInv
<1>2. Moved(L(t), tx[t].delta) \in Int
  BY <1>1 DEF Moved, Line
<1> DEFINE d == L(t).q - DB!Visible(t, L(t).p)
<1>3. /\ UNCHANGED <<rowVars, owner, nextLot, trail>> /\ At(t, "read") /\ L(t).kind = "adjust"
      /\ tx' = [tx EXCEPT ![t].delta = d, ![t].pc = IF d = 0 THEN "commit" ELSE "set"]
  BY <1>0 DEF Read, NoNewLot, LineOK, At
<1>4. d = (L(t).q - DB!Visible(t, L(t).p)) /\ DB!Visible(t, L(t).p)' = DB!Visible(t, L(t).p)
  <2>1. L(t)' = L(t)
    BY <1>0, <1>3 DEF L, TxState
  <2>2. QED
    BY <1>3, <2>1 DEF DB!Visible, rowVars
<1> HIDE DEF d
<1>5. /\ Stays(t) /\ L(t)' = L(t) /\ tx'[t].left = tx[t].left
      /\ tx'[t].delta = d /\ tx'[t].moves = tx[t].moves
      /\ tx'[t].pc = (IF d = 0 THEN "commit" ELSE "set")
  BY <1>0, <1>3 DEF Stays, L, TxState
<1>6. LineOK(t)'
  BY <1>3, <1>5 DEF LineOK, Takes, Puts
<1>7. SetOK(t)'
  BY <1>4, <1>5 DEF SetOK
<1>8. StepOK(t)'
  BY <1>5, <1>6, <1>7, Elsewhere DEF StepOK
<1>9. Gap(t) = 0 /\ Gap(t)' = 0 /\ Due(t) = 0 /\ Due(t)' = 0
  BY <1>3, <1>5 DEF Gap, Due, At
<1>10. Records(t, 0)
  BY <1>1, <1>5, <1>9 DEF Records
<1>11. QED
  BY <1>3, <1>5, <1>8, <1>9, <1>10, QuietStep

\* Adjust, its UPDATE: what was counted less what was seen is what the row changes by.
LEMMA SetKeeps ==
  ASSUME LotInv, StockInv', NEW t \in Tx, Set(t)
  PROVE  LotInv'
<1>0. /\ TypeOK /\ StockInv /\ LotsOK /\ TxOK(t) /\ ~At(t, "idle") /\ tx \in [Tx -> TxState]
      /\ LineOK(t) /\ PickedOK(t) /\ HeldOK(t) /\ QueueOK(t) /\ SetOK(t)
  BY DEF LotInv, StockInv, TypeOK, TxTypeOK, Set, At, TxOK
<1>1. /\ L(t) \in Line /\ L(t).p \in Product /\ L(t).p \in Row /\ L(t).q \in Nat
      /\ (L(t).lot # NoLot => L(t).lot \in Lot /\ L(t).lot \in Row)
      /\ tx[t].left \in Int /\ tx[t].left >= 0 /\ tx[t].delta \in Int /\ tx[t].moves[L(t).p] \in Int
      /\ cur[L(t).p] \in Int /\ L(t).p \notin Lot
  BY <1>0, LineType, LineFields, TxFields, RowInts, StockAssumption DEF StockInv
<1>2. Moved(L(t), tx[t].delta) \in Int
  BY <1>1 DEF Moved, Line
<1>3. /\ DB!Write(t, L(t).p, L(t).q) /\ At(t, "set") /\ L(t).kind = "adjust"
      /\ tx' = [tx EXCEPT ![t].left = IF tx[t].delta > 0 THEN tx[t].delta ELSE -tx[t].delta,
                          ![t].pc   = IF tx[t].delta > 0 THEN "insert" ELSE Deplete(L(t))]
      /\ UNCHANGED <<owner, nextLot, trail>>
  BY <1>0 DEF Set, NoNewLot, LineOK, At
<1>4. tx[t].delta = L(t).q - cur[L(t).p]
  BY <1>0, <1>1, <1>3, MayWrite DEF SetOK, DB!Write
<1>5. \/ Deplete(L(t)) = "select" /\ L(t).lot = NoLot
      \/ Deplete(L(t)) = "pick" /\ L(t).lot # NoLot
  BY <1>3 DEF Deplete
<1>6. /\ Stays(t) /\ L(t)' = L(t)
      /\ tx'[t].left = (IF tx[t].delta > 0 THEN tx[t].delta ELSE -tx[t].delta)
      /\ tx'[t].pc = (IF tx[t].delta > 0 THEN "insert" ELSE Deplete(L(t)))
      /\ tx'[t].delta = tx[t].delta /\ tx'[t].moves = tx[t].moves
  <2>1. Deplete(L(t)) # "idle"
    BY <1>5
  <2>2. QED
    BY <1>0, <1>3, <2>1 DEF Stays, L, TxState
<1>7. lock'[L(t).p] = t
  BY <1>0, <1>1, <1>3, WriteChange
<1>8. LineOK(t)'
  BY <1>1, <1>3, <1>5, <1>6, Allowed DEF Takes
<1>9. StepOK(t)'
  BY <1>5, <1>6, <1>7, <1>8, Elsewhere DEF StepOK, HeldOK
<1>10. Gap(t) = 0 /\ Gap(t)' = -tx[t].delta /\ Due(t) = 0 /\ Due(t)' = tx[t].delta
  BY <1>1, <1>3, <1>5, <1>6 DEF Gap, Due, Moved, At
<1>11. Records(t, L(t).q - cur[L(t).p])
  BY <1>1, <1>4, <1>6, <1>10 DEF Records
<1>12. L(t).q \in Int /\ Gap(t)' = Gap(t) - (L(t).q - cur[L(t).p])
  BY <1>1, <1>4, <1>10
<1>13. QED
  BY <1>1, <1>3, <1>6, <1>9, <1>10, <1>11, <1>12, RowStep

\* Increment.
LEMMA IncrementKeeps ==
  ASSUME LotInv, StockInv', NEW t \in Tx, Increment(t)
  PROVE  LotInv'
<1>0. /\ TypeOK /\ StockInv /\ LotsOK /\ TxOK(t) /\ ~At(t, "idle") /\ tx \in [Tx -> TxState]
      /\ LineOK(t) /\ PickedOK(t) /\ HeldOK(t) /\ QueueOK(t) /\ SetOK(t)
  BY DEF LotInv, StockInv, TypeOK, TxTypeOK, Increment, At, TxOK
<1>1. /\ L(t) \in Line /\ L(t).p \in Product /\ L(t).p \in Row /\ L(t).q \in Nat
      /\ (L(t).lot # NoLot => L(t).lot \in Lot /\ L(t).lot \in Row)
      /\ tx[t].left \in Int /\ tx[t].left >= 0 /\ tx[t].delta \in Int /\ tx[t].moves[L(t).p] \in Int
      /\ cur[L(t).p] \in Int /\ L(t).p \notin Lot
  BY <1>0, LineType, LineFields, TxFields, RowInts, StockAssumption DEF StockInv
<1>2. Moved(L(t), tx[t].delta) \in Int
  BY <1>1 DEF Moved, Line
<1>3. /\ DB!Write(t, L(t).p, cur[L(t).p] + L(t).q) /\ Goto(t, AfterIncrement(L(t)))
      /\ UNCHANGED <<owner, nextLot, trail>> /\ At(t, "increment")
  BY DEF Increment, NoNewLot
<1>4. Puts(L(t)) /\ tx[t].left = L(t).q
  BY <1>0, <1>3 DEF LineOK, At
<1>5. \/ AfterIncrement(L(t)) = "record" /\ L(t).kind = "recover"
      \/ AfterIncrement(L(t)) = "insert" /\ L(t).kind \in {"return", "receive"}
      \/ AfterIncrement(L(t)) = "restock" /\ L(t).kind = "return" /\ L(t).lot # NoLot
  BY <1>4 DEF AfterIncrement, Puts
<1>6. /\ Stays(t) /\ L(t)' = L(t) /\ tx'[t].pc = AfterIncrement(L(t)) /\ tx'[t].left = tx[t].left
      /\ tx'[t].delta = tx[t].delta /\ tx'[t].moves = tx[t].moves
  BY <1>0, <1>3, <1>5, GotoStays
<1>7. lock'[L(t).p] = t
  BY <1>0, <1>1, <1>3, WriteChange
<1>8. LineOK(t)'
  BY <1>1, <1>4, <1>5, <1>6, Allowed
<1>9. StepOK(t)'
  BY <1>5, <1>6, <1>7, <1>8, Elsewhere DEF StepOK, HeldOK
<1>10. /\ Gap(t) \in Int /\ Gap(t)' = Gap(t) - L(t).q /\ Due(t) = 0 /\ Due(t)' = L(t).q
  BY <1>1, <1>3, <1>4, <1>5, <1>6 DEF Gap, Due, Moved, At
<1>11. PICK v \in Int : v = cur[L(t).p] + L(t).q
  BY <1>1
<1>12. Records(t, v - cur[L(t).p]) /\ Gap(t)' = Gap(t) - (v - cur[L(t).p])
  BY <1>1, <1>6, <1>10, <1>11 DEF Records
<1>13. QED
  BY <1>1, <1>3, <1>6, <1>9, <1>10, <1>11, <1>12, RowStep

\* A lot is opened with what the line puts in.
LEMMA InsertKeeps ==
  ASSUME LotInv, StockInv', NEW t \in Tx, Insert(t)
  PROVE  LotInv'
<1>0. /\ TypeOK /\ StockInv /\ LotsOK /\ TxOK(t) /\ ~At(t, "idle") /\ tx \in [Tx -> TxState]
      /\ LineOK(t) /\ PickedOK(t) /\ HeldOK(t) /\ QueueOK(t) /\ SetOK(t)
  BY DEF LotInv, StockInv, TypeOK, TxTypeOK, Insert, At, TxOK
<1>1. /\ L(t) \in Line /\ L(t).p \in Product /\ L(t).p \in Row /\ L(t).q \in Nat
      /\ (L(t).lot # NoLot => L(t).lot \in Lot /\ L(t).lot \in Row)
      /\ tx[t].left \in Int /\ tx[t].left >= 0 /\ tx[t].delta \in Int /\ tx[t].moves[L(t).p] \in Int
      /\ cur[L(t).p] \in Int /\ L(t).p \notin Lot
  BY <1>0, LineType, LineFields, TxFields, RowInts, StockAssumption DEF StockInv
<1>2. Moved(L(t), tx[t].delta) \in Int
  BY <1>1 DEF Moved, Line
<1>3. /\ NewLot(t, L(t).p, tx[t].left) /\ At(t, "insert")
      /\ Goto(t, IF L(t).kind = "recover" THEN "increment" ELSE "record")
  BY DEF Insert
<1>4. Puts(L(t)) \/ L(t).kind = "adjust"
  BY <1>0, <1>3 DEF LineOK, At
<1>5. /\ Stays(t) /\ L(t)' = L(t) /\ tx'[t].pc = (IF L(t).kind = "recover" THEN "increment" ELSE "record")
      /\ tx'[t].left = tx[t].left /\ tx'[t].delta = tx[t].delta /\ tx'[t].moves = tx[t].moves
  BY <1>0, <1>3, GotoStays
<1>6. LineOK(t)'
  <2>1. Puts(L(t)) => tx[t].left = L(t).q
    BY <1>0 DEF LineOK
  <2>2. QED
    BY <1>1, <1>4, <1>5, <2>1, Allowed DEF Puts
<1>7. StepOK(t)'
  BY <1>5, <1>6, Elsewhere DEF StepOK
<1>8. /\ Gap(t) \in Int /\ Gap(t)' = Gap(t) + tx[t].left
      /\ Due(t) = Due(t)' /\ Due(t) \in Int
  BY <1>1, <1>2, <1>3, <1>5 DEF Gap, Due, At
<1>9. Records(t, 0)
  BY <1>1, <1>5, <1>8 DEF Records
<1>10. QED
  BY <1>1, <1>3, <1>5, <1>7, <1>8, <1>9, OpenStep

\* RestockLot: the lot is one of the beginning, and still of the returned product.
LEMMA RestockKeeps ==
  ASSUME LotInv, StockInv', NEW t \in Tx, Restock(t)
  PROVE  LotInv'
<1>0. /\ TypeOK /\ StockInv /\ LotsOK /\ TxOK(t) /\ ~At(t, "idle") /\ tx \in [Tx -> TxState]
      /\ LineOK(t) /\ PickedOK(t) /\ HeldOK(t) /\ QueueOK(t) /\ SetOK(t)
  BY DEF LotInv, StockInv, TypeOK, TxTypeOK, Restock, At, TxOK
<1>1. /\ L(t) \in Line /\ L(t).p \in Product /\ L(t).p \in Row /\ L(t).q \in Nat
      /\ (L(t).lot # NoLot => L(t).lot \in Lot /\ L(t).lot \in Row)
      /\ tx[t].left \in Int /\ tx[t].left >= 0 /\ tx[t].delta \in Int /\ tx[t].moves[L(t).p] \in Int
      /\ cur[L(t).p] \in Int /\ L(t).p \notin Lot
  BY <1>0, LineType, LineFields, TxFields, RowInts, StockAssumption DEF StockInv
<1>2. Moved(L(t), tx[t].delta) \in Int
  BY <1>1 DEF Moved, Line
<1>3. /\ DB!Write(t, L(t).lot, cur[L(t).lot] + L(t).q) /\ Goto(t, "record")
      /\ UNCHANGED <<owner, nextLot, trail>> /\ At(t, "restock")
  BY DEF Restock, NoNewLot
<1>4. /\ L(t).kind = "return" /\ L(t).lot \in Lot /\ L(t).lot \in Row /\ L(t).lot # NoLot
      /\ tx[t].left = L(t).q /\ lock[L(t).p] = t /\ cur[L(t).lot] \in Int
  BY <1>0, <1>1, <1>3, RowInts DEF LineOK, HeldOK, Puts, At
<1>5. owner[L(t).lot] = L(t).p /\ ~(L(t).lot >= nextLot)
  <2>1. tx[t].req \in Request /\ tx[t].line \in DOMAIN tx[t].req
    BY <1>0, LineType
  <2>2. L(t).lot <= InitLots /\ InitOwner[L(t).lot] = L(t).p
    BY <1>4, <2>1, StartAssumption DEF L
  <2>3. nextLot \in Int /\ InitLots \in Int /\ L(t).lot \in Int
    BY <1>0, <1>4, StockAssumption DEF TypeOK, Lot
  <2>4. QED
    BY <1>0, <1>4, <2>2, <2>3 DEF LotsOK
<1>6. /\ Stays(t) /\ L(t)' = L(t) /\ tx'[t].pc = "record" /\ tx'[t].left = tx[t].left
      /\ tx'[t].delta = tx[t].delta /\ tx'[t].moves = tx[t].moves
  BY <1>0, <1>3, GotoStays
<1>7. LineOK(t)'
  BY <1>1, <1>4, <1>6, Allowed
<1>8. StepOK(t)'
  BY <1>6, <1>7, Elsewhere DEF StepOK
<1>9. Gap(t) = -L(t).q /\ Gap(t)' = 0 /\ Due(t) = L(t).q /\ Due(t)' = L(t).q
  BY <1>3, <1>4, <1>6 DEF Gap, Due, Moved, At
<1>10. PICK v \in Int : v = cur[L(t).lot] + L(t).q
  BY <1>1, <1>4
<1>11. Records(t, 0) /\ Gap(t)' = Gap(t) + (v - cur[L(t).lot])
  BY <1>1, <1>4, <1>6, <1>9, <1>10 DEF Records
<1>12. QED
  BY <1>1, <1>3, <1>4, <1>5, <1>6, <1>8, <1>9, <1>10, <1>11, LotStep

\* A transaction that is between lines, or has none yet, owes nothing: it may
\* start the next one.
LEMMA NewLine ==
  ASSUME LotInv, StockInv', NEW t \in Tx, UNCHANGED <<rowVars, owner, nextLot, trail>>,
         \A u \in Tx \ {t} : tx'[u] = tx[u],
         NEW l \in Line, L(t)' = l, tx'[t].pc = Start(l), tx'[t].left = l.q,
         tx'[t].req \in Desk[t],
         \A p \in Product : lock[p] = t => \E i \in DOMAIN tx'[t].req : tx'[t].req[i].p = p,
         \A p \in Product : /\ Changed(t, p) = tx'[t].moves[p] /\ Changed(t, p) \in Int
                            /\ ChangedLots(t, p) = Changed(t, p)
  PROVE  LotInv'
<1>1. /\ lock' = lock /\ \A s : Changed(t, s)' = Changed(t, s)
      /\ \A p : ChangedLots(t, p)' = ChangedLots(t, p)
  BY DEF Changed, ChangedLots, LotChange, rowVars
<1>2. /\ \A u \in Tx \ {t} : TxOK(u)'
      /\ EditedOK' /\ LotsOK' /\ MirrorOK' /\ TrailExplainsStock'
  BY QuietKeeps
<1>3. /\ Start(l) \in {"guard", "pick", "read", "insert", "increment"}
      /\ Start(l) = "guard" => l.kind = "consume" \/ (l.kind = "sale" /\ l.lot = NoLot)
      /\ Start(l) = "pick" => l.kind = "sale" /\ l.lot # NoLot
      /\ Start(l) = "read" => l.kind = "adjust"
      /\ Start(l) = "insert" => l.kind = "recover"
      /\ Start(l) = "increment" => l.kind \in {"receive", "return"}
  BY DEF Start, Line
<1>4. LineOK(t)'
  BY <1>3 DEF LineOK, Takes, Puts
<1>5. PickedOK(t)' /\ HeldOK(t)' /\ QueueOK(t)' /\ SetOK(t)'
  <2>1. PickedOK(t)'
    BY <1>3 DEF PickedOK, At
  <2>2. HeldOK(t)'
    BY <1>3 DEF HeldOK, At
  <2>3. QED
    BY <1>3, <2>1, <2>2, Elsewhere
<1>6. ~At(t, "idle")' /\ Gap(t)' = 0 /\ Due(t)' = 0
  BY <1>3 DEF Gap, Due, At
<1>7. DeskOK(t)'
  BY <1>1, <1>6 DEF DeskOK
<1>8. \A p \in Product : GapAt(t, p)' = 0 /\ DueAt(t, p)' = 0
  BY <1>6 DEF GapAt, DueAt
<1>9. TxOK(t)'
  BY <1>1, <1>4, <1>5, <1>7, <1>8 DEF TxOK
<1>10. QED
  BY <1>2, <1>9 DEF LotInv

\* A request arrives; the terminal's transaction has changed nothing.
LEMMA BeginKeeps ==
  ASSUME LotInv, StockInv', NEW t \in Tx, NEW r \in Request, Begin(t, r)
  PROVE  LotInv'
<1>0. /\ TypeOK /\ StockInv /\ TxOK(t) /\ At(t, "idle") /\ tx \in [Tx -> TxState]
  BY DEF LotInv, StockInv, TypeOK, TxTypeOK, Begin
<1>1. r[1] \in Line /\ r \in Desk[t]
  BY StockAssumption DEF Begin
<1>2. PICK l \in Line : l = r[1]
  BY <1>1
<1>3. /\ UNCHANGED <<rowVars, owner, nextLot, trail>>
      /\ tx' = [tx EXCEPT ![t] = [Idle EXCEPT !.pc = Start(l), !.req = r, !.left = l.q]]
  BY <1>2 DEF Begin
<1>4. /\ tx'[t].pc = Start(l) /\ tx'[t].req = r /\ tx'[t].left = l.q /\ L(t)' = l
      /\ tx'[t].moves = NoMoves /\ \A u \in Tx \ {t} : tx'[u] = tx[u]
  BY <1>0, <1>2, <1>3 DEF Idle, L
<1>5. ASSUME NEW p \in Product
      PROVE  lock[p] # t /\ Changed(t, p) = 0 /\ ChangedLots(t, p) = 0
  <2>1. lock[p] # t /\ ChangedLots(t, p) = Changed(t, p) + GapAt(t, p)
    BY <1>0 DEF TxOK, DeskOK
  <2>2. QED
    BY <1>0, <2>1 DEF Changed, GapAt
<1>6. \A p \in Product : NoMoves[p] = 0
  BY DEF NoMoves
<1>7. QED
  BY <1>1, <1>3, <1>4, <1>5, <1>6, NewLine

\* A line's movement is inserted: nothing is due any more.
LEMMA RecordKeeps ==
  ASSUME LotInv, StockInv', NEW t \in Tx, Record(t)
  PROVE  LotInv'
<1>0. /\ TypeOK /\ StockInv /\ LotsOK /\ TxOK(t) /\ ~At(t, "idle") /\ tx \in [Tx -> TxState]
      /\ LineOK(t) /\ PickedOK(t) /\ HeldOK(t) /\ QueueOK(t) /\ SetOK(t)
  BY DEF LotInv, StockInv, TypeOK, TxTypeOK, Record, At, TxOK
<1>1. /\ L(t) \in Line /\ L(t).p \in Product /\ tx[t].delta \in Int
      /\ tx[t].moves \in [Product -> Int] /\ tx[t].left \in Int
      /\ tx[t].req \in Seq(Line) /\ tx[t].line \in 1 .. Len(tx[t].req)
  BY <1>0, LineType, LineFields, TxFields
<1>2. Moved(L(t), tx[t].delta) \in Int
  BY <1>1 DEF Moved, Line
<1> DEFINE moves == [tx[t].moves EXCEPT ![L(t).p] = @ + Moved(L(t), tx[t].delta)]
           n     == tx[t].line + 1
           y     == [Idle EXCEPT !.moves = moves, !.req = tx[t].req, !.line = n,
                                 !.left = tx[t].req[n].q, !.pc = Start(tx[t].req[n])]
<1>3. /\ UNCHANGED <<rowVars, owner, nextLot, trail>> /\ At(t, "record")
      /\ tx' = [tx EXCEPT ![t] = IF n > Len(tx[t].req)
                                   THEN [tx[t] EXCEPT !.moves = moves, !.pc = "commit"] ELSE y]
  BY DEF Record, NoNewLot
<1>4. Due(t) = Moved(L(t), tx[t].delta) /\ Gap(t) = 0
  BY <1>3 DEF Due, Gap, At
<1>5. /\ moves[L(t).p] = tx[t].moves[L(t).p] + Due(t)
      /\ \A q \in Product \ {L(t).p} : moves[q] = tx[t].moves[q]
  BY <1>1, <1>4
<1>6. CASE n > Len(tx[t].req)
  <2> HIDE DEF moves, y
  <2>1. tx' = [tx EXCEPT ![t] = [tx[t] EXCEPT !.moves = moves, !.pc = "commit"]]
    BY <1>3, <1>6
  <2>2. /\ Stays(t) /\ L(t)' = L(t) /\ tx'[t].pc = "commit" /\ tx'[t].left = tx[t].left
        /\ tx'[t].delta = tx[t].delta /\ tx'[t].moves = moves
    BY <1>0, <2>1 DEF Stays, L, TxState
  <2>3. LineOK(t)'
    BY <1>0, <1>3, <2>2 DEF LineOK, At
  <2>4. StepOK(t)'
    BY <2>2, <2>3, Elsewhere DEF StepOK
  <2>5. Gap(t)' = 0 /\ Due(t)' = 0
    BY <2>2 DEF Gap, Due
  <2>6. Records(t, 0)
    BY <1>1, <1>2, <1>4, <1>5, <2>2, <2>5 DEF Records
  <2>7. QED
    BY <1>2, <1>3, <1>4, <2>2, <2>4, <2>5, <2>6, QuietStep
<1>7. CASE ~(n > Len(tx[t].req))
  <2>1. n \in 1 .. Len(tx[t].req) /\ tx[t].req[n] \in Line
    <3>1. n \in 1 .. Len(tx[t].req)
      <4>1. PICK q \in Seq(Line) : q = tx[t].req
        BY <1>1
      <4>2. PICK k \in Nat : k = Len(q)
        BY <4>1
      <4>3. PICK j \in Int : j = tx[t].line /\ j \in 1 .. k
        BY <1>1, <4>1, <4>2
      <4> QED BY <1>7, <4>1, <4>2, <4>3
    <3>2. PICK r : r = tx[t].req
      OBVIOUS
    <3>3. r[n] \in Line
      <4> HIDE DEF n
      <4> QED BY <1>1, <3>1, <3>2
    <3> QED BY <3>1, <3>2, <3>3
  <2>2. PICK l \in Line : l = tx[t].req[n]
    BY <2>1
  <2>3. /\ tx'[t].pc = Start(l) /\ tx'[t].req = tx[t].req /\ tx'[t].left = l.q
        /\ tx'[t].line = n /\ tx'[t].moves = moves /\ \A u \in Tx \ {t} : tx'[u] = tx[u]
    BY <1>0, <1>3, <1>7, <2>2 DEF Idle
  <2>4. L(t)' = l
    BY <2>2, <2>3 DEF L
  <2> HIDE DEF moves, n, y
  <2>5. /\ tx'[t].req \in Desk[t]
        /\ \A p \in Product : lock[p] = t => \E i \in DOMAIN tx'[t].req : tx'[t].req[i].p = p
    BY <1>0, <2>3 DEF TxOK, DeskOK
  <2>6. ASSUME NEW p \in Product
        PROVE  /\ Changed(t, p) = tx'[t].moves[p] /\ Changed(t, p) \in Int
               /\ ChangedLots(t, p) = Changed(t, p)
    <3>1. /\ ChangedLots(t, p) = Changed(t, p) + GapAt(t, p)
          /\ Changed(t, p) = tx[t].moves[p] + DueAt(t, p)
      BY <1>0 DEF TxOK
    <3>2. Changed(t, p) \in Int /\ tx[t].moves[p] \in Int
      BY <1>0, <1>1, RowInts DEF Row
    <3>3. GapAt(t, p) = 0
      BY <1>4 DEF GapAt
    <3>4. tx[t].moves[p] + DueAt(t, p) = moves[p]
      BY <1>0, <1>5, <3>2 DEF DueAt
    <3>5. QED
      BY <2>3, <3>1, <3>2, <3>3, <3>4
  <2>7. QED
    BY <1>3, <2>3, <2>4, <2>5, <2>6, NewLine
<1>8. QED
  BY <1>6, <1>7

\* Nothing happens.
LEMMA Unchanged ==
  ASSUME LotInv, StockInv', UNCHANGED vars
  PROVE  LotInv'
<1>1. /\ UNCHANGED <<rowVars, owner, nextLot, trail>> /\ tx' = tx /\ nextLot \in Int
      /\ com' = com /\ cur' = cur /\ lock' = lock /\ owner' = owner /\ nextLot' = nextLot /\ trail' = trail
  BY DEF vars, rowVars, LotInv, StockInv, TypeOK
<1>2. ASSUME NEW u \in Tx PROVE TxOK(u)'
  <2>1. \A r : Changed(u, r)' = Changed(u, r) /\ DB!Visible(u, r)' = DB!Visible(u, r)
    BY <1>1 DEF Changed, DB!Visible
  <2>2. \A p : ChangedLots(u, p)' = ChangedLots(u, p)
    BY <1>1, <2>1 DEF ChangedLots, LotChange
  <2>3. tx'[u] = tx[u] /\ L(u)' = L(u)
    BY <1>1, SameTx
  <2>4. DB!Visible(u, L(u).p)' = DB!Visible(u, L(u).p)
    BY <1>1, <2>3 DEF DB!Visible
  <2>5. QED
    BY <1>1, <2>1, <2>2, <2>3, <2>4, OtherKeeps
<1>3. QED
  BY <1>1, <1>2 DEF LotInv, EditedOK, LotsOK, MirrorOK, OnHand, TrailExplainsStock

-----------------------------------------------------------------------------
(***************************************************************************)
(* The invariant, and what it says of the committed rows.                   *)
(***************************************************************************)
\* The shop begins with lots that tell its stock and no transaction.
LEMMA LotStart == Init => LotInv
<1> SUFFICES ASSUME Init PROVE LotInv
  OBVIOUS
<1>0. StockInv /\ TypeOK
  BY StockStart DEF StockInv
<1>1. /\ com = [r \in Row |-> IF r \in Product THEN InitStock[r] ELSE InitQty[r]] /\ cur = com
      /\ lock = [r \in Row |-> NoTx] /\ owner = InitOwner /\ nextLot = InitLots + 1
      /\ trail = NoMoves /\ tx = [t \in Tx |-> Idle]
  BY DEF Init, DB!DBInit
<1>2. /\ \A p \in Product : com[p] = InitStock[p]
      /\ \A l \in Lot : com[l] = InitQty[l] /\ cur[l] = com[l]
  BY <1>1, StockAssumption DEF Row
<1>3. MirrorOK
  <2> SUFFICES ASSUME NEW p \in Product PROVE com[p] = OnHand(p)
    BY DEF MirrorOK
  <2> DEFINE R == {l \in Lot : owner[l] = p}
  <2>1. R = {l \in Lot : InitOwner[l] = p}
    BY <1>1
  <2>2. com[p] = SumFunctionOnSet(InitQty, R)
    BY <1>2, <2>1, StartAssumption
  <2>3. OnHand(p) = SumFunctionOnSet(com, R)
    BY DEF OnHand
  <2>4. IsFiniteSet(R) /\ \A l \in R : com[l] = InitQty[l]
    BY <1>2, LotFinite, FS_Subset
  <2> HIDE DEF R
  <2>5. SumFunctionOnSet(com, R) = SumFunctionOnSet(InitQty, R)
    BY <2>4, SumSame
  <2>6. QED
    BY <2>2, <2>3, <2>5
<1>4. TrailExplainsStock
  BY <1>1, <1>2, StockAssumption DEF TrailExplainsStock, NoMoves
<1>5. EditedOK
  BY <1>2 DEF EditedOK
<1>6. LotsOK
  <2>1. \A l \in Lot : l >= nextLot => l > InitLots
    BY <1>1, StockAssumption DEF Lot
  <2>2. \A l \in Lot : l > InitLots => com[l] = 0 /\ cur[l] = 0
    BY <1>2, StartAssumption
  <2>3. QED
    BY <1>1, <2>1, <2>2, StockAssumption DEF LotsOK
<1>7. ASSUME NEW t \in Tx PROVE TxOK(t)
  <2>1. tx[t].pc = "idle" /\ tx[t].moves = NoMoves /\ \A r \in Row : lock[r] # t
    BY <1>1, StockAssumption DEF Idle
  <2>2. \A r \in Row : Changed(t, r) = 0
    BY <2>1 DEF Changed
  <2>3. ASSUME NEW p \in Product PROVE ChangedLots(t, p) = 0
    <3> DEFINE f == LotChange(t, p)
    <3>1. \A l \in Lot : f[l] = 0
      BY <2>2 DEF LotChange, Row
    <3> HIDE DEF f
    <3>2. SumFunctionOnSet(f, Lot) = 0
      BY <3>1, LotFinite, SumNone
    <3>3. QED
      BY <3>2 DEF f, ChangedLots
  <2>4. \A p \in Product : GapAt(t, p) = 0 /\ DueAt(t, p) = 0
    BY <2>1 DEF GapAt, DueAt, At
  <2>5. QED
    BY <2>1, <2>2, <2>3, <2>4 DEF TxOK, DeskOK, NoMoves, At, Row
<1>8. QED
  BY <1>0, <1>3, <1>4, <1>5, <1>6, <1>7 DEF LotInv

\* Every statement keeps it.
LEMMA LotNext ==
  ASSUME CountedApart, LotInv, [Next]_vars
  PROVE  LotInv'
<1>0. StockInv'
  BY StockStep DEF LotInv
<1>1. CASE UNCHANGED vars
  BY <1>0, <1>1, Unchanged
<1>2. ASSUME NEW t \in Tx, NEW r \in Request, Begin(t, r) PROVE LotInv'
  BY <1>0, <1>2, BeginKeeps
<1>3. ASSUME NEW t \in Tx, Step(t) PROVE LotInv'
  BY <1>0, <1>3, PickKeeps, GuardKeeps, GuardFailsKeeps, ShortKeeps, FoundKeeps, FoundLotKeeps,
     ReguardKeeps, TakeKeeps, SelectKeeps, FefoKeeps, ReadKeeps, SetKeeps, IncrementKeeps,
     InsertKeeps, RestockKeeps, RecordKeeps, CommitKeeps DEF Step
<1>4. ASSUME NEW t \in Tx, Fail(t) PROVE LotInv'
  BY <1>4, FailKeeps
<1>5. QED
  BY <1>1, <1>2, <1>3, <1>4 DEF Next, Cancel, DeadlockAbort, Closed

\* LotInv is an invariant wherever what is counted is touched at one terminal.
LEMMA LotsHold == ASSUME CountedApart PROVE Spec => []LotInv
<1>1. Init => LotInv
  BY LotStart
<1>2. LotInv /\ [Next]_vars => LotInv'
  BY LotNext
<1>3. QED
  BY <1>1, <1>2, PTL DEF Spec

\* The stock row is the sum of the lots, and no removal ends short of lots: the
\* guard of the stock row is a guard of the lots behind it (DecrementGuarded and
\* DepleteFEFO; batches.go's "batches should always cover qty").
THEOREM LotsMirrorStock == ASSUME CountedApart PROVE Spec => []LotsAgree
<1>1. LotInv => LotsAgree
  <2> SUFFICES ASSUME LotInv PROVE LotsAgree
    OBVIOUS
  <2>1. ASSUME NEW t \in Tx
        PROVE  /\ At(t, "record") /\ L(t).kind \in {"sale", "consume"} => tx[t].left = 0
               /\ At(t, "short") => L(t).lot = NoLot
    BY DEF LotInv, TxOK, LineOK, At
  <2>2. QED
    BY <2>1 DEF LotInv, LotsAgree, GuardCoversLots
<1>2. QED
  BY <1>1, LotsHold, PTL

\* Every unit on hand is explained by the movements committed with it
\* (InsertMovement runs in the transaction of the change it records).
THEOREM TrailIsComplete == ASSUME CountedApart PROVE Spec => []TrailExplainsStock
<1>1. LotInv => TrailExplainsStock
  BY DEF LotInv
<1>2. QED
  BY <1>1, LotsHold, PTL
=============================================================================
