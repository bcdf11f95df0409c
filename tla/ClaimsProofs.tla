---------------------------- MODULE ClaimsProofs ----------------------------
(***************************************************************************)
(* That a serial number names one unit, and that the shelf, the supplier's  *)
(* account and the serials on record add up, for every shelf, every request *)
(* and any number of transactions at the same time.                        *)
(*                                                                         *)
(* The check that a serial is new is a plain read, so it proves nothing     *)
(* about the insert; what does is the unique index, whose entry is held     *)
(* with the unit until the transaction ends.  The invariant therefore ties  *)
(* every entry to its unit, and says of every transaction what it has taken *)
(* from each row it holds: a commit then moves the books by just that much. *)
(***************************************************************************)
EXTENDS Claims, SequenceTheorems, SumLaws

-----------------------------------------------------------------------------
(***************************************************************************)
(* The invariant.                                                          *)
(***************************************************************************)
Shelf == {Phone, Lamp, Supplier}

Steps == {"idle", "check", "find", "line", "source", "already", "unit", "retire", "stock", "restock", "credit", "commit"}

TxState == [pc : Steps, req : Request \cup {<<>>}, i : Nat, unit : Unit \cup {0}, old : UnitRow,
            claims : {<<>>} \cup {<<c>> : c \in Claim}, loss : Nat]

RowsType(f) == /\ f \in [Row -> Value]
               /\ \A p \in Shelf : f[p] \in Int
               /\ \A s \in Serial : f[s] \in Unit \cup {Free}
               /\ \A u \in Unit : f[u] \in UnitRow

Tables == /\ RowsType(com) /\ RowsType(cur) /\ lock \in [Row -> Tx \cup {NoTx}]
          /\ nextUnit \in Nat /\ nextUnit > 0 /\ today \in Nat /\ sold \in Nat
          /\ claims \in Seq(Claim) /\ recoveries \in Seq(Recovery)
          /\ tx \in [Tx -> TxState]

Serialled(u) == u.status # "none" /\ u.serial # NoSerial

\* The entries of the unique index name the units they were inserted for: a committed
\* unit's entry is committed, and an unfinished one's is held with the unit.
IndexOK ==
  /\ \A u \in Unit : Serialled(com[u]) => com[com[u].serial] = u
  /\ \A u \in Unit : Serialled(cur[u]) => /\ cur[cur[u].serial] = u
                                          /\ lock[cur[u].serial] = lock[u] \/ com[cur[u].serial] = u
  /\ \A s \in Serial : com[s] # Free => cur[s] = com[s]

\* A row nobody holds is committed; a unit, once committed, keeps its serial; and
\* ids are given out in turn.
RowsOK ==
  /\ \A r \in Row : lock[r] = NoTx => cur[r] = com[r]
  /\ \A u \in Unit : com[u].status # "none" => cur[u].status # "none" /\ cur[u].serial = com[u].serial
  /\ \A u \in Unit : u >= nextUnit => com[u] = NoUnit /\ cur[u] = NoUnit

\* Which requests may be at each step, and what they have noted by then.
Shape(t) ==
  LET o == R(t).op
  IN /\ At(t, "idle") \/ R(t) \in Request
     /\ At(t, "check") => o \in {"sell", "replace"}
     /\ At(t, "find") => o = "replace"
     /\ At(t, "line") => o = "receipt"
     /\ tx[t].pc \in {"source", "already", "restock", "credit"} => o \in {"warranty", "damage"}
     /\ At(t, "restock") => R(t).how = "replacement"
     /\ At(t, "credit") => R(t).how = "paid"
     /\ At(t, "retire") => o \in {"replace", "receipt"}
     /\ tx[t].pc \in {"unit", "stock"} => o \in {"sell", "replace", "receipt"}
     /\ tx[t].pc \in {"check", "unit"} /\ o \in {"sell", "replace"} => tx[t].i \in 1 .. Len(R(t).serials)
     /\ At(t, "find") \/ (At(t, "stock") /\ o = "sell") => tx[t].i = 1
     /\ tx[t].claims = IF tx[t].pc \in {"stock", "commit"} /\ o \in {"replace", "receipt"}
                         THEN <<[unit |-> IF o = "replace" THEN R(t).of ELSE tx[t].unit,
                                 product |-> IF o = "replace" THEN Phone ELSE Lamp]>>
                         ELSE <<>>

\* The rows a request has found, which nobody unmakes.
Found(t) ==
  /\ tx[t].pc \in {"check", "unit", "retire", "stock", "commit"} /\ R(t).op = "replace"
       => R(t).of \in Unit /\ com[R(t).of].status # "none"
  /\ tx[t].pc \in {"retire", "stock", "commit"} /\ R(t).op = "receipt"
       => /\ tx[t].unit \in Unit /\ lock[tx[t].unit] = t
          /\ com[tx[t].unit].status = "none" /\ cur[tx[t].unit].status # "none" /\ cur[tx[t].unit].serial = NoSerial
  /\ tx[t].pc \in {"already", "restock", "credit", "commit"} /\ R(t).op = "warranty"
       => R(t).of \in Unit /\ com[R(t).of].status # "none"
  /\ tx[t].pc \in {"already", "restock", "credit", "commit"} /\ R(t).op \in {"warranty", "damage"} => tx[t].loss > 0

\* What t's transaction has added to a count.
Taken(t, p) ==
  LET r == R(t)
  IN CASE At(t, "unit") /\ p = Phone /\ r.op = "sell" -> -Len(r.serials)
       [] At(t, "commit") /\ p = Phone /\ r.op = "sell" -> -Len(r.serials)
       [] At(t, "commit") /\ p = Phone /\ r.op = "replace" -> -1
       [] At(t, "commit") /\ p = Lamp /\ r.op = "receipt" -> -1
       [] At(t, "commit") /\ r.op \in {"warranty", "damage"} /\ r.how = "replacement" /\ p = LossProduct(t) -> tx[t].loss
       [] At(t, "commit") /\ r.op \in {"warranty", "damage"} /\ r.how = "paid" /\ p = Supplier -> -tx[t].loss
       [] OTHER -> 0

CountOK(t, p) == /\ lock[p] = t => cur[p] = com[p] + Taken(t, p)
                 /\ Taken(t, p) # 0 => lock[p] = t

\* The units with a serial that t's transaction has inserted, and how many they are.
New(t) == {u \in Unit : lock[u] = t /\ com[u].status = "none" /\ Serialled(cur[u])}

Inserted(t) ==
  CASE At(t, "unit") /\ R(t).op = "sell" -> tx[t].i - 1
    [] At(t, "commit") /\ R(t).op = "sell" -> Len(R(t).serials)
    [] tx[t].pc \in {"retire", "stock", "commit"} /\ R(t).op = "replace" -> 1
    [] OTHER -> 0

\* The steps at which a request has written nothing.
Bare(t) == tx[t].pc \in {"idle", "check", "find", "line", "source", "already", "restock", "credit"}
             => \A r \in Row : lock[r] # t

Own(t) == /\ Shape(t) /\ Found(t) /\ Bare(t)
          /\ \A p \in Shelf : CountOK(t, p)
          /\ Cardinality(New(t)) = Inserted(t)

ClaimsInv == Tables /\ IndexOK /\ RowsOK /\ (\A t \in Tx : Own(t)) /\ UnitsAccounted

-----------------------------------------------------------------------------
(***************************************************************************)
(* Facts about the constants and the types.                                *)
(***************************************************************************)
\* The rows of the tables are apart, and no unit has the id that says a serial is free.
LEMMA RowFacts ==
  /\ Phone \in Row /\ Lamp \in Row /\ Supplier \in Row /\ Unit \subseteq Row /\ Serial \subseteq Row /\ Shelf \subseteq Row
  /\ Phone # Lamp /\ Phone # Supplier /\ Lamp # Supplier
  /\ Shelf \cap Unit = {} /\ Shelf \cap Serial = {} /\ Serial \cap Unit = {}
  /\ NoSerial \notin Row /\ NoSerial \notin Serial /\ NoTx \notin Tx
  /\ Unit \subseteq Nat /\ Free \notin Unit /\ Free = 0
<1>1. /\ NoTx \notin Tx /\ NoSerial \notin Row /\ Phone # Lamp /\ Supplier \notin {Phone, Lamp}
      /\ Serial \cap {Phone, Lamp, Supplier} = {} /\ Unit \cap ({Phone, Lamp, Supplier} \cup Serial) = {}
      /\ MaxUnit \in Nat
  BY ClaimsAssumption
<1>2. Unit \subseteq Nat /\ Free \notin Unit /\ Free = 0
  BY <1>1 DEF Unit, Free
<1>3. /\ Phone \in Row /\ Lamp \in Row /\ Supplier \in Row /\ Unit \subseteq Row /\ Serial \subseteq Row
      /\ Shelf \subseteq Row
  BY DEF Row, Shelf
<1>4. Shelf \cap Unit = {} /\ Shelf \cap Serial = {} /\ Serial \cap Unit = {}
  BY <1>1 DEF Shelf
<1> QED BY <1>1, <1>2, <1>3, <1>4

\* The row of a unit nobody has inserted.
LEMMA NoUnitRow == NoUnit \in UnitRow /\ NoUnit.status = "none" /\ NoUnit.serial = NoSerial
BY DEF NoUnit, UnitRow

\* A session that serves nobody is in one of the states a session may be in.
LEMMA IdleState == Idle \in TxState /\ Idle.pc = "idle" /\ Idle.claims = <<>> /\ Idle.i = 1
<1>1. <<>> \in Request \cup {<<>>} /\ <<>> \in {<<>>} \cup {<<c>> : c \in Claim} /\ 0 \in Unit \cup {0}
  OBVIOUS
<1> QED BY <1>1, NoUnitRow DEF Idle, TxState, Steps

\* The types of a session's notes.
LEMMA TxFacts ==
  ASSUME Tables, NEW t \in Tx
  PROVE  /\ tx[t] \in TxState /\ tx[t].pc \in Steps /\ tx[t].req \in Request \cup {<<>>} /\ tx[t].i \in Nat
         /\ tx[t].unit \in Unit \cup {0} /\ tx[t].old \in UnitRow /\ tx[t].loss \in Nat
         /\ tx[t].claims \in {<<>>} \cup {<<c>> : c \in Claim}
<1>1. tx[t] \in TxState
  BY DEF Tables
<1> QED BY <1>1 DEF TxState

\* What the handlers let through: a sale has serials, a replacement has one.
LEMMA ReqFacts ==
  ASSUME NEW r \in Request
  PROVE  /\ r.op \in {"sell", "replace", "receipt", "warranty", "damage"}
         /\ r.serials \in Seq(Serial) /\ r.of \in Nat /\ r.how \in {"", "replacement", "paid", "written_off"}
         /\ r.op = "sell" => Len(r.serials) > 0
         /\ r.op = "replace" => Len(r.serials) = 1
         /\ r.op \in {"warranty", "damage"} => r.how \in {"replacement", "paid", "written_off"}
         /\ Len(r.serials) \in Nat
<1>1. /\ r \in [op : {"sell", "replace", "receipt", "warranty", "damage"},
                serials : Seq(Serial), of : Nat, how : {"", "replacement", "paid", "written_off"}]
      /\ r.op = "sell" => r.serials # <<>>
      /\ r.op = "replace" => Len(r.serials) = 1
      /\ r.op \in {"warranty", "damage"} => r.how # ""
  BY ClaimsAssumption
<1>2. /\ r.op \in {"sell", "replace", "receipt", "warranty", "damage"}
      /\ r.serials \in Seq(Serial) /\ r.of \in Nat /\ r.how \in {"", "replacement", "paid", "written_off"}
  BY <1>1
<1>3. \A q \in Seq(Serial) : Len(q) \in Nat /\ (q # <<>> => Len(q) > 0)
  BY EmptySeq, LenProperties
<1> QED BY <1>1, <1>2, <1>3

\* What a unit was sold as is told by its serial, and that does not change.
LEMMA LossIs ==
  ASSUME ClaimsInv, NEW t \in Tx, tx[t].pc \in {"already", "restock", "credit", "commit"},
         R(t).op \in {"warranty", "damage"}
  PROVE  /\ R(t).op = "damage" => LossProduct(t) = Lamp
         /\ R(t).op = "warranty" => /\ LossProduct(t) = Product(com[R(t).of]) /\ R(t).of \in Unit
                                    /\ com[R(t).of].status # "none"
         /\ LossProduct(t) \in {Phone, Lamp}
<1>1. Found(t)
  BY DEF ClaimsInv, Own
<1>2. CASE R(t).op = "damage"
  BY <1>2 DEF LossProduct
<1>3. CASE R(t).op = "warranty"
  <2>1. R(t).of \in Unit /\ com[R(t).of].status # "none"
    BY <1>1, <1>3 DEF Found
  <2>2. cur[R(t).of].serial = com[R(t).of].serial
    BY <2>1 DEF ClaimsInv, RowsOK
  <2> QED BY <1>3, <2>1, <2>2 DEF LossProduct, Product, DB!Visible
<1> QED BY <1>2, <1>3

\* Another transaction is not disturbed by a step that leaves it the rows it holds
\* and every committed unit its serial.
LEMMA OthersKept ==
  ASSUME ClaimsInv, NEW u \in Tx, tx'[u] = tx[u],
         \A r \in Row : lock[r] = u <=> lock'[r] = u,
         \A r \in Row : lock[r] = u => cur'[r] = cur[r] /\ com'[r] = com[r],
         \A x \in Unit : com[x].status # "none" => com'[x].status # "none" /\ com'[x].serial = com[x].serial
                                                    /\ cur'[x].serial = com[x].serial
  PROVE  Own(u)'
<1>1. Own(u) /\ R(u)' = R(u) /\ \A s : At(u, s)' <=> At(u, s)
  BY DEF ClaimsInv, R, At
<1>2. Shape(u)'
  BY <1>1 DEF Own, Shape
<1>3. Found(u)'
  <2>1. Found(u) /\ Unit \subseteq Row
    BY <1>1, RowFacts DEF Own
  <2>2. \A x \in Unit : lock[x] = u => cur'[x] = cur[x] /\ com'[x] = com[x] /\ lock'[x] = u
    BY <2>1
  <2> QED BY <1>1, <2>1, <2>2 DEF Found
<1>4. Bare(u)'
  BY <1>1 DEF Own, Bare
<1>5. ASSUME NEW p \in Shelf PROVE CountOK(u, p)'
  <2>1. Taken(u, p)' = Taken(u, p)
    <3>1. At(u, "commit") /\ R(u).op \in {"warranty", "damage"} => LossProduct(u)' = LossProduct(u)
      <4> SUFFICES ASSUME At(u, "commit"), R(u).op \in {"warranty", "damage"} PROVE LossProduct(u)' = LossProduct(u)
        OBVIOUS
      <4>1. CASE R(u).op = "damage"
        BY <1>1, <4>1 DEF LossProduct
      <4>2. CASE R(u).op = "warranty"
        <5>1. PICK x : x = R(u).of
          OBVIOUS
        <5>2. x \in Unit /\ com[x].status # "none" /\ LossProduct(u) = Product(com[x])
          BY <4>2, <5>1, LossIs DEF At
        <5>3. com'[x].serial = com[x].serial /\ cur'[x].serial = com[x].serial
          BY <5>2
        <5>4. LossProduct(u)' = IF lock'[x] = u THEN Product(cur'[x]) ELSE Product(com'[x])
          BY <1>1, <4>2, <5>1 DEF LossProduct, DB!Visible
        <5> QED BY <5>2, <5>3, <5>4 DEF Product
      <4> QED BY <4>1, <4>2
    <3> QED BY <1>1, <3>1 DEF Taken
  <2>2. p \in Row /\ CountOK(u, p)
    BY <1>1, RowFacts DEF Own
  <2> QED BY <2>1, <2>2 DEF CountOK
<1>6. Cardinality(New(u))' = Inserted(u)'
  <2>1. New(u)' = New(u)
    BY RowFacts DEF New
  <2>2. Inserted(u)' = Inserted(u)
    BY <1>1 DEF Inserted
  <2> QED BY <1>1, <2>1, <2>2 DEF Own
<1> QED BY <1>2, <1>3, <1>4, <1>5, <1>6 DEF Own

\* A transaction that holds no row.
LEMMA EmptyOwn ==
  ASSUME NEW t \in Tx, \A r \in Row : lock'[r] # t, Shape(t)', Found(t)',
         \A p \in Shelf : Taken(t, p)' = 0, Inserted(t)' = 0
  PROVE  Own(t)'
<1>1. New(t)' = {}
  BY RowFacts DEF New
<1>2. Cardinality(New(t))' = 0
  BY <1>1, FS_EmptySet
<1>3. \A p \in Shelf : CountOK(t, p)'
  BY RowFacts DEF CountOK
<1>4. Bare(t)'
  BY DEF Bare
<1> QED BY <1>2, <1>3, <1>4 DEF Own

\* And one that is over.
LEMMA IdleOwn ==
  ASSUME NEW t \in Tx, \A r \in Row : lock'[r] # t, tx'[t] = Idle
  PROVE  Own(t)'
<1>1. tx'[t].pc = "idle" /\ tx'[t].claims = <<>>
  BY IdleState
<1>2. Shape(t)'
  BY <1>1 DEF Shape, At
<1>3. Found(t)'
  BY <1>1 DEF Found
<1>4. (\A p \in Shelf : Taken(t, p)' = 0) /\ Inserted(t)' = 0
  BY <1>1 DEF Taken, Inserted, At
<1> QED BY <1>2, <1>3, <1>4, EmptyOwn

-----------------------------------------------------------------------------
(***************************************************************************)
(* The invariant holds at the start, and of steps that only read.          *)
(***************************************************************************)
\* It holds before the first request.
LEMMA InitHolds == Init => ClaimsInv
<1> SUFFICES ASSUME Init PROVE ClaimsInv
  OBVIOUS
<1>1. /\ com = [r \in Row |-> CASE r \in {Phone, Lamp} -> InitStock[r] [] r \in Unit -> NoUnit
                                [] r \in Serial \cup {Supplier} -> 0]
      /\ cur = com /\ lock = [r \in Row |-> NoTx]
      /\ nextUnit = 1 /\ sold = 0 /\ claims = <<>> /\ recoveries = <<>> /\ today = 0 /\ tx = [t \in Tx |-> Idle]
  BY DEF Init, DB!DBInit
<1>2. /\ com[Phone] = InitStock[Phone] /\ com[Lamp] = InitStock[Lamp] /\ com[Supplier] = 0
      /\ \A u \in Unit : com[u] = NoUnit
      /\ \A s \in Serial : com[s] = 0
  <2>1. \A r \in Row : com[r] = CASE r \in {Phone, Lamp} -> InitStock[r] [] r \in Unit -> NoUnit
                                  [] r \in Serial \cup {Supplier} -> 0
    BY <1>1
  <2> QED BY <2>1, RowFacts DEF Shelf
<1>3. InitStock[Phone] \in Nat /\ InitStock[Lamp] \in Nat
  BY ClaimsAssumption
<1>4. Tables
  <2>1. com \in [Row -> Value]
    <3> SUFFICES ASSUME NEW r \in Row PROVE com[r] \in Value
      BY <1>1
    <3> QED BY <1>2, <1>3, NoUnitRow DEF Row, Value
  <2>2. RowsType(com)
    BY <1>2, <1>3, <2>1, NoUnitRow DEF RowsType, Shelf, Free
  <2>3. claims \in Seq(Claim) /\ recoveries \in Seq(Recovery)
    BY <1>1
  <2>4. tx \in [Tx -> TxState]
    BY <1>1, IdleState
  <2>5. RowsType(cur)
    BY <1>1, <2>2
  <2>6. nextUnit \in Nat /\ nextUnit > 0 /\ today \in Nat /\ sold \in Nat /\ lock \in [Row -> Tx \cup {NoTx}]
    BY <1>1
  <2> QED BY <2>2, <2>3, <2>4, <2>5, <2>6 DEF Tables
<1>5. IndexOK
  BY <1>1, <1>2, NoUnitRow DEF IndexOK, Serialled, Free
<1>6. RowsOK
  BY <1>1, <1>2, NoUnitRow, RowFacts DEF RowsOK
<1>7. \A t \in Tx : Own(t)
  <2> SUFFICES ASSUME NEW t \in Tx PROVE Own(t)
    OBVIOUS
  <2>1. tx[t] = Idle /\ tx[t].pc = "idle" /\ tx[t].claims = <<>> /\ \A r \in Row : lock[r] # t
    BY <1>1, IdleState, RowFacts
  <2>2. New(t) = {}
    BY <2>1, RowFacts DEF New
  <2>3. Cardinality(New(t)) = 0
    BY <2>2, FS_EmptySet
  <2>4. Shape(t) /\ Found(t)
    BY <2>1 DEF Shape, Found, At
  <2>5. Inserted(t) = 0 /\ \A p \in Shelf : CountOK(t, p)
    BY <2>1, RowFacts DEF Inserted, CountOK, Taken, At
  <2>6. Bare(t)
    BY <2>1 DEF Bare
  <2> QED BY <2>3, <2>4, <2>5, <2>6 DEF Own
<1>8. UnitsAccounted
  <2>1. \A how, p : Paid(how, p) = 0
    <3> SUFFICES ASSUME NEW how, NEW p PROVE Paid(how, p) = 0
      OBVIOUS
    <3>1. {i \in DOMAIN recoveries : recoveries[i].how = how /\ recoveries[i].product = p} = {}
      BY <1>1
    <3> QED BY <3>1, SumEmpty DEF Paid
  <2>2. \A p : Handed(p) = 0
    <3> SUFFICES ASSUME NEW p PROVE Handed(p) = 0
      OBVIOUS
    <3>1. {i \in DOMAIN claims : claims[i].product = p} = {}
      BY <1>1
    <3> QED BY <3>1, FS_EmptySet DEF Handed
  <2>3. {u \in Issued : com[u].serial # NoSerial} = {}
    BY <1>2, NoUnitRow DEF Issued
  <2>4. Cardinality({u \in Issued : com[u].serial # NoSerial}) = 0
    BY <2>3, FS_EmptySet
  <2>5. /\ Paid("replacement", Phone) = 0 /\ Paid("replacement", Lamp) = 0
        /\ Paid("paid", Phone) = 0 /\ Paid("paid", Lamp) = 0
        /\ Handed(Phone) = 0 /\ Handed(Lamp) = 0
    BY <2>1, <2>2
  <2>6. PICK a, b : a = InitStock[Phone] /\ b = InitStock[Lamp] /\ a \in Nat /\ b \in Nat
    BY <1>3
  <2>7. sold = 0 /\ com[Phone] = a /\ com[Lamp] = b /\ com[Supplier] = 0
    BY <1>1, <1>2, <2>6
  <2>8. a = a - 0 - 0 + 0 /\ b = b - 0 + 0
    BY <2>6
  <2>9. 0 = 0 - (0 + 0)
    OBVIOUS
  <2>10. 0 = 0 + 0
    OBVIOUS
  <2> QED BY <2>4, <2>5, <2>6, <2>7, <2>8, <2>9, <2>10 DEF UnitsAccounted
<1> QED BY <1>4, <1>5, <1>6, <1>7, <1>8 DEF ClaimsInv

\* The books are those of the tables they are read from.
LEMMA BooksSame ==
  ASSUME UnitsAccounted, UNCHANGED <<com, sold, claims, recoveries>>
  PROVE  UnitsAccounted'
<1>1. \A how, p : Paid(how, p)' = Paid(how, p)
  BY DEF Paid, Quantity
<1>2. \A p : Handed(p)' = Handed(p)
  BY DEF Handed
<1>3. {u \in Issued : com[u].serial # NoSerial}' = {u \in Issued : com[u].serial # NoSerial}
  BY DEF Issued
<1> QED BY <1>1, <1>2, <1>3 DEF UnitsAccounted

\* A step that only reads.
LEMMA QuietStep ==
  ASSUME ClaimsInv, UNCHANGED <<com, cur, lock, nextUnit, sold, claims, recoveries>>, today' \in Nat,
         tx' \in [Tx -> TxState], \A u \in Tx : tx'[u] = tx[u] \/ Own(u)'
  PROVE  ClaimsInv'
<1>1. Tables' /\ IndexOK' /\ RowsOK'
  BY DEF ClaimsInv, Tables, RowsType, IndexOK, RowsOK
<1>2. UnitsAccounted'
  BY BooksSame DEF ClaimsInv
<1>3. ASSUME NEW u \in Tx, tx'[u] = tx[u] PROVE Own(u)'
  <2>1. \A x \in Unit : com[x].status # "none" => com'[x].status # "none" /\ com'[x].serial = com[x].serial
                                                  /\ cur'[x].serial = com[x].serial
    BY DEF ClaimsInv, RowsOK
  <2> QED BY <1>3, <2>1, OthersKept
<1> QED BY <1>1, <1>2, <1>3 DEF ClaimsInv

\* One that ends with nothing written yet.
LEMMA ReadStep ==
  ASSUME ClaimsInv, UNCHANGED <<com, cur, lock, nextUnit, sold, claims, recoveries, today>>, NEW t \in Tx,
         tx[t].pc \in {"idle", "check", "find", "line", "source", "already"},
         NEW x \in TxState, tx' = [tx EXCEPT ![t] = x],
         Shape(t)', Found(t)', \A p \in Shelf : Taken(t, p)' = 0, Inserted(t)' = 0
  PROVE  ClaimsInv'
<1>1. tx' \in [Tx -> TxState] /\ \A u \in Tx \ {t} : tx'[u] = tx[u]
  BY DEF ClaimsInv, Tables
<1>2. \A r \in Row : lock'[r] # t
  BY DEF ClaimsInv, Own, Bare
<1>3. Own(t)'
  BY <1>2, EmptyOwn
<1> QED BY <1>1, <1>3, QuietStep DEF ClaimsInv, Tables

\* A request is taken up: nothing is noted, nothing is held.
LEMMA BeginStep ==
  ASSUME ClaimsInv, NEW t \in Tx, NEW r \in Desk[t], Begin(t, r)
  PROVE  ClaimsInv'
<1>1. r \in Request
  BY ClaimsAssumption
<1>2. PICK x : x = [Idle EXCEPT !.pc = Start(r), !.req = r]
  OBVIOUS
<1>3. /\ At(t, "idle") /\ tx' = [tx EXCEPT ![t] = x] /\ tx \in [Tx -> TxState]
      /\ UNCHANGED <<com, cur, lock, nextUnit, sold, claims, recoveries, today>>
  BY <1>2 DEF Begin, ClaimsInv, Tables, rowVars, books
<1>4. /\ r.op = "sell" => Start(r) = "check"
      /\ r.op = "replace" => Start(r) = "find"
      /\ r.op = "receipt" => Start(r) = "line"
      /\ r.op \in {"warranty", "damage"} => Start(r) = "source"
  BY DEF Start
<1>5. /\ x \in TxState /\ x.pc = Start(r) /\ x.req = r /\ x.i = 1 /\ x.claims = <<>>
      /\ tx'[t] = x
  BY <1>1, <1>2, <1>3, <1>4, IdleState, ReqFacts DEF TxState, Steps
<1>6. R(t)' = r /\ tx'[t].pc = Start(r) /\ tx'[t].i = 1 /\ tx'[t].claims = <<>>
  BY <1>5 DEF R
<1>7. Shape(t)'
  <2>2. /\ r.op \in {"sell", "replace", "receipt", "warranty", "damage"}
        /\ r.op \in {"sell", "replace"} => Len(r.serials) \in Nat /\ Len(r.serials) >= 1
    <3>1. PICK n : n = Len(r.serials)
      OBVIOUS
    <3>2. n \in Nat /\ (r.op = "sell" => n > 0) /\ (r.op = "replace" => n = 1)
      BY <1>1, <3>1, ReqFacts
    <3>3. n > 0 => n >= 1
      BY <3>2
    <3>4. r.op \in {"sell", "replace", "receipt", "warranty", "damage"}
      BY <1>1, ReqFacts
    <3>5. r.op \in {"sell", "replace"} => n \in Nat /\ n >= 1
      BY <3>2, <3>3
    <3> QED BY <3>1, <3>4, <3>5
  <2>3. tx'[t].pc = "check" => r.op \in {"sell", "replace"}
    BY <1>4, <1>6, <2>2
  <2>1. tx'[t].pc = "check" => 1 \in 1 .. Len(r.serials)
    BY <2>2, <2>3
  <2> QED BY <1>1, <1>4, <1>6, <2>1, <2>2 DEF Shape, At
<1>8. Found(t)' /\ Inserted(t)' = 0 /\ \A p \in Shelf : Taken(t, p)' = 0
  BY <1>1, <1>4, <1>6, ReqFacts DEF Found, Inserted, Taken, At
<1> QED BY <1>3, <1>5, <1>7, <1>8, ReadStep DEF At

\* A read that goes on: what the next step's shape is decides.
LEMMA CheckSerialStep ==
  ASSUME ClaimsInv, NEW t \in Tx, CheckSerial(t), ~Fail(t)
  PROVE  ClaimsInv'
<1>1. PICK n, c : n = Len(R(t).serials) /\ c = tx[t].pc
  OBVIOUS
<1>2. /\ At(t, "check") /\ R(t).op \in {"sell", "replace"} /\ R(t) \in Request /\ n \in Nat /\ tx[t].i \in 1 .. n
      /\ tx \in [Tx -> TxState] /\ tx[t] \in TxState /\ Found(t) /\ Shape(t) /\ tx[t].claims = <<>>
  BY <1>1, TxFacts, ReqFacts DEF CheckSerial, ClaimsInv, Own, Shape, At, Tables
<1>3. PICK j, s : /\ tx' = [tx EXCEPT ![t].i = j, ![t].pc = s]
                  /\ \/ s = "check" /\ j = tx[t].i + 1 /\ tx[t].i < n
                     \/ s = (IF R(t).op = "sell" THEN "stock" ELSE "unit") /\ j = 1
                  /\ UNCHANGED <<com, cur, lock, nextUnit, sold, claims, recoveries, today>>
  <2>1. CASE tx[t].i < n
    <3>1. tx' = [tx EXCEPT ![t].i = tx[t].i + 1]
      BY <1>1, <2>1 DEF CheckSerial
    <3>2. tx' = [tx EXCEPT ![t].i = tx[t].i + 1, ![t].pc = "check"]
      BY <1>2, <3>1 DEF At, TxState
    <3> QED BY <1>1, <2>1, <3>2 DEF CheckSerial, rowVars, books
  <2>2. CASE ~(tx[t].i < n)
    BY <1>1, <2>2 DEF CheckSerial, rowVars, books
  <2> QED BY <2>1, <2>2
<1>4. PICK x : x = [tx[t] EXCEPT !.i = j, !.pc = s]
  OBVIOUS
<1>5. /\ j \in Nat /\ j \in 1 .. n /\ s \in {"check", "stock", "unit"} /\ (s = "check" \/ (j = 1 /\ s = IF R(t).op = "sell" THEN "stock" ELSE "unit"))
  BY <1>2, <1>3
<1>6. x \in TxState /\ tx' = [tx EXCEPT ![t] = x] /\ x.pc = s /\ x.i = j /\ x.req = R(t) /\ x.claims = <<>> /\ tx'[t] = x
  BY <1>2, <1>3, <1>4, <1>5 DEF TxState, Steps, R
<1>7. R(t)' = R(t) /\ tx'[t].pc = s /\ tx'[t].i = j /\ tx'[t].claims = <<>>
  BY <1>6 DEF R
<1>8. Found(t)'
  BY <1>2, <1>3, <1>5, <1>7 DEF Found, At
<1>9. Inserted(t)' = 0 /\ \A p \in Shelf : Taken(t, p)' = 0
  BY <1>2, <1>5, <1>7 DEF Inserted, Taken, At
<1>10. Shape(t)'
  BY <1>1, <1>2, <1>5, <1>7 DEF Shape, At
<1>11. tx[t].pc = "check"
  BY <1>2 DEF At
<1> QED BY <1>3, <1>6, <1>8, <1>9, <1>10, <1>11, ReadStep

\* A replacement is of a unit on record.
LEMMA FindUnitStep ==
  ASSUME ClaimsInv, NEW t \in Tx, FindUnit(t), ~Fail(t)
  PROVE  ClaimsInv'
<1>1. PICK u : u = IF R(t).of \in Unit THEN DB!Visible(t, R(t).of) ELSE NoUnit
  OBVIOUS
<1>2. /\ At(t, "find") /\ u.status = "active" /\ R(t).op = "replace" /\ R(t) \in Request
      /\ tx' = [tx EXCEPT ![t].old = u, ![t].pc = "check"]
      /\ UNCHANGED <<com, cur, lock, nextUnit, sold, claims, recoveries, today>>
      /\ tx \in [Tx -> TxState] /\ tx[t] \in TxState /\ tx[t].claims = <<>> /\ \A r \in Row : lock[r] # t
  BY <1>1 DEF FindUnit, rowVars, books, ClaimsInv, Tables, Own, Shape, At, Bare
<1>3. R(t).of \in Unit /\ u = com[R(t).of] /\ com[R(t).of].status # "none" /\ u \in UnitRow
  <2>1. R(t).of \in Unit
    BY <1>1, <1>2, NoUnitRow
  <2>2. lock[R(t).of] # t
    BY <1>2, <2>1, RowFacts
  <2> QED BY <1>1, <1>2, <2>1, <2>2 DEF DB!Visible, ClaimsInv, Tables, RowsType
<1>4. PICK x : x = [tx[t] EXCEPT !.old = u, !.pc = "check"]
  OBVIOUS
<1>5. x \in TxState /\ tx' = [tx EXCEPT ![t] = x] /\ tx'[t] = x /\ x.pc = "check" /\ x.req = R(t) /\ x.claims = <<>>
      /\ x.i = tx[t].i
  BY <1>2, <1>3, <1>4 DEF TxState, Steps, R
<1>6. R(t)' = R(t) /\ tx'[t].pc = "check" /\ tx'[t].i = tx[t].i /\ tx'[t].claims = <<>>
  BY <1>5 DEF R
<1>7. Found(t)' /\ Inserted(t)' = 0 /\ \A p \in Shelf : Taken(t, p)' = 0
  BY <1>2, <1>3, <1>6 DEF Found, Inserted, Taken, At
<1>8. Shape(t)'
  <2>1. tx[t].i = 1
    BY <1>2 DEF ClaimsInv, Own, Shape, At
  <2>2. 1 \in 1 .. Len(R(t).serials)
    <3>1. Len(R(t).serials) = 1
      BY <1>2, ReqFacts
    <3> QED BY <3>1
  <2> QED BY <1>2, <1>6, <2>1, <2>2 DEF Shape, At
<1> QED BY <1>2, <1>5, <1>7, <1>8, ReadStep DEF At

\* A receipt line is read and nothing kept of it: this proves nothing about the unit.
LEMMA ReadLineStep ==
  ASSUME ClaimsInv, NEW t \in Tx, ReadLine(t), ~Fail(t)
  PROVE  ClaimsInv'
<1>1. /\ At(t, "line") /\ R(t).op = "receipt" /\ R(t) \in Request
      /\ tx' = [tx EXCEPT ![t].pc = "unit"]
      /\ UNCHANGED <<com, cur, lock, nextUnit, sold, claims, recoveries, today>>
      /\ tx \in [Tx -> TxState] /\ tx[t] \in TxState /\ tx[t].claims = <<>>
  BY DEF ReadLine, Goto, rowVars, books, ClaimsInv, Tables, Own, Shape, At
<1>2. PICK x : x = [tx[t] EXCEPT !.pc = "unit"]
  OBVIOUS
<1>3. x \in TxState /\ tx' = [tx EXCEPT ![t] = x] /\ tx'[t] = x /\ x.pc = "unit" /\ x.req = R(t) /\ x.claims = <<>>
  BY <1>1, <1>2 DEF TxState, Steps, R
<1>4. R(t)' = R(t) /\ tx'[t].pc = "unit" /\ tx'[t].claims = <<>>
  BY <1>3 DEF R
<1>5. Shape(t)' /\ Found(t)' /\ Inserted(t)' = 0 /\ \A p \in Shelf : Taken(t, p)' = 0
  BY <1>1, <1>4 DEF Shape, Found, Inserted, Taken, At
<1> QED BY <1>1, <1>3, <1>5, ReadStep DEF At

\* A loss is a unit that was replaced, or a write-off on record.
LEMMA ReadSourceStep ==
  ASSUME ClaimsInv, NEW t \in Tx, ReadSource(t), ~Fail(t)
  PROVE  ClaimsInv'
<1>1. PICK q : q = IF R(t).op = "warranty" THEN WarrantySource(t) ELSE DamageSource(t)
  OBVIOUS
<1>2. /\ At(t, "source") /\ q # 0 /\ R(t).op \in {"warranty", "damage"} /\ R(t) \in Request
      /\ tx' = [tx EXCEPT ![t].loss = q, ![t].pc = "already"]
      /\ UNCHANGED <<com, cur, lock, nextUnit, sold, claims, recoveries, today>>
      /\ tx \in [Tx -> TxState] /\ tx[t] \in TxState /\ tx[t].claims = <<>> /\ \A r \in Row : lock[r] # t
  BY <1>1 DEF ReadSource, rowVars, books, ClaimsInv, Tables, Own, Shape, At, Bare
<1>3. q \in Nat /\ q > 0
  <2>1. CASE R(t).op = "warranty"
    BY <1>1, <1>2, <2>1 DEF WarrantySource
  <2>2. CASE R(t).op = "damage"
    <3>1. \A i \in DOMAIN Damaged : Damaged[i] \in Nat
      <4>1. Damaged \in Seq(Nat)
        BY ClaimsAssumption
      <4>2. Damaged \in [1 .. Len(Damaged) -> Nat]
        BY <4>1, LenProperties
      <4> QED BY <4>2
    <3>2. q \in Nat
      BY <1>1, <2>2, <3>1 DEF DamageSource
    <3> QED BY <1>2, <3>2
  <2> QED BY <1>2, <2>1, <2>2
<1>4. R(t).op = "warranty" => R(t).of \in Unit /\ com[R(t).of].status # "none"
  <2> SUFFICES ASSUME R(t).op = "warranty" PROVE R(t).of \in Unit /\ com[R(t).of].status # "none"
    OBVIOUS
  <2>1. R(t).of \in Unit /\ DB!Visible(t, R(t).of).status = "replaced"
    BY <1>1, <1>2 DEF WarrantySource
  <2>2. lock[R(t).of] # t
    BY <1>2, <2>1, RowFacts
  <2> QED BY <2>1, <2>2 DEF DB!Visible
<1>5. PICK x : x = [tx[t] EXCEPT !.loss = q, !.pc = "already"]
  OBVIOUS
<1>6. x \in TxState /\ tx' = [tx EXCEPT ![t] = x] /\ tx'[t] = x /\ x.pc = "already" /\ x.req = R(t) /\ x.claims = <<>>
      /\ x.loss = q
  BY <1>2, <1>3, <1>5 DEF TxState, Steps, R
<1>7. R(t)' = R(t) /\ tx'[t].pc = "already" /\ tx'[t].claims = <<>> /\ tx'[t].loss = q
  BY <1>6 DEF R
<1>8. Shape(t)' /\ Found(t)' /\ Inserted(t)' = 0 /\ \A p \in Shelf : Taken(t, p)' = 0
  BY <1>2, <1>3, <1>4, <1>7 DEF Shape, Found, Inserted, Taken, At
<1> QED BY <1>2, <1>6, <1>8, ReadStep DEF At

\* What was recovered already is read; the way it is made good decides the next statement.
LEMMA CheckRecoveredStep ==
  ASSUME ClaimsInv, NEW t \in Tx, CheckRecovered(t), ~Fail(t)
  PROVE  ClaimsInv'
<1>1. PICK s : s = CASE R(t).how = "replacement" -> "restock" [] R(t).how = "paid" -> "credit"
                     [] R(t).how = "written_off" -> "commit"
  OBVIOUS
<1>2. /\ At(t, "already") /\ R(t).op \in {"warranty", "damage"} /\ R(t) \in Request
      /\ tx' = [tx EXCEPT ![t].pc = s]
      /\ UNCHANGED <<com, cur, lock, nextUnit, sold, claims, recoveries, today>>
      /\ tx \in [Tx -> TxState] /\ tx[t] \in TxState /\ tx[t].claims = <<>> /\ Found(t)
  BY <1>1 DEF CheckRecovered, Goto, rowVars, books, ClaimsInv, Tables, Own, Shape, At
<1>3. \/ R(t).how = "replacement" /\ s = "restock"
      \/ R(t).how = "paid" /\ s = "credit"
      \/ R(t).how = "written_off" /\ s = "commit"
  BY <1>1, <1>2, ReqFacts
<1>4. PICK x : x = [tx[t] EXCEPT !.pc = s]
  OBVIOUS
<1>5. x \in TxState /\ tx' = [tx EXCEPT ![t] = x] /\ tx'[t] = x /\ x.pc = s /\ x.req = R(t) /\ x.claims = <<>>
      /\ x.loss = tx[t].loss
  BY <1>2, <1>3, <1>4 DEF TxState, Steps, R
<1>6. R(t)' = R(t) /\ tx'[t].pc = s /\ tx'[t].claims = <<>> /\ tx'[t].loss = tx[t].loss
  BY <1>5 DEF R
<1>7. Shape(t)'
  BY <1>2, <1>3, <1>6 DEF Shape, At
<1>8. Found(t)'
  BY <1>2, <1>3, <1>6 DEF Found, At
<1>9. Inserted(t)' = 0 /\ \A p \in Shelf : Taken(t, p)' = 0
  BY <1>2, <1>3, <1>6 DEF Inserted, Taken, At
<1> QED BY <1>2, <1>5, <1>7, <1>8, <1>9, ReadStep DEF At

-----------------------------------------------------------------------------
(***************************************************************************)
(* Steps that write one of the counts.                                     *)
(***************************************************************************)
\* A count of t's transaction is written, once it is known what the step has then taken from it.
LEMMA CountStep ==
  ASSUME ClaimsInv, NEW t \in Tx, NEW p \in Shelf, NEW v \in Int, DB!Write(t, p, v),
         NEW x \in TxState, tx' = [tx EXCEPT ![t] = x], UNCHANGED <<nextUnit, sold, claims, recoveries, today>>,
         x.pc \in {"unit", "commit"},
         Shape(t)', Found(t)', Inserted(t)' = Inserted(t),
         v = com[p] + Taken(t, p)',
         \A q \in Shelf \ {p} : CountOK(t, q)'
  PROVE  ClaimsInv'
<1>1. /\ tx' \in [Tx -> TxState] /\ tx'[t] = x /\ (\A u \in Tx \ {t} : tx'[u] = tx[u])
      /\ com \in [Row -> Value] /\ cur \in [Row -> Value] /\ lock \in [Row -> Tx \cup {NoTx}] /\ p \in Row
  BY RowFacts DEF ClaimsInv, Tables, RowsType
<1>2. /\ com' = com /\ lock[p] \in {t, NoTx} /\ lock' = [lock EXCEPT ![p] = t] /\ cur' = [cur EXCEPT ![p] = v]
  BY DEF DB!Write, DB!Available
<1>3. /\ cur'[p] = v /\ lock'[p] = t
      /\ \A r \in Row \ {p} : cur'[r] = cur[r] /\ lock'[r] = lock[r]
  BY <1>1, <1>2
<1>4. /\ \A r \in Serial : r \in Row \ {p}
      /\ \A r \in Unit : r \in Row \ {p}
      /\ \A q \in Shelf : q \in Row
  BY RowFacts
<1>5. RowsType(cur)'
  <2>1. cur' \in [Row -> Value]
    BY <1>1, <1>2 DEF Value
  <2> QED BY <1>3, <1>4, <2>1 DEF ClaimsInv, Tables, RowsType
<1>6. Tables'
  <2>1. lock' \in [Row -> Tx \cup {NoTx}]
    BY <1>1, <1>2
  <2>2. RowsType(com)'
    BY <1>2 DEF ClaimsInv, Tables, RowsType
  <2> QED BY <1>1, <1>5, <2>1, <2>2 DEF ClaimsInv, Tables
<1>7. IndexOK'
  <2>1. IndexOK
    BY DEF ClaimsInv
  <2>2. \A u \in Unit : Serialled(cur[u]) => cur[u].serial \in Serial
    BY DEF ClaimsInv, Tables, RowsType, UnitRow, Serialled
  <2>3. \A u \in Unit : cur'[u] = cur[u] /\ lock'[u] = lock[u] /\ com'[u] = com[u]
    BY <1>2, <1>3, <1>4
  <2>4. \A s \in Serial : cur'[s] = cur[s] /\ lock'[s] = lock[s] /\ com'[s] = com[s]
    BY <1>2, <1>3, <1>4
  <2> QED BY <1>2, <2>1, <2>2, <2>3, <2>4 DEF IndexOK
<1>8. RowsOK'
  <2>1. \A r \in Row : lock'[r] = NoTx => cur'[r] = com'[r]
    BY <1>2, <1>3, RowFacts DEF ClaimsInv, RowsOK
  <2> QED BY <1>2, <1>3, <1>4, <2>1 DEF ClaimsInv, RowsOK
<1>9. UnitsAccounted'
  BY <1>2, BooksSame DEF ClaimsInv
<1>10. ASSUME NEW u \in Tx \ {t} PROVE Own(u)'
  <2>1. \A r \in Row : lock[r] = u <=> lock'[r] = u
    BY <1>2, <1>3, RowFacts
  <2>2. \A r \in Row : lock[r] = u => cur'[r] = cur[r] /\ com'[r] = com[r]
    BY <1>2, <1>3, RowFacts
  <2>3. \A y \in Unit : com[y].status # "none" => com'[y].status # "none" /\ com'[y].serial = com[y].serial
                                                  /\ cur'[y].serial = com[y].serial
    BY <1>2, <1>3, <1>4 DEF ClaimsInv, RowsOK
  <2> QED BY <1>1, <2>1, <2>2, <2>3, OthersKept
<1>11. Own(t)'
  <2>1. New(t)' = New(t)
    BY <1>2, <1>3, <1>4 DEF New
  <2>2. Cardinality(New(t)') = Inserted(t)'
    BY <2>1 DEF ClaimsInv, Own
  <2>3. Bare(t)'
    BY <1>1 DEF Bare
  <2>4. CountOK(t, p)'
    BY <1>2, <1>3 DEF CountOK
  <2>5. \A q \in Shelf : CountOK(t, q)'
    BY <2>4
  <2> QED BY <2>2, <2>3, <2>5 DEF Own
<1> QED BY <1>6, <1>7, <1>8, <1>9, <1>10, <1>11 DEF ClaimsInv

\* A count that t's transaction has taken nothing from.
LEMMA Untouched ==
  ASSUME ClaimsInv, NEW t \in Tx, NEW q \in Shelf, Taken(t, q) = 0
  PROVE  /\ lock[q] = t => cur[q] = com[q]
         /\ lock[q] = NoTx => cur[q] = com[q]
         /\ com[q] \in Int /\ cur[q] \in Int
<1>1. CountOK(t, q) /\ com[q] \in Int /\ cur[q] \in Int /\ q \in Row
  BY RowFacts DEF ClaimsInv, Own, Tables, RowsType
<1>2. lock[q] = t => cur[q] = com[q]
  BY <1>1 DEF CountOK
<1> QED BY <1>1, <1>2 DEF ClaimsInv, RowsOK

\* A statement that takes or gives d of count p, the first thing it writes to a count.
LEMMA CountMove ==
  ASSUME ClaimsInv, NEW t \in Tx, tx[t].pc \in {"stock", "restock", "credit"},
         NEW p \in Shelf, NEW d \in Int, DB!Write(t, p, cur[p] + d),
         NEW s \in {"unit", "commit"}, tx' = [tx EXCEPT ![t].pc = s],
         UNCHANGED <<nextUnit, sold, claims, recoveries, today>>,
         s = "unit" => R(t).op = "sell",
         Shape(t)', Inserted(t)' = Inserted(t),
         Taken(t, p)' = d, \A k \in Shelf \ {p} : Taken(t, k)' = 0
  PROVE  ClaimsInv'
<1>1. tx \in [Tx -> TxState] /\ tx[t] \in TxState /\ Found(t)
  BY DEF ClaimsInv, Tables, Own
<1>2. \A k \in Shelf : Taken(t, k) = 0
  BY DEF Taken, At
<1>3. PICK x : x = [tx[t] EXCEPT !.pc = s]
  OBVIOUS
<1>4. x \in TxState /\ tx' = [tx EXCEPT ![t] = x] /\ tx'[t] = x /\ x.pc = s /\ x.req = R(t)
      /\ x.unit = tx[t].unit /\ x.loss = tx[t].loss
  BY <1>1, <1>3 DEF TxState, Steps, R
<1>5. R(t)' = R(t) /\ tx'[t].pc = s /\ tx'[t].unit = tx[t].unit /\ tx'[t].loss = tx[t].loss
  BY <1>4 DEF R
<1>6. com' = com /\ lock[p] \in {t, NoTx} /\ lock' = [lock EXCEPT ![p] = t] /\ cur' = [cur EXCEPT ![p] = cur[p] + d]
  BY DEF DB!Write, DB!Available
<1>7. Found(t)'
  <2>1. \A u \in Unit : u # p /\ u \in Row
    BY RowFacts
  <2>2. \A u \in Unit : cur'[u] = cur[u] /\ lock'[u] = lock[u] /\ com'[u] = com[u]
    BY <1>6, <2>1 DEF ClaimsInv, Tables, RowsType
  <2>3. tx[t].pc \in {"restock", "credit"} => R(t).op \in {"warranty", "damage"} /\ s = "commit"
    BY DEF ClaimsInv, Own, Shape
  <2>4. tx[t].pc = "stock" => R(t).op \in {"sell", "replace", "receipt"}
    BY DEF ClaimsInv, Own, Shape
  <2> QED BY <1>1, <1>5, <2>2, <2>3, <2>4 DEF Found
<1>8. cur[p] = com[p] /\ com[p] \in Int
  BY <1>2, <1>6, Untouched
<1>9. cur[p] + d = com[p] + Taken(t, p)' /\ cur[p] + d \in Int
  BY <1>8
<1>10. \A k \in Shelf \ {p} : CountOK(t, k)'
  <2> SUFFICES ASSUME NEW k \in Shelf \ {p} PROVE CountOK(t, k)'
    OBVIOUS
  <2>1. k \in Row /\ k # p
    BY RowFacts
  <2>2. cur'[k] = cur[k] /\ lock'[k] = lock[k] /\ com'[k] = com[k]
    BY <1>6, <2>1 DEF ClaimsInv, Tables, RowsType
  <2>3. lock[k] = t => cur[k] = com[k] + 0
    BY <1>2, Untouched
  <2> QED BY <2>2, <2>3 DEF CountOK
<1> QED BY <1>4, <1>7, <1>9, <1>10, CountStep

\* The guarded decrement: what is taken is on the sale, or is the one unit handed out.
LEMMA TakeUnitStep ==
  ASSUME ClaimsInv, NEW t \in Tx, TakeUnit(t), ~Fail(t)
  PROVE  ClaimsInv'
<1>1. PICK p, q, s : /\ p = IF R(t).op = "receipt" THEN Lamp ELSE Phone
                     /\ q = IF R(t).op = "sell" THEN Len(R(t).serials) ELSE 1
                     /\ s = IF R(t).op = "sell" THEN "unit" ELSE "commit"
  OBVIOUS
<1>2. /\ At(t, "stock") /\ R(t).op \in {"sell", "replace", "receipt"} /\ R(t) \in Request
      /\ DB!Write(t, p, cur[p] - q) /\ tx' = [tx EXCEPT ![t].pc = s]
      /\ UNCHANGED <<nextUnit, sold, claims, recoveries, today>>
      /\ tx \in [Tx -> TxState] /\ Shape(t) /\ tx[t].pc = "stock" /\ s \in {"unit", "commit"}
  BY <1>1 DEF TakeUnit, Goto, books, ClaimsInv, Tables, Own, Shape, At
<1>3. p \in Shelf /\ q \in Nat /\ p \in {Phone, Lamp}
  BY <1>1, <1>2, ReqFacts DEF Shelf
<1>4. R(t)' = R(t) /\ tx'[t].pc = s /\ tx'[t].claims = tx[t].claims /\ tx'[t].i = tx[t].i /\ tx'[t].unit = tx[t].unit
  BY <1>2 DEF R, TxState
<1>5. R(t).op = "sell" => tx[t].i = 1 /\ 1 \in 1 .. Len(R(t).serials)
  <2>1. R(t).op = "sell" => tx[t].i = 1 /\ Len(R(t).serials) \in Nat /\ Len(R(t).serials) > 0
    BY <1>2, ReqFacts DEF Shape, At
  <2>2. PICK n : n = Len(R(t).serials)
    OBVIOUS
  <2>3. n \in Nat /\ n > 0 => 1 \in 1 .. n
    OBVIOUS
  <2> QED BY <2>1, <2>2, <2>3
<1>6. Shape(t)'
  BY <1>1, <1>2, <1>4, <1>5 DEF Shape, At
<1>7. Inserted(t)' = Inserted(t)
  BY <1>1, <1>2, <1>4, <1>5 DEF Inserted, At
<1>8. Taken(t, p)' = -q /\ \A k \in Shelf \ {p} : Taken(t, k)' = 0
  BY <1>1, <1>2, <1>3, <1>4, RowFacts DEF Taken, At
<1>9. PICK d : d = -q
  OBVIOUS
<1>10. cur[p] \in Int
  BY <1>3, RowFacts DEF ClaimsInv, Tables, RowsType
<1>11. cur[p] - q = cur[p] + d /\ d \in Int
  BY <1>3, <1>9, <1>10
<1>12. DB!Write(t, p, cur[p] + d)
  BY <1>2, <1>11
<1>13. tx[t].pc \in {"stock", "restock", "credit"} /\ (s = "unit" => R(t).op = "sell")
  BY <1>1, <1>2
<1> QED BY <1>2, <1>3, <1>6, <1>7, <1>8, <1>9, <1>11, <1>12, <1>13, CountMove

\* The supplier replaced it: the product whose shelf is raised is the one the recovery will name.
LEMMA RestockStep ==
  ASSUME ClaimsInv, NEW t \in Tx, Restock(t)
  PROVE  ClaimsInv'
<1>1. PICK p, d : p = LossProduct(t) /\ d = tx[t].loss
  OBVIOUS
<1>2. /\ At(t, "restock") /\ R(t).op \in {"warranty", "damage"} /\ R(t).how = "replacement" /\ R(t) \in Request
      /\ DB!Write(t, p, cur[p] + d) /\ tx' = [tx EXCEPT ![t].pc = "commit"]
      /\ UNCHANGED <<nextUnit, sold, claims, recoveries, today>>
      /\ tx \in [Tx -> TxState] /\ Shape(t) /\ Found(t) /\ tx[t].pc = "restock"
  BY <1>1 DEF Restock, Goto, books, ClaimsInv, Tables, Own, Shape, At
<1>3. p \in {Phone, Lamp} /\ p \in Shelf /\ d \in Int /\ d \in Nat
  BY <1>1, <1>2, LossIs, TxFacts DEF Shelf, ClaimsInv
<1>4. R(t)' = R(t) /\ tx'[t].pc = "commit" /\ tx'[t].claims = tx[t].claims /\ tx'[t].loss = d
  BY <1>1, <1>2 DEF R, TxState
<1>5. LossProduct(t)' = p
  <2>1. CASE R(t).op = "damage"
    BY <1>1, <1>4, <2>1 DEF LossProduct
  <2>2. CASE R(t).op = "warranty"
    <3>1. PICK u : u = R(t).of
      OBVIOUS
    <3>2. u \in Unit /\ u \in Row /\ u # p
      BY <1>2, <1>3, <2>2, <3>1, RowFacts DEF Found
    <3>3. cur'[u] = cur[u] /\ com'[u] = com[u] /\ lock'[u] = lock[u]
      BY <1>2, <3>2 DEF DB!Write, ClaimsInv, Tables, RowsType
    <3>4. LossProduct(t)' = IF lock'[u] = t THEN Product(cur'[u]) ELSE Product(com'[u])
      BY <1>4, <2>2, <3>1 DEF LossProduct, DB!Visible
    <3>5. p = IF lock[u] = t THEN Product(cur[u]) ELSE Product(com[u])
      BY <1>1, <2>2, <3>1 DEF LossProduct, DB!Visible
    <3> QED BY <3>3, <3>4, <3>5
  <2> QED BY <1>2, <2>1, <2>2
<1>6. Shape(t)' /\ Inserted(t)' = Inserted(t)
  BY <1>2, <1>4 DEF Shape, Inserted, At
<1>7. Taken(t, p)' = d /\ \A k \in Shelf \ {p} : Taken(t, k)' = 0
  BY <1>2, <1>3, <1>4, <1>5, RowFacts DEF Taken, At
<1> QED BY <1>2, <1>3, <1>6, <1>7, CountMove

\* The supplier pays: the account falls by the quantity lost.
LEMMA CreditStep ==
  ASSUME ClaimsInv, NEW t \in Tx, CreditSupplier(t)
  PROVE  ClaimsInv'
<1>1. PICK d, n : n = tx[t].loss /\ d = -n
  OBVIOUS
<1>2. /\ At(t, "credit") /\ R(t).op \in {"warranty", "damage"} /\ R(t).how = "paid" /\ R(t) \in Request
      /\ DB!Write(t, Supplier, cur[Supplier] - n) /\ tx' = [tx EXCEPT ![t].pc = "commit"]
      /\ UNCHANGED <<nextUnit, sold, claims, recoveries, today>>
      /\ tx \in [Tx -> TxState] /\ Shape(t) /\ tx[t].pc = "credit"
  BY <1>1 DEF CreditSupplier, Goto, books, ClaimsInv, Tables, Own, Shape, At
<1>3. Supplier \in Shelf /\ n \in Nat /\ cur[Supplier] \in Int
  BY <1>1, TxFacts DEF Shelf, ClaimsInv, Tables, RowsType
<1>4. cur[Supplier] - n = cur[Supplier] + d /\ d \in Int
  BY <1>1, <1>3
<1>5. R(t)' = R(t) /\ tx'[t].pc = "commit" /\ tx'[t].claims = tx[t].claims /\ tx'[t].loss = n
  BY <1>1, <1>2 DEF R, TxState
<1>6. Shape(t)' /\ Inserted(t)' = Inserted(t)
  BY <1>2, <1>5 DEF Shape, Inserted, At
<1>7. Taken(t, Supplier)' = d /\ \A k \in Shelf \ {Supplier} : Taken(t, k)' = 0
  BY <1>1, <1>2, <1>5 DEF Taken, At
<1>8. DB!Write(t, Supplier, cur[Supplier] + d)
  BY <1>2, <1>4
<1> QED BY <1>2, <1>3, <1>4, <1>6, <1>7, <1>8, CountMove

-----------------------------------------------------------------------------
(***************************************************************************)
(* Units: inserted with the serial's entry, and retired.                   *)
(***************************************************************************)
\* Ids that are counted up are finitely many.
LEMMA UpToFinite == ASSUME NEW n \in Nat PROVE IsFiniteSet(1 .. n)
<1>1. 1 \in Int /\ n \in Int
  OBVIOUS
<1> QED BY <1>1, FS_Interval

\* There are finitely many units.
LEMMA UnitsFinite == ASSUME NEW S \in SUBSET Unit PROVE IsFiniteSet(S) /\ Cardinality(S) \in Nat
<1>1. MaxUnit \in Nat
  BY ClaimsAssumption
<1>2. IsFiniteSet(Unit)
  BY <1>1, UpToFinite DEF Unit
<1> QED BY <1>2, FS_Subset, FS_CardinalityType

\* What is inserted has a serial, unless it stands for a line without.
LEMMA NewUnitType ==
  ASSUME ClaimsInv, NEW t \in Tx, At(t, "unit")
  PROVE  /\ NewUnit(t) \in UnitRow /\ NewUnit(t).status = "active"
         /\ R(t).op = "receipt" => NewUnit(t).serial = NoSerial
         /\ R(t).op # "receipt" => NewUnit(t).serial \in Serial
         /\ R(t) \in Request /\ R(t).op \in {"sell", "replace", "receipt"}
<1>1. R(t) \in Request /\ R(t).op \in {"sell", "replace", "receipt"} /\ Shape(t)
  BY DEF ClaimsInv, Own, Shape, At
<1>2. Until(t) \in Nat
  <2>1. today \in Nat /\ Months \in Nat /\ tx[t].old.until \in Nat
    BY TxFacts, ClaimsAssumption DEF ClaimsInv, Tables, UnitRow
  <2> QED BY <1>1, <2>1 DEF Until
<1>3. R(t).op # "receipt" => R(t).serials[tx[t].i] \in Serial
  <2> SUFFICES ASSUME R(t).op # "receipt" PROVE R(t).serials[tx[t].i] \in Serial
    OBVIOUS
  <2>1. tx[t].i \in 1 .. Len(R(t).serials) /\ R(t).serials \in Seq(Serial)
    BY <1>1, ReqFacts DEF Shape, At
  <2> QED BY <2>1, ElementOfSeq
<1>4. PICK k : k = IF R(t).op = "receipt" THEN NoSerial ELSE R(t).serials[tx[t].i]
  OBVIOUS
<1>5. NewUnit(t) = [NoUnit EXCEPT !.status = "active", !.until = Until(t), !.serial = k] /\ k \in Serial \cup {NoSerial}
  BY <1>3, <1>4 DEF NewUnit
<1> QED BY <1>1, <1>2, <1>3, <1>4, <1>5, NoUnitRow DEF UnitRow

\* A unit is inserted with its serial's entry, both held from then on; the entry was nobody's.
LEMMA InsertUnitStep ==
  ASSUME ClaimsInv, NEW t \in Tx, InsertUnit(t), ~Fail(t)
  PROVE  ClaimsInv'
<1>1. PICK n, u, s, o : n = nextUnit /\ u = NewUnit(t) /\ s = NewUnit(t).serial /\ o = R(t).op
  OBVIOUS
<1>2. PICK mine, more : /\ mine = {n} \cup (IF s = NoSerial THEN {} ELSE {s})
                        /\ more = (o = "sell" /\ tx[t].i < Len(R(t).serials))
  OBVIOUS
<1>3. PICK j, c : /\ j = IF more THEN tx[t].i + 1 ELSE tx[t].i
                  /\ c = IF o # "sell" THEN "retire" ELSE IF more THEN "unit" ELSE "commit"
  OBVIOUS
<1>4. /\ At(t, "unit") /\ n \in Unit /\ \A r \in mine : DB!Available(t, r)
      /\ s = NoSerial \/ EntryFree(s)
      /\ lock' = [r \in Row |-> IF r \in mine THEN t ELSE lock[r]]
      /\ cur' = [r \in Row |-> CASE r = n -> u [] r = s -> n [] r \notin {n, s} -> cur[r]]
      /\ nextUnit' = n + 1
      /\ tx' = [tx EXCEPT ![t].i = j, ![t].unit = n, ![t].pc = c]
      /\ UNCHANGED <<com, sold, claims, recoveries, today>>
  <2>1. UNCHANGED <<com, books, today, served>>
    BY DEF InsertUnit
  <2>2. tx \in [Tx -> TxState]
    BY DEF ClaimsInv, Tables
  <2>3. tx' = [tx EXCEPT ![t].i = IF more THEN tx[t].i + 1 ELSE tx[t].i, ![t].unit = n, ![t].pc = c]
    BY <1>1, <1>2, <1>3, <2>2 DEF InsertUnit
  <2> QED BY <1>1, <1>2, <1>3, <2>1, <2>3 DEF InsertUnit, books
<1>5. /\ u \in UnitRow /\ u.status = "active" /\ u.serial = s /\ o \in {"sell", "replace", "receipt"}
      /\ o = "receipt" => s = NoSerial
      /\ o # "receipt" => s \in Serial
      /\ R(t) \in Request
  BY <1>1, <1>4, NewUnitType
<1>6. /\ n \in Row /\ n \notin Serial /\ n # s /\ n \notin Shelf /\ n \in Nat /\ NoSerial \notin Row
      /\ \A r \in Serial : r \in Row /\ r \notin Unit /\ r \notin Shelf
      /\ \A r \in Unit : r \in Row /\ r # s /\ r \in Nat
      /\ \A r \in Shelf : r \in Row /\ r # s /\ r # n
  BY <1>4, <1>5, RowFacts
<1>7. /\ cur'[n] = u /\ lock'[n] = t
      /\ s \in Serial => cur'[s] = n /\ lock'[s] = t
      /\ \A r \in Row \ {n, s} : cur'[r] = cur[r] /\ lock'[r] = lock[r]
  BY <1>2, <1>4, <1>6
<1>8. /\ com[n] = NoUnit /\ cur[n] = NoUnit
      /\ s \in Serial => cur[s] = Free /\ com[s] = Free
      /\ lock[n] \in {t, NoTx} /\ (s \in Serial => lock[s] \in {t, NoTx})
      /\ IndexOK /\ RowsOK /\ Tables
  <2>1. n >= nextUnit
    BY <1>1, <1>6
  <2>2. IndexOK /\ RowsOK /\ Tables
    BY DEF ClaimsInv
  <2>3. s \in Serial => cur[s] = Free
    BY <1>4, <1>6 DEF EntryFree
  <2>4. s \in Serial => com[s] = Free
    BY <2>2, <2>3 DEF IndexOK
  <2>5. lock[n] \in {t, NoTx} /\ (s \in Serial => lock[s] \in {t, NoTx})
    BY <1>2, <1>4, <1>6 DEF DB!Available
  <2> QED BY <1>4, <2>1, <2>2, <2>3, <2>4, <2>5 DEF RowsOK
<1>9. /\ tx' \in [Tx -> TxState] /\ (\A v \in Tx \ {t} : tx'[v] = tx[v])
      /\ tx'[t].pc = c /\ tx'[t].i = j /\ tx'[t].unit = n /\ tx'[t].req = R(t) /\ tx'[t].claims = tx[t].claims
      /\ R(t)' = R(t)
  <2>1. tx \in [Tx -> TxState] /\ tx[t] \in TxState /\ tx[t].i \in Nat
    BY <1>8, TxFacts DEF Tables
  <2>2. j \in Nat /\ c \in Steps /\ n \in Unit \cup {0}
    BY <1>3, <1>4, <2>1 DEF Steps
  <2>3. PICK x : x = [tx[t] EXCEPT !.i = j, !.unit = n, !.pc = c]
    OBVIOUS
  <2>4. x \in TxState /\ tx' = [tx EXCEPT ![t] = x]
    BY <1>4, <2>1, <2>2, <2>3 DEF TxState
  <2>5. x.pc = c /\ x.i = j /\ x.unit = n /\ x.req = tx[t].req /\ x.claims = tx[t].claims
    BY <2>1, <2>3 DEF TxState
  <2> QED BY <2>1, <2>4, <2>5 DEF R
<1>10. Tables'
  <2>1. cur' \in [Row -> Value]
    <3> SUFFICES ASSUME NEW r \in Row PROVE cur'[r] \in Value
      BY <1>4
    <3>1. cur[r] \in Value /\ u \in Value /\ n \in Value
      BY <1>5, <1>6, <1>8 DEF Tables, RowsType, Value
    <3> QED BY <1>5, <1>6, <1>7, <3>1
  <2>2. \A v \in Unit : cur'[v] \in UnitRow
    BY <1>5, <1>6, <1>7, <1>8 DEF Tables, RowsType
  <2>3. \A k \in Serial : cur'[k] \in Unit \cup {Free}
    BY <1>4, <1>6, <1>7, <1>8 DEF Tables, RowsType
  <2>4. \A p \in Shelf : cur'[p] \in Int
    BY <1>6, <1>7, <1>8 DEF Tables, RowsType
  <2>5. RowsType(cur)'
    BY <2>1, <2>2, <2>3, <2>4 DEF RowsType
  <2>6. lock' \in [Row -> Tx \cup {NoTx}]
    BY <1>4, <1>8 DEF Tables
  <2>7. RowsType(com)'
    BY <1>4, <1>8 DEF Tables, RowsType
  <2>8. nextUnit' \in Nat /\ nextUnit' > 0
    BY <1>4, <1>6
  <2> QED BY <1>4, <1>8, <1>9, <2>5, <2>6, <2>7, <2>8 DEF Tables
<1>11. IndexOK'
  <2>1. ASSUME NEW v \in Unit, Serialled(cur'[v])
        PROVE  cur'[cur'[v].serial] = v /\ (lock'[cur'[v].serial] = lock'[v] \/ com'[cur'[v].serial] = v)
    <3>1. CASE v = n
      <4>1. s \in Serial
        BY <1>5, <1>7, <2>1, <3>1 DEF Serialled
      <4> QED BY <1>5, <1>7, <3>1, <4>1
    <3>2. CASE v # n
      <4>1. cur'[v] = cur[v] /\ lock'[v] = lock[v]
        BY <1>6, <1>7, <3>2
      <4>2. PICK k : k = cur[v].serial
        OBVIOUS
      <4>3. k \in Serial /\ cur[k] = v /\ (lock[k] = lock[v] \/ com[k] = v)
        BY <1>8, <2>1, <4>1, <4>2 DEF IndexOK, Serialled, Tables, RowsType, UnitRow
      <4>4. k # s
        BY <1>8, <4>3, RowFacts
      <4>5. k \in Row \ {n, s}
        BY <1>6, <4>3, <4>4
      <4> QED BY <1>4, <1>7, <4>1, <4>2, <4>3, <4>5
    <3> QED BY <3>1, <3>2
  <2>2. \A v \in Unit : Serialled(com'[v]) => com'[com'[v].serial] = v
    BY <1>4, <1>8 DEF IndexOK
  <2>3. \A k \in Serial : com'[k] # Free => cur'[k] = com'[k]
    BY <1>4, <1>6, <1>7, <1>8 DEF IndexOK
  <2> QED BY <2>1, <2>2, <2>3 DEF IndexOK
<1>12. RowsOK'
  <2>1. \A r \in Row : lock'[r] = NoTx => cur'[r] = com'[r]
    BY <1>4, <1>5, <1>6, <1>7, <1>8, RowFacts DEF RowsOK
  <2>2. \A v \in Unit : com'[v].status # "none" => cur'[v].status # "none" /\ cur'[v].serial = com'[v].serial
    BY <1>4, <1>6, <1>7, <1>8, NoUnitRow DEF RowsOK
  <2>3. ASSUME NEW v \in Unit, v >= nextUnit' PROVE com'[v] = NoUnit /\ cur'[v] = NoUnit
    <3>1. v # n /\ v >= nextUnit
      BY <1>1, <1>4, <1>6, <2>3
    <3> QED BY <1>4, <1>6, <1>7, <1>8, <3>1 DEF RowsOK
  <2> QED BY <2>1, <2>2, <2>3 DEF RowsOK
<1>13. UnitsAccounted'
  BY <1>4, BooksSame DEF ClaimsInv
<1>14. ASSUME NEW v \in Tx \ {t} PROVE Own(v)'
  <2>1. \A r \in Row : (lock[r] = v <=> lock'[r] = v) /\ (lock[r] = v => cur'[r] = cur[r] /\ com'[r] = com[r])
    BY <1>4, <1>5, <1>6, <1>7, <1>8, RowFacts
  <2>2. \A y \in Unit : com[y].status # "none" => com'[y].status # "none" /\ com'[y].serial = com[y].serial
                                                  /\ cur'[y].serial = com[y].serial
    BY <1>4, <1>6, <1>7, <1>8, NoUnitRow DEF RowsOK
  <2> QED BY <1>9, <2>1, <2>2, OthersKept
<1>15. /\ Shape(t) /\ Found(t) /\ (\A p \in Shelf : CountOK(t, p)) /\ Cardinality(New(t)) = Inserted(t)
       /\ tx[t].pc = "unit" /\ tx[t].claims = <<>>
  BY <1>4 DEF ClaimsInv, Own, At, Shape
<1>16. o \in {"sell", "replace"} => tx[t].i \in 1 .. Len(R(t).serials) /\ Len(R(t).serials) \in Nat
  <2>1. Len(R(t).serials) \in Nat
    BY <1>5, ReqFacts
  <2> QED BY <1>1, <1>5, <1>15, <2>1 DEF Shape
<1>17. Shape(t)'
  <2>1. c = "unit" => j \in 1 .. Len(R(t).serials) /\ o = "sell"
    <3>1. PICK i, m : i = tx[t].i /\ m = Len(R(t).serials)
      OBVIOUS
    <3>2. c = "unit" => o = "sell" /\ i < m /\ j = i + 1
      BY <1>2, <1>3, <3>1
    <3>3. i \in 1 .. m /\ m \in Nat /\ i < m => i + 1 \in 1 .. m
      OBVIOUS
    <3> QED BY <1>16, <3>1, <3>2, <3>3
  <2>2. c \in {"unit", "retire", "commit"} /\ (c = "retire" <=> o # "sell")
    BY <1>3
  <2> QED BY <1>1, <1>5, <1>9, <1>15, <2>1, <2>2 DEF Shape, At
<1>18. Found(t)'
  <2>1. c \in {"unit", "retire", "commit"} /\ (c = "retire" <=> o # "sell")
    BY <1>3
  <2> QED BY <1>1, <1>4, <1>5, <1>7, <1>8, <1>9, <1>15, <2>1, NoUnitRow DEF Found
<1>19. \A p \in Shelf : CountOK(t, p)'
  <2> SUFFICES ASSUME NEW p \in Shelf PROVE CountOK(t, p)'
    OBVIOUS
  <2>1. Taken(t, p)' = Taken(t, p)
    BY <1>1, <1>3, <1>5, <1>9, <1>15 DEF Taken, At
  <2> QED BY <1>4, <1>6, <1>7, <1>15, <2>1 DEF CountOK
<1>20. Bare(t)'
  BY <1>3, <1>9 DEF Bare
<1>21. Cardinality(New(t))' = Inserted(t)'
  <2>1. n \notin New(t) /\ IsFiniteSet(New(t))
    BY <1>8, NoUnitRow, UnitsFinite DEF New, Serialled
  <2>2. New(t)' = IF o = "receipt" THEN New(t) ELSE New(t) \cup {n}
    BY <1>4, <1>5, <1>6, <1>7, <1>8, NoUnitRow DEF New, Serialled
  <2>3. Inserted(t)' = IF o = "receipt" THEN Inserted(t) ELSE Inserted(t) + 1
    <3>1. PICK i, m : i = tx[t].i /\ m = Len(R(t).serials)
      OBVIOUS
    <3>2. CASE o = "receipt"
      BY <1>1, <1>3, <1>9, <1>15, <3>2 DEF Inserted, At
    <3>3. CASE o = "replace"
      BY <1>1, <1>3, <1>9, <1>15, <3>3 DEF Inserted, At
    <3>4. CASE o = "sell"
      <4>1. Inserted(t) = i - 1 /\ i \in 1 .. m /\ m \in Nat
        BY <1>1, <1>15, <1>16, <3>1, <3>4 DEF Inserted, At
      <4>2. CASE i < m
        <5>1. c = "unit" /\ j = i + 1
          BY <1>2, <1>3, <3>1, <3>4, <4>2
        <5>2. Inserted(t)' = (i + 1) - 1
          BY <1>1, <1>9, <3>4, <5>1 DEF Inserted, At
        <5> QED BY <3>4, <4>1, <5>2
      <4>3. CASE ~(i < m)
        <5>1. c = "commit"
          BY <1>2, <1>3, <3>1, <3>4, <4>3
        <5>2. Inserted(t)' = m
          BY <1>1, <1>9, <3>1, <3>4, <5>1 DEF Inserted, At
        <5> QED BY <3>4, <4>1, <4>3, <5>2
      <4> QED BY <4>2, <4>3
    <3> QED BY <1>5, <3>2, <3>3, <3>4
  <2>4. Cardinality(New(t) \cup {n}) = Cardinality(New(t)) + 1
    BY <2>1, FS_AddElement
  <2> QED BY <1>15, <2>2, <2>3, <2>4
<1>22. Own(t)'
  BY <1>17, <1>18, <1>19, <1>20, <1>21 DEF Own
<1> QED BY <1>10, <1>11, <1>12, <1>13, <1>14, <1>22 DEF ClaimsInv

\* A unit that is retired keeps its serial, and is on record already.
LEMMA RetireStep ==
  ASSUME ClaimsInv, NEW t \in Tx, Retire(t)
  PROVE  ClaimsInv'
<1>1. PICK o, n, u : o = R(t).op /\ n = tx[t].unit /\ u = IF o = "replace" THEN R(t).of ELSE n
  OBVIOUS
<1>2. PICK w, c : /\ w = [cur[u] EXCEPT !.status = "replaced", !.by = IF o = "replace" THEN n ELSE 0]
                  /\ c = [unit |-> u, product |-> IF o = "replace" THEN Phone ELSE Lamp]
  OBVIOUS
<1>3. /\ At(t, "retire") /\ tx[t].pc = "retire" /\ DB!Write(t, u, w)
      /\ tx' = [tx EXCEPT ![t].pc = "stock", ![t].claims = <<c>>]
      /\ UNCHANGED <<nextUnit, sold, claims, recoveries, today>>
      /\ tx \in [Tx -> TxState] /\ tx[t] \in TxState /\ n \in Unit \cup {0}
      /\ Shape(t) /\ Found(t) /\ R(t) \in Request /\ o \in {"replace", "receipt"}
      /\ IndexOK /\ RowsOK /\ Tables
  BY <1>1, <1>2, TxFacts DEF Retire, At, books, ClaimsInv, Tables, Own, Shape
<1>4. u \in Unit /\ cur[u].status # "none" /\ cur[u] \in UnitRow
  <2>1. CASE o = "replace"
    BY <1>1, <1>3, <2>1 DEF Found, RowsOK, Tables, RowsType
  <2>2. CASE o = "receipt"
    BY <1>1, <1>3, <2>2 DEF Found, RowsOK, Tables, RowsType
  <2> QED BY <1>3, <2>1, <2>2
<1>5. w \in UnitRow /\ w.status = "replaced" /\ w.serial = cur[u].serial
  BY <1>2, <1>3, <1>4 DEF UnitRow
<1>6. /\ u \in Row /\ u \notin Serial /\ u \notin Shelf
      /\ \A r \in Serial : r \in Row /\ r # u
      /\ \A r \in Shelf : r \in Row /\ r # u
      /\ Unit \subseteq Row
  BY <1>4, RowFacts
<1>7. com' = com /\ lock[u] \in {t, NoTx} /\ lock' = [lock EXCEPT ![u] = t] /\ cur' = [cur EXCEPT ![u] = w]
  BY <1>3 DEF DB!Write, DB!Available
<1>8. /\ cur'[u] = w /\ lock'[u] = t
      /\ \A r \in Row \ {u} : cur'[r] = cur[r] /\ lock'[r] = lock[r]
  BY <1>3, <1>6, <1>7 DEF Tables, RowsType
<1>9. /\ tx' \in [Tx -> TxState] /\ (\A v \in Tx \ {t} : tx'[v] = tx[v])
      /\ tx'[t].pc = "stock" /\ tx'[t].unit = n /\ tx'[t].i = tx[t].i /\ tx'[t].claims = <<c>> /\ R(t)' = R(t)
  <2>1. c \in Claim
    BY <1>2, <1>4 DEF Claim
  <2>2. <<c>> \in {<<>>} \cup {<<d>> : d \in Claim}
    BY <2>1
  <2>3. PICK x : x = [tx[t] EXCEPT !.pc = "stock", !.claims = <<c>>]
    OBVIOUS
  <2>4. x \in TxState /\ tx' = [tx EXCEPT ![t] = x]
    BY <1>3, <2>2, <2>3 DEF TxState, Steps
  <2>5. x.pc = "stock" /\ x.unit = tx[t].unit /\ x.i = tx[t].i /\ x.req = tx[t].req /\ x.claims = <<c>>
    BY <1>3, <2>3 DEF TxState
  <2> QED BY <1>1, <1>3, <2>4, <2>5 DEF R
<1>10. Tables'
  <2>1. cur' \in [Row -> Value]
    BY <1>3, <1>5, <1>7 DEF Tables, RowsType, Value
  <2>2. RowsType(cur)'
    BY <1>3, <1>5, <1>6, <1>8, <2>1 DEF Tables, RowsType
  <2>3. RowsType(com)' /\ lock' \in [Row -> Tx \cup {NoTx}]
    BY <1>3, <1>7 DEF Tables, RowsType
  <2> QED BY <1>3, <1>9, <2>2, <2>3 DEF Tables
<1>11. \A v \in Unit : Serialled(cur'[v]) => Serialled(cur[v]) /\ cur'[v].serial = cur[v].serial
  BY <1>4, <1>5, <1>6, <1>8 DEF Serialled
<1>12. IndexOK'
  <2>1. ASSUME NEW v \in Unit, Serialled(cur'[v])
        PROVE  cur'[cur'[v].serial] = v /\ (lock'[cur'[v].serial] = lock'[v] \/ com'[cur'[v].serial] = v)
    <3>1. PICK k : k = cur[v].serial
      OBVIOUS
    <3>2. /\ cur'[v].serial = k /\ k \in Serial /\ k \in Row /\ k # u
          /\ cur[k] = v /\ (lock[k] = lock[v] \/ com[k] = v)
      BY <1>3, <1>6, <1>11, <2>1, <3>1 DEF IndexOK, Serialled, Tables, RowsType, UnitRow
    <3>3. lock[v] = NoTx /\ lock[k] = NoTx => com[k] = v
      BY <1>3, <3>2 DEF RowsOK
    <3>4. CASE v = u
      BY <1>7, <1>8, <3>2, <3>3, <3>4
    <3>5. CASE v # u
      BY <1>6, <1>7, <1>8, <3>2, <3>5
    <3> QED BY <3>4, <3>5
  <2>2. \A v \in Unit : Serialled(com'[v]) => com'[com'[v].serial] = v
    BY <1>3, <1>7 DEF IndexOK
  <2>3. \A k \in Serial : com'[k] # Free => cur'[k] = com'[k]
    BY <1>3, <1>6, <1>7, <1>8 DEF IndexOK
  <2> QED BY <2>1, <2>2, <2>3 DEF IndexOK
<1>13. RowsOK'
  <2>1. \A r \in Row : lock'[r] = NoTx => cur'[r] = com'[r]
    BY <1>3, <1>7, <1>8, RowFacts DEF RowsOK
  <2>2. \A v \in Unit : com'[v].status # "none" => cur'[v].status # "none" /\ cur'[v].serial = com'[v].serial
    BY <1>3, <1>5, <1>6, <1>7, <1>8 DEF RowsOK
  <2>3. \A v \in Unit : v >= nextUnit' => com'[v] = NoUnit /\ cur'[v] = NoUnit
    BY <1>3, <1>4, <1>6, <1>7, <1>8, NoUnitRow DEF RowsOK
  <2> QED BY <2>1, <2>2, <2>3 DEF RowsOK
<1>14. UnitsAccounted'
  BY <1>3, <1>7, BooksSame DEF ClaimsInv
<1>15. ASSUME NEW v \in Tx \ {t} PROVE Own(v)'
  <2>1. \A r \in Row : (lock[r] = v <=> lock'[r] = v) /\ (lock[r] = v => cur'[r] = cur[r] /\ com'[r] = com[r])
    BY <1>7, <1>8, RowFacts
  <2>2. \A y \in Unit : com[y].status # "none" => com'[y].status # "none" /\ com'[y].serial = com[y].serial
                                                  /\ cur'[y].serial = com[y].serial
    BY <1>3, <1>5, <1>6, <1>7, <1>8 DEF RowsOK
  <2> QED BY <1>9, <2>1, <2>2, OthersKept
<1>16. (\A p \in Shelf : CountOK(t, p)) /\ Cardinality(New(t)) = Inserted(t)
  BY DEF ClaimsInv, Own
<1>17. Shape(t)'
  BY <1>1, <1>2, <1>3, <1>9 DEF Shape, At
<1>18. Found(t)'
  <2>1. CASE o = "replace"
    BY <1>1, <1>3, <1>7, <1>9, <2>1 DEF Found
  <2>2. CASE o = "receipt"
    BY <1>1, <1>3, <1>5, <1>7, <1>8, <1>9, <2>2 DEF Found
  <2> QED BY <1>3, <2>1, <2>2
<1>19. \A p \in Shelf : CountOK(t, p)'
  <2> SUFFICES ASSUME NEW p \in Shelf PROVE CountOK(t, p)'
    OBVIOUS
  <2>1. Taken(t, p)' = Taken(t, p)
    BY <1>3, <1>9 DEF Taken, At
  <2> QED BY <1>6, <1>7, <1>8, <1>16, <2>1 DEF CountOK
<1>20. Bare(t)'
  BY <1>9 DEF Bare
<1>21. Cardinality(New(t))' = Inserted(t)'
  <2>1. Inserted(t)' = Inserted(t)
    BY <1>1, <1>3, <1>9 DEF Inserted, At
  <2>2. u \notin New(t) /\ u \notin New(t)'
    <3>1. CASE o = "replace"
      BY <1>1, <1>3, <1>7, <3>1 DEF Found, New
    <3>2. CASE o = "receipt"
      BY <1>1, <1>3, <1>5, <1>8, <3>2 DEF Found, New, Serialled
    <3> QED BY <1>3, <3>1, <3>2
  <2>3. \A v \in Unit \ {u} : v \in New(t)' <=> v \in New(t)
    BY <1>6, <1>7, <1>8 DEF New
  <2>4. New(t)' = New(t)
    BY <2>2, <2>3 DEF New
  <2> QED BY <1>16, <2>1, <2>4
<1>22. Own(t)'
  BY <1>17, <1>18, <1>19, <1>20, <1>21 DEF Own
<1> QED BY <1>10, <1>12, <1>13, <1>14, <1>15, <1>22 DEF ClaimsInv

-----------------------------------------------------------------------------
(***************************************************************************)
(* A transaction ends: its rows are released, written or undone.           *)
(***************************************************************************)
\* Rolled back: each row held is again what it was, so every entry still names its unit.
LEMMA FailStep ==
  ASSUME ClaimsInv, NEW t \in Tx, Fail(t)
  PROVE  ClaimsInv'
<1>1. /\ com' = com /\ cur' = [r \in Row |-> IF lock[r] = t THEN com[r] ELSE cur[r]]
      /\ lock' = [r \in Row |-> IF lock[r] = t THEN NoTx ELSE lock[r]]
      /\ tx' = [tx EXCEPT ![t] = Idle] /\ UNCHANGED <<nextUnit, sold, claims, recoveries, today>>
      /\ IndexOK /\ RowsOK /\ Tables
  BY DEF Fail, DB!Rollback, DB!Release, books, ClaimsInv
<1>2. \A r \in Row : /\ cur'[r] = IF lock[r] = t THEN com[r] ELSE cur[r]
                     /\ lock'[r] = IF lock[r] = t THEN NoTx ELSE lock[r]
  BY <1>1
<1>3. Unit \subseteq Row /\ Serial \subseteq Row /\ Shelf \subseteq Row /\ NoTx \notin Tx
  BY RowFacts
<1>4. tx' \in [Tx -> TxState] /\ tx'[t] = Idle /\ \A v \in Tx \ {t} : tx'[v] = tx[v]
  BY <1>1, IdleState DEF Tables
<1>5. Tables'
  <2>1. cur' \in [Row -> Value]
    BY <1>1 DEF Tables, RowsType
  <2>2. RowsType(cur)'
    BY <1>1, <1>2, <1>3, <2>1 DEF Tables, RowsType
  <2>3. RowsType(com)' /\ lock' \in [Row -> Tx \cup {NoTx}]
    BY <1>1 DEF Tables, RowsType
  <2> QED BY <1>1, <1>4, <2>2, <2>3 DEF Tables
<1>6. IndexOK'
  <2>1. ASSUME NEW v \in Unit, Serialled(cur'[v])
        PROVE  cur'[cur'[v].serial] = v /\ (lock'[cur'[v].serial] = lock'[v] \/ com'[cur'[v].serial] = v)
    <3>1. CASE lock[v] = t
      <4>1. PICK k : k = com[v].serial
        OBVIOUS
      <4>2. cur'[v] = com[v] /\ Serialled(com[v]) /\ com[v] \in UnitRow
        BY <1>1, <1>2, <1>3, <2>1, <3>1 DEF Tables, RowsType
      <4>3. k \in Serial /\ k \in Row
        BY <1>3, <4>1, <4>2 DEF Serialled, UnitRow
      <4>4. com[k] = v
        BY <1>1, <4>1, <4>2 DEF IndexOK
      <4>5. cur[k] = v
        BY <1>1, <4>3, <4>4, RowFacts DEF IndexOK
      <4> QED BY <1>1, <1>2, <4>1, <4>2, <4>3, <4>4, <4>5
    <3>2. CASE lock[v] # t
      <4>1. PICK k : k = cur[v].serial
        OBVIOUS
      <4>2. /\ cur'[v] = cur[v] /\ k \in Serial /\ k \in Row /\ cur[k] = v
            /\ (lock[k] = lock[v] \/ com[k] = v) /\ lock'[v] = lock[v]
        BY <1>1, <1>2, <1>3, <2>1, <3>2, <4>1 DEF IndexOK, Serialled, Tables, RowsType, UnitRow
      <4> QED BY <1>1, <1>2, <3>2, <4>1, <4>2
    <3> QED BY <3>1, <3>2
  <2>2. \A v \in Unit : Serialled(com'[v]) => com'[com'[v].serial] = v
    BY <1>1 DEF IndexOK
  <2>3. \A k \in Serial : com'[k] # Free => cur'[k] = com'[k]
    BY <1>1, <1>2, <1>3 DEF IndexOK
  <2> QED BY <2>1, <2>2, <2>3 DEF IndexOK
<1>7. RowsOK'
  BY <1>1, <1>2, <1>3 DEF RowsOK
<1>8. UnitsAccounted'
  BY <1>1, BooksSame DEF ClaimsInv
<1>9. ASSUME NEW v \in Tx \ {t} PROVE Own(v)'
  <2>1. \A r \in Row : (lock[r] = v <=> lock'[r] = v) /\ (lock[r] = v => cur'[r] = cur[r] /\ com'[r] = com[r])
    BY <1>1, <1>2, <1>3
  <2>2. \A y \in Unit : com[y].status # "none" => com'[y].status # "none" /\ com'[y].serial = com[y].serial
                                                  /\ cur'[y].serial = com[y].serial
    BY <1>1, <1>2, <1>3 DEF RowsOK
  <2> QED BY <1>4, <2>1, <2>2, OthersKept
<1>10. Own(t)'
  <2>1. \A r \in Row : lock'[r] # t
    BY <1>2, <1>3
  <2> QED BY <1>4, <2>1, IdleOwn
<1> QED BY <1>5, <1>6, <1>7, <1>8, <1>9, <1>10 DEF ClaimsInv

\* One more claim hands out one more unit of its product.
LEMMA HandedMore ==
  ASSUME claims \in Seq(Claim), NEW c \in Claim, claims' = Append(claims, c), NEW p
  PROVE  /\ Handed(p) \in Nat
         /\ Handed(p)' = IF c.product = p THEN Handed(p) + 1 ELSE Handed(p)
<1> DEFINE H == {i \in DOMAIN claims : claims[i].product = p}
           n == Len(claims)
<1>1. /\ n \in Nat /\ DOMAIN claims = 1 .. n /\ DOMAIN (claims') = 1 .. n + 1
      /\ \A i \in 1 .. n : claims'[i] = claims[i]
      /\ claims'[n + 1] = c
  BY LenProperties, AppendProperties
<1>2. IsFiniteSet(H) /\ n + 1 \notin H
  <2>1. IsFiniteSet(1 .. n)
    BY <1>1, UpToFinite
  <2>2. H \subseteq 1 .. n
    BY <1>1
  <2> QED BY <1>1, <2>1, <2>2, FS_Subset
<1>3. Handed(p)' = Cardinality(IF c.product = p THEN H \cup {n + 1} ELSE H)
  <2>1. {i \in DOMAIN (claims') : claims'[i].product = p} = IF c.product = p THEN H \cup {n + 1} ELSE H
    <3>1. DOMAIN (claims') = (1 .. n) \cup {n + 1}
      BY <1>1
    <3> QED BY <1>1, <3>1
  <2> QED BY <2>1 DEF Handed
<1>4. Cardinality(H) \in Nat /\ Cardinality(H \cup {n + 1}) = Cardinality(H) + 1
  BY <1>2, FS_AddElement, FS_CardinalityType
<1> QED BY <1>3, <1>4 DEF Handed

\* Another recovery adds its quantity to what sums it.
LEMMA QuantityMore ==
  ASSUME recoveries \in Seq(Recovery), NEW r \in Recovery, recoveries' = Append(recoveries, r),
         NEW H \in SUBSET DOMAIN recoveries, NEW m, m = Len(recoveries) + 1
  PROVE  /\ SumFunctionOnSet(Quantity, H) \in Int
         /\ SumFunctionOnSet(Quantity', H) = SumFunctionOnSet(Quantity, H)
         /\ SumFunctionOnSet(Quantity', H \cup {m}) = SumFunctionOnSet(Quantity, H) + r.qty
<1>1. /\ Len(recoveries) \in Nat /\ DOMAIN recoveries = 1 .. Len(recoveries)
      /\ DOMAIN (recoveries') = 1 .. m /\ m \in Nat /\ m \notin DOMAIN recoveries
      /\ \A i \in DOMAIN recoveries : i \in 1 .. m /\ recoveries'[i] = recoveries[i] /\ recoveries[i] \in Recovery
      /\ m \in 1 .. m /\ recoveries'[m] = r
  BY LenProperties, AppendProperties, ElementOfSeq
<1>2. PICK g : g = [i \in DOMAIN (recoveries') |-> recoveries'[i].qty]
  OBVIOUS
<1>3. Quantity' = g
  BY <1>2 DEF Quantity
<1>4. IsFiniteSet(H) /\ m \notin H
  BY <1>1, UpToFinite, FS_Subset
<1>5. /\ g[m] = r.qty /\ r.qty \in Int
      /\ \A i \in H : g[i] = Quantity[i] /\ g[i] \in Int /\ Quantity[i] \in Int
  BY <1>1, <1>2 DEF Quantity, Recovery
<1>6. SumFunctionOnSet(g, H) = SumFunctionOnSet(Quantity, H) /\ SumFunctionOnSet(Quantity, H) \in Int
  BY <1>4, <1>5, SumSame, SumInt
<1>7. SumFunctionOnSet(g, H \cup {m}) = SumFunctionOnSet(g, H) + r.qty
  BY <1>4, <1>5, SumAdd
<1> QED BY <1>3, <1>6, <1>7

\* One more recovery is worth its quantity, to its own product, and the way it was made.
LEMMA PaidMore ==
  ASSUME recoveries \in Seq(Recovery), NEW r \in Recovery, recoveries' = Append(recoveries, r), NEW how, NEW p
  PROVE  /\ Paid(how, p) \in Int
         /\ Paid(how, p)' = IF r.how = how /\ r.product = p THEN Paid(how, p) + r.qty ELSE Paid(how, p)
<1> DEFINE H == {i \in DOMAIN recoveries : recoveries[i].how = how /\ recoveries[i].product = p}
<1>1. PICK m : m = Len(recoveries) + 1
  OBVIOUS
<1>2. /\ DOMAIN (recoveries') = DOMAIN recoveries \cup {m} /\ m \notin DOMAIN recoveries
      /\ \A i \in DOMAIN recoveries : recoveries'[i] = recoveries[i]
      /\ recoveries'[m] = r
  BY <1>1, LenProperties, AppendProperties
<1>3. {i \in DOMAIN (recoveries') : recoveries'[i].how = how /\ recoveries'[i].product = p}
        = IF r.how = how /\ r.product = p THEN H \cup {m} ELSE H
  BY <1>2
<1>4. H \in SUBSET DOMAIN recoveries
  OBVIOUS
<1>5. /\ SumFunctionOnSet(Quantity, H) \in Int
      /\ SumFunctionOnSet(Quantity', H) = SumFunctionOnSet(Quantity, H)
      /\ SumFunctionOnSet(Quantity', H \cup {m}) = SumFunctionOnSet(Quantity, H) + r.qty
  BY <1>1, <1>4, QuantityMore
<1>6. Paid(how, p)' = SumFunctionOnSet(Quantity', IF r.how = how /\ r.product = p THEN H \cup {m} ELSE H)
  BY <1>3 DEF Paid
<1>7. Paid(how, p) = SumFunctionOnSet(Quantity, H)
  BY DEF Paid
<1> QED BY <1>5, <1>6, <1>7

\* What a commit adds to the rows of t's transaction.
LEMMA CommitRows ==
  ASSUME ClaimsInv, NEW t \in Tx, Commit(t)
  PROVE  /\ \A r \in Row : /\ com'[r] = IF lock[r] = t THEN cur[r] ELSE com[r]
                           /\ lock'[r] = IF lock[r] = t THEN NoTx ELSE lock[r]
         /\ cur' = cur
         /\ \A p \in Shelf : com'[p] = com[p] + Taken(t, p)
         /\ Cardinality({u \in Issued : com[u].serial # NoSerial})'
              = Cardinality({u \in Issued : com[u].serial # NoSerial}) + Inserted(t)
<1> DEFINE S == {u \in Issued : com[u].serial # NoSerial}
<1>1. /\ \A r \in Row : /\ com'[r] = IF lock[r] = t THEN cur[r] ELSE com[r]
                        /\ lock'[r] = IF lock[r] = t THEN NoTx ELSE lock[r]
      /\ cur' = cur
  BY DEF Commit, DB!Commit, DB!Release, DB!Visible
<1>2. Unit \subseteq Row /\ Shelf \subseteq Row
  BY RowFacts
<1>3. ASSUME NEW p \in Shelf PROVE com'[p] = com[p] + Taken(t, p)
  <2>1. CountOK(t, p) /\ com[p] \in Int
    BY DEF ClaimsInv, Own, Tables, RowsType
  <2>2. CASE lock[p] = t
    BY <1>1, <1>2, <2>1, <2>2 DEF CountOK
  <2>3. CASE lock[p] # t
    BY <1>1, <1>2, <2>1, <2>3 DEF CountOK
  <2> QED BY <2>2, <2>3
<1>4. S = {u \in Unit : Serialled(com[u])} /\ S' = {u \in Unit : Serialled(com'[u])}
  BY DEF Issued, Serialled
<1>5. {u \in Unit : Serialled(com'[u])} = {u \in Unit : Serialled(com[u])} \cup New(t)
  <2>1. \A u \in Unit : com[u].status # "none" => cur[u].status # "none" /\ cur[u].serial = com[u].serial
    BY DEF ClaimsInv, RowsOK
  <2> QED BY <1>1, <1>2, <2>1 DEF New, Serialled
<1>6. {u \in Unit : Serialled(com[u])} \cap New(t) = {}
  BY DEF New, Serialled
<1>7. S \in SUBSET Unit /\ New(t) \in SUBSET Unit
  BY <1>4 DEF New
<1>8. Cardinality(S') = Cardinality(S \cup New(t)) /\ S \cap New(t) = {}
  BY <1>4, <1>5, <1>6
<1>9. Cardinality(S \cup New(t)) = Cardinality(S) + Cardinality(New(t))
  <2>1. Cardinality(S \cup New(t)) = Cardinality(S) + Cardinality(New(t)) - Cardinality(S \cap New(t))
    BY <1>7, UnitsFinite, FS_Union
  <2>2. Cardinality(S \cap New(t)) = 0
    BY <1>8, FS_EmptySet
  <2>3. Cardinality(S) \in Nat /\ Cardinality(New(t)) \in Nat
    BY <1>7, UnitsFinite
  <2> QED BY <2>1, <2>2, <2>3
<1>10. Cardinality(New(t)) = Inserted(t)
  BY DEF ClaimsInv, Own
<1> QED BY <1>1, <1>3, <1>8, <1>9, <1>10

\* Counts of claims are numbers.
LEMMA HandedInt == ASSUME claims \in Seq(Claim), NEW p PROVE Handed(p) \in Int
<1>1. DOMAIN claims = 1 .. Len(claims) /\ Len(claims) \in Nat
  BY LenProperties
<1>2. IsFiniteSet(DOMAIN claims)
  BY <1>1, UpToFinite
<1>3. IsFiniteSet({i \in DOMAIN claims : claims[i].product = p})
  BY <1>2, FS_Subset
<1> QED BY <1>3, FS_CardinalityType DEF Handed

\* So are sums of recoveries.
LEMMA PaidInt == ASSUME recoveries \in Seq(Recovery), NEW how, NEW p PROVE Paid(how, p) \in Int
<1> DEFINE H == {i \in DOMAIN recoveries : recoveries[i].how = how /\ recoveries[i].product = p}
<1>1. /\ DOMAIN recoveries = 1 .. Len(recoveries) /\ Len(recoveries) \in Nat
      /\ \A i \in 1 .. Len(recoveries) : recoveries[i] \in Recovery
  BY LenProperties, ElementOfSeq
<1>2. IsFiniteSet(DOMAIN recoveries)
  BY <1>1, UpToFinite
<1>3. IsFiniteSet(H)
  BY <1>2, FS_Subset
<1>4. \A i \in H : Quantity[i] \in Int
  BY <1>1 DEF Quantity, Recovery
<1> QED BY <1>3, <1>4, SumInt DEF Paid

\* The books move by what the transaction has taken.
LEMMA CommitBooks ==
  ASSUME ClaimsInv, NEW t \in Tx, Commit(t)
  PROVE  /\ UnitsAccounted'
         /\ sold' \in Nat /\ claims' \in Seq(Claim) /\ recoveries' \in Seq(Recovery)
<1>1. PICK o, n : o = R(t).op /\ n = Len(R(t).serials)
  OBVIOUS
<1>2. /\ At(t, "commit") /\ tx[t].pc = "commit" /\ R(t) \in Request /\ Shape(t) /\ Found(t)
      /\ o \in {"sell", "replace", "receipt", "warranty", "damage"} /\ n \in Nat
      /\ sold \in Nat /\ claims \in Seq(Claim) /\ recoveries \in Seq(Recovery)
      /\ sold' = (IF o = "sell" THEN sold + n ELSE sold)
      /\ claims' = claims \o tx[t].claims
      /\ recoveries' = (IF o \in {"warranty", "damage"} THEN Append(recoveries, RecoveryOf(t)) ELSE recoveries)
  BY <1>1, ReqFacts DEF Commit, At, ClaimsInv, Own, Shape, Tables
<1>3. PICK a, b, d, k : /\ a = com[Phone] /\ b = com[Lamp] /\ d = com[Supplier]
                        /\ k = Cardinality({u \in Issued : com[u].serial # NoSerial})
                        /\ a \in Int /\ b \in Int /\ d \in Int /\ k \in Int
  <2>1. {u \in Issued : com[u].serial # NoSerial} \in SUBSET Unit
    BY DEF Issued
  <2>2. Cardinality({u \in Issued : com[u].serial # NoSerial}) \in Int
    BY <2>1, UnitsFinite
  <2> QED BY <2>2 DEF ClaimsInv, Tables, RowsType, Shelf
<1>4. PICK ta, tb, td, tk : ta = Taken(t, Phone) /\ tb = Taken(t, Lamp) /\ td = Taken(t, Supplier) /\ tk = Inserted(t)
  OBVIOUS
<1>5. /\ com'[Phone] = a + ta /\ com'[Lamp] = b + tb /\ com'[Supplier] = d + td
      /\ Cardinality({u \in Issued : com[u].serial # NoSerial})' = k + tk
  BY <1>3, <1>4, CommitRows DEF Shelf
<1>6. PICK hp, hl, rp, rl, pp, pl, x, y :
         /\ hp = Handed(Phone) /\ hl = Handed(Lamp)
         /\ rp = Paid("replacement", Phone) /\ rl = Paid("replacement", Lamp)
         /\ pp = Paid("paid", Phone) /\ pl = Paid("paid", Lamp)
         /\ x = InitStock[Phone] /\ y = InitStock[Lamp]
  OBVIOUS
<1>7. /\ a = x - sold - hp + rp /\ b = y - hl + rl /\ d = 0 - (pp + pl) /\ k = sold + hp
  BY <1>3, <1>6 DEF ClaimsInv, UnitsAccounted
<1>8. /\ x \in Int /\ y \in Int /\ hp \in Int /\ hl \in Int /\ rp \in Int /\ rl \in Int /\ pp \in Int /\ pl \in Int
  <2>1. x \in Int /\ y \in Int
    <3>1. InitStock[Phone] \in Nat /\ InitStock[Lamp] \in Nat
      BY ClaimsAssumption
    <3> QED BY <1>6, <3>1
  <2>2. hp \in Int /\ hl \in Int
    BY <1>2, <1>6, HandedInt
  <2>3. rp \in Int /\ rl \in Int /\ pp \in Int /\ pl \in Int
    BY <1>2, <1>6, PaidInt
  <2> QED BY <2>1, <2>2, <2>3
<1>9. o \notin {"warranty", "damage"} => \A how, p : Paid(how, p)' = Paid(how, p)
  BY <1>2 DEF Paid, Quantity
<1>10. tx[t].claims = <<>> => claims' = claims /\ \A p : Handed(p)' = Handed(p)
  <2>1. tx[t].claims = <<>> => claims' = claims
    BY <1>2, ConcatEmptySeq
  <2> QED BY <2>1 DEF Handed
<1>11. CASE o = "sell"
  <2>1. ta = -n /\ tb = 0 /\ td = 0 /\ tk = n /\ tx[t].claims = <<>>
    BY <1>1, <1>2, <1>4, <1>11, RowFacts DEF Taken, Inserted, At, Shape
  <2>2. sold' = sold + n /\ claims' = claims /\ recoveries' = recoveries
    BY <1>2, <1>10, <1>11, <2>1
  <2>3. a - n = x - (sold + n) - hp + rp /\ k + n = (sold + n) + hp
    BY <1>2, <1>7, <1>8
  <2>4. ta = -n => a + ta = a - n
    BY <1>2, <1>3
  <2>5. b + 0 = b /\ d + 0 = d
    BY <1>3
  <2>6. a + ta = a - n /\ b + tb = b /\ d + td = d
    BY <2>1, <2>4, <2>5
  <2>7. UnitsAccounted'
    BY <1>5, <1>6, <1>7, <1>9, <1>10, <1>11, <2>1, <2>2, <2>3, <2>6 DEF UnitsAccounted
  <2> QED BY <1>2, <2>2, <2>7
<1>12. CASE o = "replace"
  <2>1. PICK c : c = [unit |-> R(t).of, product |-> Phone]
    OBVIOUS
  <2>2. ta = -1 /\ tb = 0 /\ td = 0 /\ tk = 1 /\ tx[t].claims = <<c>>
    BY <1>1, <1>2, <1>4, <1>12, <2>1, RowFacts DEF Taken, Inserted, At, Shape
  <2>3. c \in Claim /\ c.product = Phone
    BY <1>1, <1>2, <1>12, <2>1 DEF Found, Claim
  <2>4. claims' = Append(claims, c) /\ sold' = sold /\ recoveries' = recoveries
    BY <1>2, <1>12, <2>2, <2>3
  <2>5. Handed(Phone)' = hp + 1 /\ Handed(Lamp)' = hl
    BY <1>2, <1>6, <2>3, <2>4, HandedMore, RowFacts
  <2>6. a + ta = x - sold - (hp + 1) + rp /\ b + tb = b /\ d + td = d /\ k + 1 = sold + (hp + 1)
    <3>1. a + (-1) = x - sold - (hp + 1) + rp
      BY <1>2, <1>7, <1>8
    <3>2. b + 0 = b /\ d + 0 = d
      BY <1>3
    <3>3. k + 1 = sold + (hp + 1)
      BY <1>2, <1>7, <1>8
    <3> QED BY <2>2, <3>1, <3>2, <3>3
  <2>7. UnitsAccounted'
    BY <1>5, <1>6, <1>7, <1>9, <1>12, <2>2, <2>4, <2>5, <2>6 DEF UnitsAccounted
  <2>8. claims' \in Seq(Claim)
    BY <1>2, <2>3, <2>4, AppendProperties
  <2> QED BY <1>2, <2>4, <2>7, <2>8
<1>13. CASE o = "receipt"
  <2>1. PICK c : c = [unit |-> tx[t].unit, product |-> Lamp]
    OBVIOUS
  <2>2. ta = 0 /\ tb = -1 /\ td = 0 /\ tk = 0 /\ tx[t].claims = <<c>>
    BY <1>1, <1>2, <1>4, <1>13, <2>1, RowFacts DEF Taken, Inserted, At, Shape
  <2>3. c \in Claim /\ c.product = Lamp
    BY <1>1, <1>2, <1>13, <2>1 DEF Found, Claim
  <2>4. claims' = Append(claims, c) /\ sold' = sold /\ recoveries' = recoveries
    BY <1>2, <1>13, <2>2, <2>3
  <2>5. Handed(Phone)' = hp /\ Handed(Lamp)' = hl + 1
    BY <1>2, <1>6, <2>3, <2>4, HandedMore, RowFacts
  <2>6. a + ta = a /\ b + tb = y - (hl + 1) + rl /\ d + td = d /\ k + 0 = k
    <3>1. a + 0 = a /\ d + 0 = d /\ k + 0 = k
      BY <1>3
    <3>2. b + (-1) = y - (hl + 1) + rl
      BY <1>7, <1>8
    <3> QED BY <2>2, <3>1, <3>2
  <2>7. UnitsAccounted'
    BY <1>5, <1>6, <1>7, <1>9, <1>13, <2>2, <2>4, <2>5, <2>6 DEF UnitsAccounted
  <2>8. claims' \in Seq(Claim)
    BY <1>2, <2>3, <2>4, AppendProperties
  <2> QED BY <1>2, <2>4, <2>7, <2>8
<1>14. CASE o \in {"warranty", "damage"}
  <2>1. PICK p, q, h, r : p = LossProduct(t) /\ q = tx[t].loss /\ h = R(t).how /\ r = RecoveryOf(t)
    OBVIOUS
  <2>2. p \in {Phone, Lamp} /\ q \in Nat /\ h \in {"replacement", "paid", "written_off"} /\ p # Supplier
    <3>1. p \in {Phone, Lamp}
      BY <1>1, <1>2, <1>14, <2>1, LossIs
    <3>2. q \in Nat
      BY <2>1, TxFacts DEF ClaimsInv
    <3> QED BY <1>1, <1>2, <1>14, <2>1, <3>1, <3>2, ReqFacts, RowFacts
  <2>3. r \in Recovery /\ r.qty = q /\ r.how = h /\ r.product = p
    <3>1. r = [source |-> o, of |-> R(t).of, qty |-> q, product |-> p, how |-> h, paid |-> IF h = "paid" THEN q ELSE 0]
      BY <1>1, <2>1 DEF RecoveryOf
    <3>2. R(t).of \in Nat
      BY <1>2, ReqFacts
    <3> QED BY <1>14, <2>2, <3>1, <3>2 DEF Recovery
  <2>4. tk = 0 /\ tx[t].claims = <<>>
    BY <1>1, <1>2, <1>4, <1>14 DEF Inserted, At, Shape
  <2>5. recoveries' = Append(recoveries, r) /\ claims' = claims /\ sold' = sold
    BY <1>2, <1>10, <1>14, <2>1, <2>4
  <2>6. \A how, s : Paid(how, s)' = IF h = how /\ p = s THEN Paid(how, s) + q ELSE Paid(how, s)
    BY <1>2, <2>3, <2>5, PaidMore
  <2>7. /\ ta = IF h = "replacement" /\ p = Phone THEN q ELSE 0
        /\ tb = IF h = "replacement" /\ p = Lamp THEN q ELSE 0
        /\ td = IF h = "paid" THEN -q ELSE 0
    BY <1>1, <1>2, <1>4, <1>14, <2>1, <2>2, RowFacts DEF Taken, At
  <2>8. PICK rp2, rl2, pp2, pl2 : /\ rp2 = (IF h = "replacement" /\ p = Phone THEN rp + q ELSE rp)
                                  /\ rl2 = (IF h = "replacement" /\ p = Lamp THEN rl + q ELSE rl)
                                  /\ pp2 = (IF h = "paid" /\ p = Phone THEN pp + q ELSE pp)
                                  /\ pl2 = (IF h = "paid" /\ p = Lamp THEN pl + q ELSE pl)
    OBVIOUS
  <2>9. /\ Paid("replacement", Phone)' = rp2 /\ Paid("replacement", Lamp)' = rl2
        /\ Paid("paid", Phone)' = pp2 /\ Paid("paid", Lamp)' = pl2
    BY <1>6, <2>6, <2>8
  <2>10. a + ta = x - sold - hp + rp2
    BY <1>2, <1>7, <1>8, <2>2, <2>7, <2>8
  <2>11. b + tb = y - hl + rl2
    BY <1>7, <1>8, <2>2, <2>7, <2>8
  <2>12. d + td = 0 - (pp2 + pl2)
    <3>1. CASE h = "paid"
      BY <1>7, <1>8, <2>2, <2>7, <2>8, <3>1, RowFacts
    <3>2. CASE h # "paid"
      BY <1>7, <1>8, <2>7, <2>8, <3>2
    <3> QED BY <3>1, <3>2
  <2>13. k + tk = sold + hp
    BY <1>3, <1>7, <2>4
  <2>14. Handed(Phone)' = hp /\ Handed(Lamp)' = hl
    BY <1>6, <1>10, <2>4
  <2>15. UnitsAccounted'
    BY <1>5, <1>6, <2>5, <2>9, <2>10, <2>11, <2>12, <2>13, <2>14 DEF UnitsAccounted
  <2>16. recoveries' \in Seq(Recovery)
    BY <1>2, <2>3, <2>5, AppendProperties
  <2> QED BY <1>2, <2>5, <2>15, <2>16
<1> QED BY <1>2, <1>11, <1>12, <1>13, <1>14

\* Committed: the units and their entries become visible together.
LEMMA CommitStep ==
  ASSUME ClaimsInv, NEW t \in Tx, Commit(t)
  PROVE  ClaimsInv'
<1>1. /\ \A r \in Row : /\ com'[r] = IF lock[r] = t THEN cur[r] ELSE com[r]
                        /\ lock'[r] = IF lock[r] = t THEN NoTx ELSE lock[r]
      /\ cur' = cur
  BY CommitRows
<1>2. /\ tx' = [tx EXCEPT ![t] = Idle] /\ UNCHANGED <<nextUnit, today>> /\ IndexOK /\ RowsOK /\ Tables
      /\ com' \in [Row -> {com'[r] : r \in Row}]
      /\ com' = [r \in Row |-> IF lock[r] = t THEN cur[r] ELSE com[r]]
      /\ lock' = [r \in Row |-> IF lock[r] = t THEN NoTx ELSE lock[r]]
  BY DEF Commit, DB!Commit, DB!Release, DB!Visible, ClaimsInv
<1>3. Unit \subseteq Row /\ Serial \subseteq Row /\ Shelf \subseteq Row /\ NoTx \notin Tx
  BY RowFacts
<1>4. tx' \in [Tx -> TxState] /\ tx'[t] = Idle /\ \A v \in Tx \ {t} : tx'[v] = tx[v]
  BY <1>2, IdleState DEF Tables
<1>5. UnitsAccounted' /\ sold' \in Nat /\ claims' \in Seq(Claim) /\ recoveries' \in Seq(Recovery)
  BY CommitBooks
<1>6. Tables'
  <2>1. com' \in [Row -> Value]
    BY <1>2 DEF Tables, RowsType
  <2>2. RowsType(com)'
    BY <1>1, <1>2, <1>3, <2>1 DEF Tables, RowsType
  <2>3. RowsType(cur)' /\ lock' \in [Row -> Tx \cup {NoTx}]
    BY <1>1, <1>2 DEF Tables, RowsType
  <2> QED BY <1>2, <1>4, <1>5, <2>2, <2>3 DEF Tables
<1>7. IndexOK'
  <2>1. ASSUME NEW v \in Unit, Serialled(com'[v]) PROVE com'[com'[v].serial] = v
    <3>1. CASE lock[v] = t
      <4>1. PICK k : k = cur[v].serial
        OBVIOUS
      <4>2. com'[v] = cur[v] /\ Serialled(cur[v]) /\ cur[v] \in UnitRow
        BY <1>1, <1>2, <1>3, <2>1, <3>1 DEF Tables, RowsType
      <4>3. k \in Serial /\ k \in Row
        BY <1>3, <4>1, <4>2 DEF Serialled, UnitRow
      <4>4. cur[k] = v /\ (lock[k] = t \/ com[k] = v)
        BY <1>2, <3>1, <4>1, <4>2 DEF IndexOK
      <4> QED BY <1>1, <4>1, <4>2, <4>3, <4>4
    <3>2. CASE lock[v] # t
      <4>1. PICK k : k = com[v].serial
        OBVIOUS
      <4>2. com'[v] = com[v] /\ Serialled(com[v]) /\ com[v] \in UnitRow
        BY <1>1, <1>2, <1>3, <2>1, <3>2 DEF Tables, RowsType
      <4>3. k \in Serial /\ k \in Row
        BY <1>3, <4>1, <4>2 DEF Serialled, UnitRow
      <4>4. com[k] = v
        BY <1>2, <4>1, <4>2 DEF IndexOK
      <4>5. cur[k] = v
        BY <1>2, <4>3, <4>4, RowFacts DEF IndexOK
      <4> QED BY <1>1, <4>1, <4>2, <4>3, <4>4, <4>5
    <3> QED BY <3>1, <3>2
  <2>2. ASSUME NEW v \in Unit, Serialled(cur'[v])
        PROVE  cur'[cur'[v].serial] = v /\ (lock'[cur'[v].serial] = lock'[v] \/ com'[cur'[v].serial] = v)
    <3>1. PICK k : k = cur[v].serial
      OBVIOUS
    <3>2. Serialled(cur[v]) /\ cur[v] \in UnitRow /\ cur'[v] = cur[v]
      BY <1>1, <1>2, <1>3, <2>2 DEF Tables, RowsType
    <3>3. k \in Serial /\ k \in Row /\ v \in Row
      BY <1>3, <3>1, <3>2 DEF Serialled, UnitRow
    <3>4. cur[k] = v /\ (lock[k] = lock[v] \/ com[k] = v)
      BY <1>2, <3>1, <3>2 DEF IndexOK
    <3> QED BY <1>1, <3>1, <3>2, <3>3, <3>4
  <2>3. \A k \in Serial : com'[k] # Free => cur'[k] = com'[k]
    BY <1>1, <1>2, <1>3 DEF IndexOK
  <2> QED BY <2>1, <2>2, <2>3 DEF IndexOK
<1>8. RowsOK'
  BY <1>1, <1>2, <1>3 DEF RowsOK
<1>9. ASSUME NEW v \in Tx \ {t} PROVE Own(v)'
  <2>1. \A r \in Row : (lock[r] = v <=> lock'[r] = v) /\ (lock[r] = v => cur'[r] = cur[r] /\ com'[r] = com[r])
    BY <1>1, <1>3
  <2>2. \A y \in Unit : com[y].status # "none" => com'[y].status # "none" /\ com'[y].serial = com[y].serial
                                                  /\ cur'[y].serial = com[y].serial
    BY <1>1, <1>2, <1>3 DEF RowsOK
  <2> QED BY <1>4, <2>1, <2>2, OthersKept
<1>10. Own(t)'
  <2>1. \A r \in Row : lock'[r] # t
    BY <1>1, <1>3
  <2> QED BY <1>4, <2>1, IdleOwn
<1> QED BY <1>5, <1>6, <1>7, <1>8, <1>9, <1>10 DEF ClaimsInv

-----------------------------------------------------------------------------
(***************************************************************************)
(* Every step keeps the invariant.                                         *)
(***************************************************************************)
\* Every step keeps it.
LEMMA ClaimsNext == ClaimsInv /\ [Next]_vars => ClaimsInv'
<1> SUFFICES ASSUME ClaimsInv, [Next]_vars PROVE ClaimsInv'
  OBVIOUS
<1>1. ASSUME NEW t \in Tx, Fail(t) PROVE ClaimsInv'
  BY <1>1, FailStep
<1>2. ASSUME NEW t \in Tx, Step(t), ~Fail(t) PROVE ClaimsInv'
  <2>1. CASE CheckSerial(t)
    BY <1>2, <2>1, CheckSerialStep
  <2>2. CASE InsertUnit(t)
    BY <1>2, <2>2, InsertUnitStep
  <2>3. CASE FindUnit(t)
    BY <1>2, <2>3, FindUnitStep
  <2>4. CASE ReadLine(t)
    BY <1>2, <2>4, ReadLineStep
  <2>5. CASE Retire(t)
    BY <2>5, RetireStep
  <2>6. CASE TakeUnit(t)
    BY <1>2, <2>6, TakeUnitStep
  <2>7. CASE ReadSource(t)
    BY <1>2, <2>7, ReadSourceStep
  <2>8. CASE CheckRecovered(t)
    BY <1>2, <2>8, CheckRecoveredStep
  <2>9. CASE Restock(t)
    BY <2>9, RestockStep
  <2>10. CASE CreditSupplier(t)
    BY <2>10, CreditStep
  <2>11. CASE Commit(t)
    BY <2>11, CommitStep
  <2>12. CASE Cancel(t)
    BY <1>2, <2>12 DEF Cancel
  <2> QED BY <1>2, <2>1, <2>2, <2>3, <2>4, <2>5, <2>6, <2>7, <2>8, <2>9, <2>10, <2>11, <2>12 DEF Step
<1>3. ASSUME NEW t \in Tx, NEW r \in Desk[t], Begin(t, r) PROVE ClaimsInv'
  BY <1>3, BeginStep
<1>4. CASE NextDay
  <2>1. UNCHANGED <<com, cur, lock, nextUnit, sold, claims, recoveries, tx>> /\ today' \in Nat
    BY <1>4 DEF NextDay, rowVars, books, ClaimsInv, Tables
  <2> QED BY <2>1, QuietStep DEF ClaimsInv, Tables
<1>5. CASE UNCHANGED vars
  <2>1. UNCHANGED <<com, cur, lock, nextUnit, sold, claims, recoveries, tx>> /\ today' \in Nat
    BY <1>5 DEF vars, ClaimsInv, Tables
  <2> QED BY <2>1, QuietStep DEF ClaimsInv, Tables
<1> QED BY <1>1, <1>2, <1>3, <1>4, <1>5 DEF Next

\* It always holds.
LEMMA ClaimsHolds == Spec => []ClaimsInv
<1> QED BY InitHolds, ClaimsNext, PTL DEF Spec

-----------------------------------------------------------------------------
(***************************************************************************)
(* What follows.                                                           *)
(***************************************************************************)
\* A serial number names one unit, though nobody holds anything while it is looked up
\* (warranty.SerialExists): the entry of the unique index names one unit.
THEOREM SerialsOnce == Spec => []SerialOnce
<1>1. ClaimsInv => SerialOnce
  BY DEF ClaimsInv, IndexOK, SerialOnce, Issued, Serialled
<1> QED BY <1>1, ClaimsHolds, PTL

\* Shelf, supplier account and serials on record are what the sales, the claims and the
\* recoveries say, at every moment and for any number of requests at the same time.
THEOREM UnitsAddUp == Spec => []UnitsAccounted
<1>1. ClaimsInv => UnitsAccounted
  BY DEF ClaimsInv
<1> QED BY <1>1, ClaimsHolds, PTL
=============================================================================
