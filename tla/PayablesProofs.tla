--------------------------- MODULE PayablesProofs ---------------------------
(***************************************************************************)
(* What holds of Payables for every set of suppliers, purchases, requests    *)
(* and concurrent transactions.                                            *)
(***************************************************************************)
EXTENDS Payables, SequenceTheorems, SumLaws

-----------------------------------------------------------------------------
(***************************************************************************)
(* Sharing an amount out.                                                  *)
(***************************************************************************)
\* Debts in an order: each has a number of its own.
DebtSet(D) == /\ IsFiniteSet(D) /\ D \subseteq [id : Int, at : Int, n : Nat \ {0}]
              /\ \A x, y \in D : x.id = y.id => x = y

\* Part of the debts are debts.
LEMMA DebtSubset ==
  ASSUME NEW D, DebtSet(D), NEW S \in SUBSET D
  PROVE  DebtSet(S)
BY FS_Subset DEF DebtSet

\* Of two debts one comes first.
LEMMA FirstOrders ==
  ASSUME NEW D, DebtSet(D)
  PROVE  /\ \A x, y \in D : x # y => First(x, y) \/ First(y, x)
         /\ \A x, y, z \in D : First(x, y) /\ First(y, z) => First(x, z)
         /\ \A x, y \in D : First(x, y) => ~First(y, x) /\ x # y
<1>1. \A x \in D : x.at \in Int /\ x.id \in Int
  BY DEF DebtSet
<1>2. \A x, y \in D : x.id = y.id => x = y
  BY DEF DebtSet
<1> QED BY <1>1, <1>2 DEF First

\* There is a last one.
LEMMA LastDebt ==
  ASSUME NEW D, DebtSet(D), D # {}
  PROVE  \E m \in D : \A y \in D \ {m} : First(y, m)
<1> DEFINE F == {T \in SUBSET D : T # {} /\ ~ \E m \in T : \A y \in T \ {m} : First(y, m)}
<1>1. F = {}
  <2> SUFFICES ASSUME F # {} PROVE FALSE
    OBVIOUS
  <2>1. PICK T \in F : \A U \in F : U \subseteq T => U = T
    <3> HIDE DEF F
    <3>1. F \in SUBSET (SUBSET D) /\ IsFiniteSet(D)
      BY DEF F, DebtSet
    <3> QED BY <3>1, SmallestFails
  <2>2. PICK x \in T : TRUE
    BY <2>1
  <2>3. T \ {x} # {}
    BY <2>1, <2>2
  <2>4. PICK m \in T \ {x} : \A y \in T \ {x, m} : First(y, m)
    <3>1. T \ {x} \notin F /\ T \ {x} \in SUBSET D
      BY <2>1, <2>2
    <3>2. PICK m \in T \ {x} : \A y \in (T \ {x}) \ {m} : First(y, m)
      BY <2>3, <3>1
    <3> QED BY <3>2
  <2>5. x \in D /\ m \in D /\ x # m
    BY <2>1, <2>2, <2>4
  <2>6. CASE First(x, m)
    <3>1. \A y \in T \ {m} : First(y, m)
      BY <2>4, <2>6
    <3> QED BY <2>1, <2>4, <3>1
  <2>7. CASE First(m, x)
    <3>1. \A y \in T \ {x} : First(y, x)
      BY <2>1, <2>4, <2>5, <2>7, FirstOrders
    <3> QED BY <2>1, <2>2, <3>1
  <2> QED BY <2>5, <2>6, <2>7, FirstOrders
<1>2. D \notin F
  BY <1>1
<1> QED BY <1>2

\* What is asked together.
LEMMA GivenNat ==
  ASSUME NEW D, DebtSet(D)
  PROVE  /\ Given(D) \in Nat
         /\ \A x \in D : x.n <= Given(D)
<1> DEFINE f == [x \in D |-> x.n]
<1>1. IsFiniteSet(D) /\ \A x \in D : f[x] \in Nat
  BY DEF DebtSet
<1> HIDE DEF f
<1>2. SumFunctionOnSet(f, D) \in Nat /\ \A i \in D : f[i] <= SumFunctionOnSet(f, D)
  BY <1>1, SumNat
<1> QED BY <1>2 DEF Given, f

\* Each debt gets no more than it is, and no more than there is.
LEMMA ShareFacts ==
  ASSUME NEW D, DebtSet(D), NEW a \in Nat, NEW x \in D
  PROVE  Share(D, a, x) \in 0 .. x.n /\ Share(D, a, x) <= a
<1>1. Given({y \in D : First(y, x)}) \in Nat
  <2>1. DebtSet({y \in D : First(y, x)})
    BY DebtSubset
  <2> QED BY <2>1, GivenNat
<1>2. PICK g \in Nat : g = Given({y \in D : First(y, x)})
  BY <1>1
<1>3. PICK n \in Nat : n = x.n
  BY DEF DebtSet
<1> QED BY <1>2, <1>3 DEF Share, Smaller, Larger

\* The shares add up to the amount, or to all that is asked.
LEMMA SharesAddUp ==
  ASSUME NEW D, DebtSet(D), NEW a \in Nat
  PROVE  SumFunctionOnSet([x \in D |-> Share(D, a, x)], D) = Smaller(a, Given(D))
<1> DEFINE s(T) == [x \in T |-> Share(T, a, x)]
           F == {T \in SUBSET D : SumFunctionOnSet(s(T), T) # Smaller(a, Given(T))}
<1>1. F = {}
  <2> SUFFICES ASSUME F # {} PROVE FALSE
    OBVIOUS
  <2>1. PICK T \in F : \A U \in F : U \subseteq T => U = T
    <3> HIDE DEF F
    <3>1. F \in SUBSET (SUBSET D) /\ IsFiniteSet(D)
      BY DEF F, DebtSet
    <3> QED BY <3>1, SmallestFails
  <2>2. DebtSet(T) /\ IsFiniteSet(T)
    <3>1. DebtSet(T)
      BY <2>1, DebtSubset
    <3> QED BY <3>1 DEF DebtSet
  <2>3. T # {}
    <3>1. /\ SumFunctionOnSet([x \in {} |-> Share({}, a, x)], {}) = 0
          /\ SumFunctionOnSet([x \in {} |-> x.n], {}) = 0
      BY SumEmpty
    <3>2. SumFunctionOnSet(s({}), {}) = Smaller(a, Given({}))
      BY <3>1 DEF Given, Smaller
    <3> QED BY <2>1, <3>2
  <2>4. PICK m \in T : \A y \in T \ {m} : First(y, m)
    BY <2>2, <2>3, LastDebt
  <2> DEFINE V == T \ {m}
  <2>5. V \in SUBSET D /\ V \notin F /\ m \notin V /\ T = V \cup {m}
    BY <2>1
  <2>6. DebtSet(V) /\ IsFiniteSet(V)
    <3>1. DebtSet(V)
      BY <2>5, DebtSubset
    <3> QED BY <3>1 DEF DebtSet
  <2>7. SumFunctionOnSet(s(V), V) = Smaller(a, Given(V))
    BY <2>5
  <2>8. \A x \in V : Share(T, a, x) = Share(V, a, x)
    <3> SUFFICES ASSUME NEW x \in V PROVE Share(T, a, x) = Share(V, a, x)
      OBVIOUS
    <3>1. ~First(m, x)
      BY <2>2, <2>4, FirstOrders
    <3>2. {y \in T : First(y, x)} = {y \in V : First(y, x)}
      BY <3>1
    <3> QED BY <3>2 DEF Share
  <2>9. {y \in T : First(y, m)} = V
    <3>1. ~First(m, m)
      BY <2>2, FirstOrders
    <3> QED BY <3>1, <2>4
  <2>10. PICK g \in Nat : g = Given(V)
    BY <2>6, GivenNat
  <2>11. PICK n \in Nat : n = m.n
    BY <2>2 DEF DebtSet
  <2>12. Share(T, a, m) = Smaller(n, Larger(a - g, 0))
    BY <2>9, <2>10, <2>11 DEF Share
  <2>13. Given(T) = g + n
    <3> DEFINE f == [x \in T |-> x.n]
               h == [x \in V |-> x.n]
    <3>1. (\A x \in T : f[x] \in Int) /\ (\A x \in V : f[x] = h[x]) /\ f[m] = n
      BY <2>2, <2>11 DEF DebtSet
    <3> HIDE DEF f, h, V
    <3>2. SumFunctionOnSet(f, T) = SumFunctionOnSet(f, V) + f[m]
      BY <2>5, <2>6, <3>1, SumAdd
    <3>3. SumFunctionOnSet(f, V) = SumFunctionOnSet(h, V)
      BY <2>6, <3>1, SumSame
    <3> QED BY <2>10, <3>1, <3>2, <3>3 DEF Given, f, h
  <2>14. SumFunctionOnSet(s(T), T) = Smaller(a, g) + Smaller(n, Larger(a - g, 0))
    <3> DEFINE f == [x \in T |-> Share(T, a, x)]
               h == [x \in V |-> Share(V, a, x)]
    <3>1. \A x \in T : Share(T, a, x) \in Int
      BY <2>2, ShareFacts
    <3>2. (\A x \in T : f[x] \in Int) /\ (\A x \in V : f[x] = h[x]) /\ f[m] = Share(T, a, m)
      BY <2>8, <3>1
    <3> HIDE DEF f, h, V
    <3>3. SumFunctionOnSet(f, T) = SumFunctionOnSet(f, V) + f[m]
      BY <2>5, <2>6, <3>2, SumAdd
    <3>4. SumFunctionOnSet(f, V) = SumFunctionOnSet(h, V)
      BY <2>6, <3>2, SumSame
    <3>5. SumFunctionOnSet(h, V) = Smaller(a, g)
      BY <2>7, <2>10 DEF h
    <3> QED BY <2>12, <3>2, <3>3, <3>4, <3>5 DEF f
  <2>15. Smaller(a, g) + Smaller(n, Larger(a - g, 0)) = Smaller(a, g + n)
    BY DEF Smaller, Larger
  <2> QED BY <2>1, <2>13, <2>14, <2>15
<1>2. D \notin F
  BY <1>1
<1> QED BY <1>2

\* The parts of an amount are debts again, each of one that was there and no larger;
\* together they are the amount, or all that is asked.
LEMMA CascadeFacts ==
  ASSUME NEW D, DebtSet(D), NEW a \in Nat
  PROVE  /\ DebtSet(Cascade(D, a))
         /\ Given(Cascade(D, a)) = Smaller(a, Given(D))
         /\ \A p \in Cascade(D, a) : \E x \in D : x.id = p.id /\ x.at = p.at /\ p.n <= x.n
<1> DEFINE S == {y \in D : Share(D, a, y) > 0}
           g == [x \in S |-> [x EXCEPT !.n = Share(D, a, x)]]
           C == {g[x] : x \in S}
<1>1. Cascade(D, a) = C
  BY DEF Cascade
<1>2. \A x \in D : Share(D, a, x) \in 0 .. x.n
  BY ShareFacts
<1>3. \A x \in S : /\ g[x] \in [id : Int, at : Int, n : Nat \ {0}]
                   /\ g[x].id = x.id /\ g[x].at = x.at /\ g[x].n = Share(D, a, x)
  <2> SUFFICES ASSUME NEW x \in S
               PROVE  /\ g[x] \in [id : Int, at : Int, n : Nat \ {0}]
                      /\ g[x].id = x.id /\ g[x].at = x.at /\ g[x].n = Share(D, a, x)
    OBVIOUS
  <2>1. PICK k \in Nat \ {0} : k = Share(D, a, x)
    BY <1>2
  <2>2. x \in [id : Int, at : Int, n : Nat \ {0}]
    BY DEF DebtSet
  <2> QED BY <2>1, <2>2
<1>4. \A x, y \in D : x.id = y.id => x = y
  BY DEF DebtSet
<1>5. IsFiniteSet(S) /\ IsFiniteSet(D)
  BY FS_Subset DEF DebtSet
<1>6. DebtSet(C)
  <2>1. IsFiniteSet(C)
    <3> HIDE DEF S, g
    <3> QED BY <1>5, FiniteImage
  <2>2. \A x, y \in C : x.id = y.id => x = y
    BY <1>3, <1>4
  <2> QED BY <1>3, <2>1, <2>2 DEF DebtSet
<1>7. \A p \in C : \E x \in D : x.id = p.id /\ x.at = p.at /\ p.n <= x.n
  BY <1>2, <1>3
<1>8. Given(C) = SumFunctionOnSet([x \in S |-> Share(D, a, x)], S)
  <2> DEFINE f == [p \in C |-> p.n]
             h == [x \in S |-> f[g[x]]]
  <2>1. \A x, y \in S : g[x] = g[y] => x = y
    BY <1>3, <1>4
  <2>2. \A x \in S : f[g[x]] \in Int /\ f[g[x]] = Share(D, a, x)
    <3> SUFFICES ASSUME NEW x \in S PROVE f[g[x]] \in Int /\ f[g[x]] = Share(D, a, x)
      OBVIOUS
    <3>1. Share(D, a, x) \in Int
      BY <1>2
    <3>2. g[x] \in C /\ g[x].n = Share(D, a, x)
      BY <1>3
    <3> QED BY <3>1, <3>2
  <2>3. h = [x \in S |-> Share(D, a, x)]
    BY <2>2
  <2>4. SumFunctionOnSet(f, C) = SumFunctionOnSet(h, S)
    <3> HIDE DEF S, g, f
    <3> QED BY <1>5, <2>1, <2>2, SumImage
  <2> QED BY <2>3, <2>4 DEF Given
<1>9. SumFunctionOnSet([x \in S |-> Share(D, a, x)], S) = SumFunctionOnSet([x \in D |-> Share(D, a, x)], D)
  <2> DEFINE f == [x \in D |-> Share(D, a, x)]
             h == [x \in S |-> Share(D, a, x)]
  <2>1. S \in SUBSET D /\ (\A x \in D \ S : f[x] = 0) /\ (\A x \in S : f[x] \in Int /\ f[x] = h[x])
    BY <1>2
  <2> HIDE DEF S, f, h
  <2>2. SumFunctionOnSet(f, D) = SumFunctionOnSet(f, S)
    BY <1>5, <2>1, SumZeros
  <2>3. SumFunctionOnSet(f, S) = SumFunctionOnSet(h, S)
    BY <1>5, <2>1, SumSame
  <2> QED BY <2>2, <2>3 DEF f, h
<1> HIDE DEF C
<1> QED BY <1>1, <1>6, <1>7, <1>8, <1>9, SharesAddUp

-----------------------------------------------------------------------------
(***************************************************************************)
(* What each request may be, and where its transaction may stand.           *)
(***************************************************************************)
AnyRow == Document \cup Use \cup Receipt \cup Expense \cup Move

Part == [id : Purchase, at : Nat, n : Nat \ {0}]

NoReq == [op |-> "none"]

Delivery == {"bill", "credit", "advances", "credits", "remainder", "now"}
Paying   == {"apply", "old", "settle"}
Statement ==
    {"idle", "draft", "find", "edit", "receive", "drop", "insert", "plan", "share", "source",
     "load", "expense", "move", "debit", "open", "spend", "ask", "refund", "adjust", "commit"}
    \cup Delivery \cup Paying

TxState == [pc : Statement, req : Request \cup {NoReq}, at : Nat, inv : Purchase \cup {0},
            want : Lines, alloc : SUBSET Part, old : Nat, rest : Nat, left : Int, seen : Int,
            mine : SUBSET AnyRow]

\* The request a row was written by.
Stamp(m) == IF m.kind = "move" THEN m.doc
            ELSE IF m.kind \in {"allocation", "receipt"} THEN m.by ELSE m.id

CashKinds == {"payment", "refund", "expense"}

CashDocs(rows) == {m \in rows : m.kind \in CashKinds}
MovesIn(rows)  == {m \in rows : m.kind = "move"}

\* A document of x that has money moved, and the move.
IsDoc(x, d) == /\ d \in Document \cup Expense /\ d.kind \in CashKinds /\ d.id = x.at
               /\ d.kind # "expense" => d.from = x.req.by.from
               /\ d.kind = "expense" => x.req.by.from # External
MoveOf(x, d) == [kind |-> "move", doc |-> x.at, place |-> x.req.by.from,
                 amount |-> IF d.kind = "refund" THEN d.amount ELSE -d.amount]

\* A transaction has a document that has money moved from LoadSupplier, TakeRefund or
\* InsertExpense on, one only, and the move when it is about to commit.
CashOK(x) ==
    LET ds == CashDocs(x.mine)
        ms == MovesIn(x.mine)
    IN /\ x.pc \notin Paying \cup {"move", "commit"} => ds = {} /\ ms = {}
       /\ x.pc \in Paying \cup {"move"} => ms = {} /\ \E d : ds = {d} /\ IsDoc(x, d)
       /\ x.pc = "move" => x.req.by.from # External
       /\ x.pc = "commit" =>
            \/ ds = {} /\ ms = {}
            \/ \E d : /\ ds = {d} /\ IsDoc(x, d)
                      /\ ms = IF x.req.by.from = External THEN {} ELSE {MoveOf(x, d)}

\* The requests that come to each statement.
Shape(x, n) ==
    LET s == x.pc
        o == x.req.op
    IN s # "idle" =>
       /\ x.req \in Request /\ x.at \in 1 .. n
       /\ s = "draft" => o = "order" /\ x.left \in 0 .. Len(x.req.drafts) - 1
       /\ s = "find" => o \in {"edit", "receive"}
       /\ s \in {"edit", "receive", "drop", "expense", "adjust"} => o = s
       /\ s = "insert" => o = "deliver"
       /\ s \in Delivery => o \in {"deliver", "receive"} /\ x.inv \in Purchase
       /\ s \in {"plan", "share"} => o = "pay"
       /\ s = "source" => o \in {"deliver", "receive", "pay", "refund"}
       /\ s \in Paying \cup {"load"} => o \in {"pay", "deliver", "receive"}
       /\ s = "move" => o \in {"pay", "deliver", "receive", "refund", "expense"}
       /\ s \in {"debit", "open", "spend"} => o = "return"
       /\ s \in {"ask", "refund"} => o = "refund"
       /\ s = "commit" => o \notin {"adjust", "drop"}
       /\ o \in {"edit", "receive", "drop"} => x.inv = x.req.inv
       /\ o = "expense" => x.req.by.from # External

TxOK(x, n) == /\ x \in TxState /\ Shape(x, n) /\ CashOK(x) /\ DebtSet(x.alloc)
              /\ IsFiniteSet(x.mine) /\ \A m \in x.mine : Stamp(m) = x.at

\* The rows have the types of their tables, and a dirty one is locked.
RowsOK == /\ com \in [Row -> Account \cup Bill \cup Flags]
          /\ cur \in [Row -> Account \cup Bill \cup Flags]
          /\ lock \in [Row -> Tx \cup {NoTx}]
          /\ \A s \in Supplier : com[s] \in Account /\ cur[s] \in Account
          /\ \A i \in Purchase : com[i] \in Bill /\ cur[i] \in Bill
          /\ \A p \in Place : com[p] \in Flags /\ cur[p] \in Flags
          /\ \A r \in Row : lock[r] = NoTx => cur[r] = com[r]

Types == /\ RowsOK
         /\ tx \in [Tx -> TxState] /\ \A t \in Tx : TxOK(tx[t], served)
         /\ book \subseteq AnyRow /\ IsFiniteSet(book)
         /\ served \in 0 .. MaxRequests

-----------------------------------------------------------------------------
\* The fields of each request.
LEMMA RequestFields ==
  ASSUME NEW r \in Request
  PROVE  /\ r.op \in {"order", "edit", "drop", "deliver", "receive", "pay", "return", "refund",
                      "adjust", "expense", "correct", "strike", "locker"}
         /\ r.op = "order" => r.drafts \in Seq([sup : Supplier, lines : Lines])
         /\ r.op = "edit" => r.inv \in Purchase /\ r.lines \in Lines
         /\ r.op = "drop" => r.inv \in Purchase
         /\ r.op = "deliver" => r.sup \in Supplier /\ r.lines \in Lines /\ r.pay \in Nat
         /\ r.op = "receive" => r.inv \in Purchase /\ r.lines \in Lines /\ r.pay \in Nat /\ r.keep \in BOOLEAN
         /\ r.op = "pay" => /\ r.sup \in Supplier /\ r.amount \in Nat \ {0}
                            /\ r.mode \in {"pay", "old", "advance", "picked"}
         /\ r.op = "return" => r.sup \in Supplier /\ r.amount \in Nat \ {0}
         /\ r.op = "refund" => r.sup \in Supplier /\ r.amount \in Nat \ {0}
         /\ r.op = "adjust" => r.sup \in Supplier /\ r.amount \in Int
         /\ r.op \in {"expense", "correct"} => r.amount \in Nat \ {0}
         /\ r.op \in {"deliver", "receive", "pay", "refund", "expense"} =>
              r.by \in Terms /\ r.by.from \in Place \cup {External}
         /\ r.op = "locker" => r.place \in Locker /\ r.flags \in Flags
<1> DEFINE Q == [op : {"order"}, drafts : Seq([sup : Supplier, lines : Lines])]
       \cup [op : {"edit"}, inv : Purchase, lines : Lines]
       \cup [op : {"drop"}, inv : Purchase]
       \cup [op : {"deliver"}, sup : Supplier, lines : Lines, pay : Nat, by : Terms]
       \cup [op : {"receive"}, inv : Purchase, lines : Lines, pay : Nat, keep : BOOLEAN, by : Terms]
       \cup [op : {"pay"}, sup : Supplier, amount : Nat \ {0}, by : Terms,
             mode : {"pay", "old", "advance", "picked"}]
       \cup [op : {"return"}, sup : Supplier, amount : Nat \ {0}]
       \cup [op : {"refund"}, sup : Supplier, amount : Nat \ {0}, by : Terms]
       \cup [op : {"adjust"}, sup : Supplier, amount : Int]
       \cup [op : {"expense"}, amount : Nat \ {0}, by : Terms]
       \cup [op : {"correct"}, amount : Nat \ {0}] \cup [op : {"strike"}]
       \cup [op : {"locker"}, place : Locker, flags : Flags]
<1>1. r \in Q
  BY PayablesAssumption
<1>2. \A x \in Terms : x.from \in Place \cup {External}
  BY DEF Terms
<1> HIDE DEF Lines, Terms, Flags, Place, Purchase
<1> QED BY <1>1, <1>2

\* Worth, and what it is used for.
LEMMA WorthNat ==
  ASSUME NEW l \in Lines
  PROVE  Worth(l) \in Nat
<1> DEFINE f == [p \in Product |-> Price[p] * l[p]]
<1>1. \A p \in Product : f[p] \in Nat
  BY PayablesAssumption DEF Lines
<1> HIDE DEF f
<1>2. SumFunctionOnSet(f, Product) \in Nat
  BY <1>1, PayablesAssumption, SumNat
<1> QED BY <1>2 DEF Worth, f

\* No debts, and one, are debts.
LEMMA SmallDebts ==
  /\ DebtSet({})
  /\ \A i \in Int, a \in Int, n \in Nat \ {0} : DebtSet({[id |-> i, at |-> a, n |-> n]})
<1>1. IsFiniteSet({}) /\ \A x : IsFiniteSet({x})
  BY FS_EmptySet, FS_Singleton
<1> QED BY <1>1 DEF DebtSet

\* The first values of rows and transactions.
LEMMA IdleFacts == Idle \in TxState /\ Idle.pc = "idle" /\ Idle.mine = {} /\ \A n \in Nat : TxOK(Idle, n)
<1>1. Idle \in TxState
  BY DEF Idle, TxState, Statement, NoReq, Lines
<1>2. Idle.pc = "idle" /\ Idle.mine = {} /\ Idle.alloc = {}
  BY DEF Idle
<1> QED BY <1>1, <1>2, FS_EmptySet, SmallDebts DEF TxOK, Shape, CashOK, CashDocs, MovesIn, Paying

\* Money on the row of a supplier.
LEMMA AccountTypes ==
  ASSUME NEW a \in Account, NEW n \in Int
  PROVE  AddBalance(a, n) \in Account /\ PayOpening(a, n) \in Account /\ AdjustOpening(a, n) \in Account
<1>1. PICK o \in Int, g \in Int, u \in Int : o = a.out /\ g = a.opening /\ u = a.gross
  BY DEF Account
<1>2. AddBalance(a, n) \in Account
  <2>1. PICK v \in Int, w \in Int : v = a.out + n /\ w = Smaller(a.opening, Larger(a.out + n, 0))
    BY <1>1 DEF Smaller, Larger
  <2>2. AddBalance(a, n) = [a EXCEPT !.out = v, !.opening = w]
    BY <2>1 DEF AddBalance
  <2> QED BY <2>2 DEF Account
<1>3. AdjustOpening(a, n) \in Account
  <2>1. PICK v \in Int, w \in Int : v = a.out + (n - a.opening) /\ w = a.gross + (n - a.opening)
    BY <1>1
  <2>2. AdjustOpening(a, n) = [a EXCEPT !.out = v, !.gross = w, !.opening = n]
    BY <2>1 DEF AdjustOpening
  <2> QED BY <2>2 DEF Account
<1>4. PayOpening(a, n) \in Account
  <2>1. PICK m \in Int : m = Larger(Smaller(n, a.opening), 0)
    BY <1>1 DEF Larger, Smaller
  <2>2. PICK v \in Int, w \in Int : v = a.out - m /\ w = a.opening - m
    BY <1>1, <2>1
  <2>3. PayOpening(a, n) = [a EXCEPT !.out = v, !.opening = w]
    BY <2>1, <2>2 DEF PayOpening
  <2> QED BY <2>3 DEF Account
<1> QED BY <1>2, <1>3, <1>4

\* The rows a statement may write, keep, publish or restore.
LEMMA RowTypes ==
  ASSUME RowsOK, NEW t \in Tx
  PROVE  /\ UNCHANGED rowVars => RowsOK'
         /\ DB!Rollback(t) => RowsOK'
         /\ DB!Commit(t) => RowsOK'
         /\ \A s \in Supplier, v \in Account : DB!Write(t, s, v) \/ DB!Update(s, v) => RowsOK'
         /\ \A i \in Purchase, v \in Bill : DB!Write(t, i, v) \/ DB!Update(i, v) => RowsOK'
         /\ \A p \in Place, v \in Flags : DB!Write(t, p, v) \/ DB!Update(p, v) => RowsOK'
<1> DEFINE Val == Account \cup Bill \cup Flags
<1>1. /\ Supplier \cap Purchase = {} /\ Supplier \cap Place = {} /\ Purchase \cap Place = {}
      /\ Supplier \subseteq Row /\ Purchase \subseteq Row /\ Place \subseteq Row /\ NoTx \notin Tx
  BY PayablesAssumption DEF Row
<1> HIDE DEF Account, Bill, Flags, Place, Purchase, Row
<1>2. UNCHANGED rowVars => RowsOK'
  BY DEF RowsOK, rowVars
<1>3. ASSUME DB!Rollback(t) PROVE RowsOK'
  BY <1>1, <1>3 DEF RowsOK, DB!Rollback, DB!Release
<1>4. ASSUME DB!Commit(t) PROVE RowsOK'
  BY <1>1, <1>4 DEF RowsOK, DB!Commit, DB!Release, DB!Visible
<1>5. ASSUME NEW s \in Supplier, NEW v \in Account, DB!Write(t, s, v) \/ DB!Update(s, v) PROVE RowsOK'
  BY <1>1, <1>5 DEF RowsOK, DB!Write, DB!Update, DB!Available
<1>6. ASSUME NEW s \in Purchase, NEW v \in Bill, DB!Write(t, s, v) \/ DB!Update(s, v) PROVE RowsOK'
  BY <1>1, <1>6 DEF RowsOK, DB!Write, DB!Update, DB!Available
<1>7. ASSUME NEW s \in Place, NEW v \in Flags, DB!Write(t, s, v) \/ DB!Update(s, v) PROVE RowsOK'
  BY <1>1, <1>7 DEF RowsOK, DB!Write, DB!Update, DB!Available
<1> QED BY <1>2, <1>3, <1>4, <1>5, <1>6, <1>7

\* What a transaction sees of a row has the row's type.
LEMMA Seen ==
  ASSUME RowsOK, NEW t \in Tx
  PROVE  /\ \A s \in Supplier : See(t, s) \in Account
         /\ \A i \in Purchase : See(t, i) \in Bill
         /\ \A p \in Place : See(t, p) \in Flags
BY DEF RowsOK, See, DB!Visible

\* Bills with one field or another changed.
LEMMA BillTypes ==
  ASSUME NEW b \in Bill
  PROVE  /\ Balance(b) \in Int
         /\ \A n \in Int : PaidMore(b, n) \in Bill
         /\ \A n \in Int : [b EXCEPT !.credited = @ + n] \in Bill
         /\ [b EXCEPT !.status = "gone"] \in Bill
<1>1. /\ b.paid \in Int /\ b.credited \in Int /\ b.total \in Nat
  BY DEF Bill
<1>2. Balance(b) \in Int
  BY <1>1 DEF Balance
<1>3. ASSUME NEW n \in Int PROVE PaidMore(b, n) \in Bill
  <2>1. PICK m \in Int : m = b.paid + n
    BY <1>1
  <2>2. PICK s \in {"paid", "partial"} : s = IF m >= b.total - b.credited THEN "paid" ELSE "partial"
    OBVIOUS
  <2>3. PaidMore(b, n) = [b EXCEPT !.paid = m, !.status = s]
    BY <2>1, <2>2 DEF PaidMore
  <2> QED BY <2>3 DEF Bill, Status, Received
<1>4. ASSUME NEW n \in Int PROVE [b EXCEPT !.credited = @ + n] \in Bill
  <2>1. PICK m \in Int : m = b.credited + n
    BY <1>1
  <2>2. [b EXCEPT !.credited = @ + n] = [b EXCEPT !.credited = m]
    BY <2>1
  <2> QED BY <2>2 DEF Bill
<1>5. [b EXCEPT !.status = "gone"] \in Bill
  BY DEF Bill, Status
<1> QED BY <1>2, <1>3, <1>4, <1>5

\* A purchase whose lines are written anew.
LEMMA RewrittenType ==
  ASSUME NEW b \in Bill, NEW s \in Status, NEW l \in Lines, NEW w \in Nat
  PROVE  [b EXCEPT !.status = s, !.lines = l, !.total = w, !.paid = 0] \in Bill
<1>1. PICK c \in Bill : c = [b EXCEPT !.status = s, !.lines = l]
  BY DEF Bill
<1>2. PICK z \in Int : z = 0
  OBVIOUS
<1>3. [c EXCEPT !.total = w, !.paid = z] \in Bill
  BY DEF Bill
<1> QED BY <1>1, <1>2, <1>3

\* A draft, and a purchase taken in.
LEMMA DraftType ==
  ASSUME Types, NEW t \in Tx, NEW s \in Supplier, NEW l \in Lines
  PROVE  /\ Draft(t, s, l) \in Bill
         /\ \A n \in Nat : [Draft(t, s, l) EXCEPT !.status = ReceivedStatus(0, n)] \in Bill
<1>1. Worth(l) \in Nat /\ tx[t].at \in Nat
  BY WorthNat DEF Types, TxOK, TxState
<1>2. PICK w \in Nat : w = Worth(l)
  BY <1>1
<1>3. Draft(t, s, l) = [status |-> "draft", sup |-> s, lines |-> l, total |-> w, paid |-> 0,
                        credited |-> 0, at |-> tx[t].at]
  <2>1. PICK z : z = CHOOSE q \in Supplier : TRUE
    OBVIOUS
  <2>2. PICK e : e = Idle.want
    OBVIOUS
  <2>3. NoBill = [status |-> "none", sup |-> z, lines |-> e, total |-> 0, paid |-> 0, credited |-> 0,
                  at |-> 0]
    BY <2>1, <2>2 DEF NoBill
  <2>4. Draft(t, s, l) = [NoBill EXCEPT !.status = "draft", !.sup = s, !.lines = l, !.total = w,
                                        !.at = tx[t].at]
    BY <1>2 DEF Draft
  <2> QED BY <2>3, <2>4
<1>4. \A n \in Nat : ReceivedStatus(0, n) \in {"paid", "partial", "received"}
  BY DEF ReceivedStatus
<1>5. Draft(t, s, l) \in Bill
  BY <1>1, <1>2, <1>3 DEF Bill, Status
<1>6. ASSUME NEW n \in Nat PROVE [Draft(t, s, l) EXCEPT !.status = ReceivedStatus(0, n)] \in Bill
  <2>1. PICK k \in {"paid", "partial", "received"} : k = ReceivedStatus(0, n)
    BY <1>4
  <2> QED BY <1>5, <2>1 DEF Bill, Status, Received
<1> QED BY <1>5, <1>6

-----------------------------------------------------------------------------
(***************************************************************************)
(* The statements.  Each leaves the transaction where another takes over, or *)
(* idle; only MoveTx moves money, and only it holds a place.                *)
(***************************************************************************)
\* The places are as they were.
PlacesKept == \A p \in Place : lock'[p] = lock[p] /\ com'[p] = com[p] /\ cur'[p] = cur[p]

\* A statement that t goes on after.
GoesOn(t) == \E x : /\ TxOK(x, served) /\ x.at = tx[t].at /\ x.pc # "idle"
                    /\ MovesIn(x.mine) = MovesIn(tx[t].mine)
                    /\ Become(t, x) /\ PlacesKept

\* A statement that was the last of t, and left no row: it failed or stood alone.
GivesUp(t) == /\ Become(t, Idle)
              /\ \A p \in Place : /\ com'[p] = com[p] /\ cur'[p] \in {cur[p], com[p]}
                                  /\ lock[p] # t => lock'[p] = lock[p]

\* What the lemmas below say of every statement but MoveTx and Commit.
Stepped(t) == RowsOK' /\ (GoesOn(t) \/ GivesUp(t))

\* A row of a supplier or of a purchase is no place.
LEMMA WritesKeepPlaces ==
  ASSUME RowsOK, NEW t \in Tx
  PROVE  /\ UNCHANGED rowVars => PlacesKept
         /\ \A r \in Supplier \cup Purchase : \A v : DB!Write(t, r, v) => PlacesKept
         /\ \A r \in Supplier \cup Purchase : \A v : DB!Update(r, v) => PlacesKept
<1>1. \A p \in Place : p \notin Supplier \cup Purchase /\ p \in Row
  BY PayablesAssumption DEF Row
<1> HIDE DEF Place, Purchase, Row
<1> QED BY <1>1 DEF PlacesKept, RowsOK, rowVars, DB!Write, DB!Update

\* A transaction that fails.
LEMMA Failed ==
  ASSUME Types, NEW t \in Tx, Fail(t)
  PROVE  Stepped(t) /\ RowsOK' /\ GivesUp(t)
<1>1. RowsOK'
  BY RowTypes DEF Fail, Types
<1>2. \A p \in Place : p \in Row
  BY DEF Row
<1>3. Become(t, Idle)
  BY DEF Fail, Become
<1>4. \A p \in Place : /\ com'[p] = com[p] /\ cur'[p] \in {cur[p], com[p]}
                       /\ lock[p] # t => lock'[p] = lock[p]
  <2> HIDE DEF Place, Row
  <2> QED BY <1>2 DEF Fail, DB!Rollback, DB!Release, Types, RowsOK
<1> QED BY <1>1, <1>3, <1>4 DEF Stepped, GivesUp

\* What is known of a transaction at a statement.
LEMMA AtFacts ==
  ASSUME Types, NEW t \in Tx
  PROVE  /\ tx[t] \in TxState /\ TxOK(tx[t], served) /\ RowsOK /\ served \in Nat
         /\ tx[t].pc \in Statement /\ tx[t].want \in Lines /\ tx[t].alloc \in SUBSET Part
         /\ tx[t].old \in Nat /\ tx[t].rest \in Nat /\ tx[t].left \in Int /\ tx[t].seen \in Int
         /\ tx[t].mine \in SUBSET AnyRow /\ tx[t].at \in Nat
         /\ tx[t].pc # "idle" => tx[t].req \in Request /\ tx[t].at \in 1 .. served
BY DEF Types, TxOK, TxState, Shape

\* Where a transaction that has moved nothing goes on.
LEMMA StepTo ==
  ASSUME Types, NEW t \in Tx, NEW x \in TxState, Become(t, x), RowsOK', PlacesKept,
         x.pc # "idle", x.at = tx[t].at, Shape(x, served), CashOK(x),
         IsFiniteSet(x.mine), \A m \in x.mine : Stamp(m) = x.at,
         MovesIn(x.mine) = MovesIn(tx[t].mine), x.alloc = tx[t].alloc \/ DebtSet(x.alloc)
  PROVE  Stepped(t)
<1>1. DebtSet(x.alloc)
  BY AtFacts DEF TxOK
<1> QED BY <1>1 DEF Stepped, GoesOn, TxOK

\* A statement before any money is spoken of: it may insert rows of other kinds.
LEMMA PlainStep ==
  ASSUME Types, NEW t \in Tx, NEW x \in TxState, Become(t, x), RowsOK', PlacesKept,
         tx[t].pc \notin Paying \cup {"idle", "move", "commit"},
         x.pc \notin Paying \cup {"idle", "move"}, x.at = tx[t].at, Shape(x, served),
         x.alloc = tx[t].alloc \/ DebtSet(x.alloc),
         NEW U, IsFiniteSet(U), x.mine \subseteq tx[t].mine \cup U,
         \A m \in U : m.kind \notin CashKinds \cup {"move"} /\ Stamp(m) = tx[t].at
  PROVE  Stepped(t)
<1>1. TxOK(tx[t], served)
  BY AtFacts
<1>2. CashDocs(tx[t].mine) = {} /\ MovesIn(tx[t].mine) = {}
  BY <1>1 DEF TxOK, CashOK
<1>3. CashDocs(x.mine) = {} /\ MovesIn(x.mine) = {}
  BY <1>2 DEF CashDocs, MovesIn
<1>4. CashOK(x)
  BY <1>3 DEF CashOK
<1>5. IsFiniteSet(x.mine)
  BY <1>1, FS_Union, FS_Subset DEF TxOK
<1>6. \A m \in x.mine : Stamp(m) = x.at
  BY <1>1 DEF TxOK
<1> QED BY <1>2, <1>3, <1>4, <1>5, <1>6, StepTo

\* Such a statement inserts nothing.
LEMMA QuietStep ==
  ASSUME Types, NEW t \in Tx, NEW x \in TxState, Become(t, x), RowsOK', PlacesKept,
         tx[t].pc \notin Paying \cup {"idle", "move", "commit"},
         x.pc \notin Paying \cup {"idle", "move"}, x.at = tx[t].at, Shape(x, served),
         x.alloc = tx[t].alloc \/ DebtSet(x.alloc),
         x.mine = tx[t].mine
  PROVE  Stepped(t)
BY PlainStep, FS_EmptySet

\* InsertDraft: the next draft of the order.
LEMMA InsertDraftStep ==
  ASSUME Types, NEW t \in Tx, InsertDraft(t)
  PROVE  Stepped(t)
<1>1. tx[t] \in TxState /\ tx[t].pc = "draft" /\ RowsOK
  BY AtFacts DEF InsertDraft, At
<1>2. Shape(tx[t], served)
  BY AtFacts DEF TxOK
<1>3. /\ tx[t].req \in Request /\ tx[t].at \in 1 .. served /\ tx[t].req.op = "order"
      /\ tx[t].left \in 0 .. Len(tx[t].req.drafts) - 1
  BY <1>1, <1>2 DEF Shape
<1>4. tx[t].req.drafts \in Seq([sup : Supplier, lines : Lines])
  BY <1>3, RequestFields
<1>5. PICK k \in Nat : k = Len(tx[t].req.drafts)
  BY <1>4
<1>6. PICK n \in Int : n = tx[t].left + 1 /\ n \in 1 .. k
  <2>1. PICK m \in Nat : m = tx[t].left /\ m <= k - 1
    BY <1>3, <1>5
  <2> QED BY <1>5, <2>1
<1>7. PICK d \in [sup : Supplier, lines : Lines] : d = tx[t].req.drafts[n]
  <2> DEFINE D == [sup : Supplier, lines : Lines]
  <2>1. PICK q : q = tx[t].req.drafts
    OBVIOUS
  <2>2. q \in Seq(D) /\ n \in 1 .. Len(q)
    BY <1>4, <1>5, <1>6, <2>1
  <2> HIDE DEF D
  <2>3. q[n] \in D
    BY <2>2, ElementOfSeq
  <2> QED BY <2>1, <2>3 DEF D
<1>8. PICK s \in Statement : s = IF n < Len(R(t).drafts) THEN "draft" ELSE "commit"
  BY DEF Statement
<1>9. PICK i \in Purchase : DB!Write(t, i, Draft(t, d.sup, d.lines))
  BY <1>6, <1>7 DEF InsertDraft, R
<1>10. Draft(t, d.sup, d.lines) \in Bill
  BY DraftType
<1> DEFINE x == [tx[t] EXCEPT !.left = n, !.pc = s]
<1>11. Become(t, x)
  BY <1>6, <1>7, <1>8 DEF InsertDraft, R
<1>12. /\ x \in TxState /\ x.mine = tx[t].mine /\ x.at = tx[t].at /\ x.req = tx[t].req /\ x.pc = s
       /\ x.left = n /\ x.inv = tx[t].inv /\ x.alloc = tx[t].alloc
  BY <1>1 DEF TxState
<1>13. s = "draft" => n \in 0 .. k - 1
  BY <1>5, <1>6, <1>8 DEF R
<1>14. s \in {"draft", "commit"}
  BY <1>8
<1> HIDE DEF x
<1>15. Shape(x, served)
  BY <1>3, <1>5, <1>12, <1>13, <1>14 DEF Shape, Delivery, Paying
<1>16. RowsOK' /\ PlacesKept
  BY <1>1, <1>9, <1>10, RowTypes, WritesKeepPlaces
<1>17. x.pc \notin Paying \cup {"idle", "move"} /\ tx[t].pc \notin Paying \cup {"idle", "move", "commit"}
  BY <1>1, <1>12, <1>14 DEF Paying
<1> QED BY <1>11, <1>12, <1>15, <1>16, <1>17, QuietStep

\* FindOrder: a draft is edited or received, anything else is refused.
LEMMA FindOrderStep ==
  ASSUME Types, NEW t \in Tx, FindOrder(t)
  PROVE  Stepped(t)
<1>1. tx[t] \in TxState /\ tx[t].pc = "find" /\ RowsOK
  BY AtFacts DEF FindOrder, At
<1>2. Shape(tx[t], served)
  BY AtFacts DEF TxOK
<1>3. /\ tx[t].req \in Request /\ tx[t].at \in 1 .. served /\ tx[t].req.op \in {"edit", "receive"}
      /\ tx[t].inv = tx[t].req.inv
  BY <1>1, <1>2 DEF Shape
<1>4. CASE See(t, tx[t].inv).status # "draft"
  BY <1>4, Failed DEF FindOrder
<1>5. CASE See(t, tx[t].inv).status = "draft"
  <2>1. tx[t].inv \in Purchase
    BY <1>3, RequestFields
  <2>2. See(t, tx[t].inv).lines \in Lines
    BY <1>1, <2>1, Seen DEF Bill
  <2> DEFINE x == [tx[t] EXCEPT !.want = See(t, tx[t].inv).lines, !.pc = R(t).op]
  <2>3. Become(t, x) /\ UNCHANGED rowVars
    BY <1>5 DEF FindOrder, Read
  <2>4. /\ x \in TxState /\ x.mine = tx[t].mine /\ x.at = tx[t].at /\ x.req = tx[t].req /\ x.alloc = tx[t].alloc
        /\ x.pc = tx[t].req.op /\ x.inv = tx[t].inv
    BY <1>1, <1>3, <2>2 DEF TxState, Statement, R
  <2> HIDE DEF x
  <2>5. Shape(x, served)
    BY <1>3, <2>4 DEF Shape, Delivery, Paying
  <2>6. RowsOK' /\ PlacesKept
    BY <1>1, <2>3, RowTypes, WritesKeepPlaces
  <2>7. x.pc \notin Paying \cup {"idle", "move"} /\ tx[t].pc \notin Paying \cup {"idle", "move", "commit"}
    BY <1>1, <1>3, <2>4 DEF Paying
  <2> QED BY <2>3, <2>4, <2>5, <2>6, <2>7, QuietStep
<1> QED BY <1>4, <1>5

\* RewriteDraft: the new lines, unless the purchase has gone.
LEMMA RewriteDraftStep ==
  ASSUME Types, NEW t \in Tx, RewriteDraft(t)
  PROVE  Stepped(t)
<1>1. tx[t] \in TxState /\ tx[t].pc = "edit" /\ RowsOK
  BY AtFacts DEF RewriteDraft, At
<1>2. Shape(tx[t], served)
  BY AtFacts DEF TxOK
<1>3. /\ tx[t].req \in Request /\ tx[t].at \in 1 .. served /\ tx[t].req.op = "edit"
      /\ tx[t].inv = tx[t].req.inv
  BY <1>1, <1>2 DEF Shape
<1>4. tx[t].inv \in Purchase /\ tx[t].req.lines \in Lines
  BY <1>3, RequestFields
<1> DEFINE i == tx[t].inv
           b == [cur[i] EXCEPT !.status = "draft", !.lines = tx[t].req.lines,
                               !.total = Worth(tx[t].req.lines), !.paid = 0]
           x == [tx[t] EXCEPT !.pc = "commit"]
<1>5. CASE cur[i].status = "gone"
  BY <1>5, Failed DEF RewriteDraft
<1>6. CASE cur[i].status # "gone"
  <2>1. DB!Write(t, i, b) /\ Become(t, x)
    BY <1>6 DEF RewriteDraft, R, Goto
  <2>2. b \in Bill
    <3>1. PICK w \in Nat : w = Worth(tx[t].req.lines)
      BY <1>4, WorthNat
    <3>2. PICK c \in Bill : c = cur[i]
      BY <1>1, <1>4 DEF RowsOK
    <3>3. PICK l \in Lines : l = tx[t].req.lines
      BY <1>4
    <3>4. b = [c EXCEPT !.status = "draft", !.lines = l, !.total = w, !.paid = 0]
      BY <3>1, <3>2, <3>3
    <3>5. PICK s \in Status : s = "draft"
      BY DEF Status
    <3>6. [c EXCEPT !.status = s, !.lines = l, !.total = w, !.paid = 0] \in Bill
      BY RewrittenType
    <3> QED BY <3>4, <3>5, <3>6
  <2>3. /\ x \in TxState /\ x.mine = tx[t].mine /\ x.at = tx[t].at /\ x.req = tx[t].req /\ x.alloc = tx[t].alloc
        /\ x.pc = "commit" /\ x.inv = tx[t].inv
    BY <1>1 DEF TxState, Statement
  <2> HIDE DEF x, b
  <2>4. Shape(x, served)
    BY <1>3, <2>3 DEF Shape, Delivery, Paying
  <2>5. RowsOK' /\ PlacesKept
    BY <1>1, <1>4, <2>1, <2>2, RowTypes, WritesKeepPlaces
  <2>6. x.pc \notin Paying \cup {"idle", "move"} /\ tx[t].pc \notin Paying \cup {"idle", "move", "commit"}
    BY <1>1, <2>3 DEF Paying
  <2> QED BY <2>1, <2>3, <2>4, <2>5, <2>6, QuietStep
<1> QED BY <1>5, <1>6

\* DeleteDraft and Adjust are statements that stand alone.
LEMMA AloneStep ==
  ASSUME Types, NEW t \in Tx, DeleteDraft(t) \/ Adjust(t)
  PROVE  Stepped(t)
<1>1. tx[t] \in TxState /\ tx[t].pc \in {"drop", "adjust"} /\ RowsOK
  BY AtFacts DEF DeleteDraft, Adjust, At
<1>2. Shape(tx[t], served)
  BY AtFacts DEF TxOK
<1>3. tx[t].req \in Request /\ tx[t].req.op = tx[t].pc /\ (tx[t].pc = "drop" => tx[t].inv = tx[t].req.inv)
  BY <1>1, <1>2 DEF Shape
<1>4. ASSUME PlacesKept, Become(t, Idle), RowsOK' PROVE Stepped(t)
  BY <1>4 DEF Stepped, GivesUp, PlacesKept
<1>5. CASE DeleteDraft(t)
  <2>1. tx[t].inv \in Purchase
    BY <1>3, <1>5, RequestFields DEF DeleteDraft, At
  <2>2. (IF com[tx[t].inv].status = "draft" THEN [com[tx[t].inv] EXCEPT !.status = "gone"]
           ELSE com[tx[t].inv]) \in Bill
    BY <1>1, <2>1, BillTypes DEF RowsOK
  <2> QED BY <1>1, <1>4, <1>5, <2>1, <2>2, RowTypes, WritesKeepPlaces DEF DeleteDraft
<1>6. CASE Adjust(t)
  <2>1. tx[t].req.sup \in Supplier /\ tx[t].req.amount \in Int
    BY <1>3, <1>6, RequestFields DEF Adjust, At
  <2>2. AdjustOpening(com[tx[t].req.sup], tx[t].req.amount) \in Account
    BY <1>1, <2>1, AccountTypes DEF RowsOK
  <2> QED BY <1>1, <1>4, <1>6, <2>1, <2>2, RowTypes, WritesKeepPlaces DEF Adjust, R
<1> QED BY <1>5, <1>6

-----------------------------------------------------------------------------
(***************************************************************************)
(* Deliveries.                                                             *)
(***************************************************************************)
\* A row is of one of the kinds, with the fields of its kind.
LEMMA RowKinds ==
  ASSUME NEW m \in AnyRow
  PROVE  /\ m.kind \in {"payment", "return", "refund", "allocation", "receipt", "expense", "move"}
         /\ m.kind \in {"payment", "return", "refund"} =>
              /\ m \in Document /\ m.id \in Int /\ m.sup \in Supplier /\ m.amount \in Nat
              /\ m.from \in Place \cup {External}
         /\ m.kind = "allocation" =>
              /\ m \in Use /\ m.doc \in Int /\ m.of \in {"payment", "return"} /\ m.inv \in Purchase
              /\ m.amount \in Nat \ {0} /\ m.by \in Nat
         /\ m.kind = "receipt" =>
              /\ m \in Receipt /\ m.inv \in Purchase /\ m.sup \in Supplier /\ m.lines \in Lines
              /\ m.by \in Nat /\ m.keep \in BOOLEAN
         /\ m.kind = "expense" => m \in Expense /\ m.id \in Nat /\ m.amount \in Nat
         /\ m.kind = "move" => m \in Move /\ m.doc \in Nat /\ m.place \in Place /\ m.amount \in Int
<1> HIDE DEF Place, Lines, Purchase
<1>1. m \in Document \/ m \in Use \/ m \in Receipt \/ m \in Expense \/ m \in Move
  BY DEF AnyRow
<1> QED BY <1>1 DEF Document, Use, Receipt, Expense, Move

\* Rows with amounts.
LEMMA AmountsNat ==
  ASSUME NEW S, IsFiniteSet(S), \A x \in S : x.amount \in Nat
  PROVE  Amounts(S) \in Nat /\ \A x \in S : x.amount <= Amounts(S)
<1> DEFINE f == [x \in S |-> x.amount]
<1>1. \A x \in S : f[x] \in Nat
  OBVIOUS
<1> HIDE DEF f
<1>2. SumFunctionOnSet(f, S) \in Nat /\ \A i \in S : f[i] <= SumFunctionOnSet(f, S)
  BY <1>1, SumNat
<1> QED BY <1>2 DEF Amounts, f

\* The rows a transaction can see.
LEMMA RowsSeen ==
  ASSUME Types, NEW t \in Tx
  PROVE  IsFiniteSet(Rows(t)) /\ Rows(t) \subseteq AnyRow
BY FS_Union DEF Types, TxOK, TxState, Rows

\* What has been allocated of a document.
LEMMA UsedNat ==
  ASSUME NEW S, IsFiniteSet(S), S \subseteq AnyRow, NEW k, NEW i
  PROVE  Used(S, k, i) \in Nat
<1> DEFINE Q == {x \in S : x.kind = "allocation" /\ x.of = k /\ x.doc = i}
<1>1. IsFiniteSet(Q) /\ \A x \in Q : x.amount \in Nat
  BY RowKinds, FS_Subset
<1> HIDE DEF Q
<1>2. Amounts(Q) \in Nat
  BY <1>1, AmountsNat
<1> QED BY <1>2 DEF Used, Q

\* Pools a delivery may draw on.
LEMMA UnappliedTypes ==
  ASSUME Types, NEW t \in Tx, NEW k \in {"payment", "return"}
  PROVE  IsFiniteSet(Unapplied(t, k)) /\ Unapplied(t, k) \subseteq [id : Int, at : Int, n : Nat \ {0}]
<1> DEFINE docs == {x \in Rows(t) : x.kind = k /\ x.sup = Sup(t)}
           g == [x \in docs |-> [id |-> x.id, at |-> x.id, n |-> x.amount - Used(Rows(t), k, x.id)]]
           pool == {g[x] : x \in docs}
<1>1. IsFiniteSet(docs) /\ docs \subseteq AnyRow
  BY RowsSeen, FS_Subset
<1>2. IsFiniteSet(pool)
  <2> HIDE DEF docs, g
  <2> QED BY <1>1, FiniteImage
<1>3. \A x \in docs : g[x] \in [id : Int, at : Int, n : Int]
  <2> SUFFICES ASSUME NEW x \in docs PROVE g[x] \in [id : Int, at : Int, n : Int]
    OBVIOUS
  <2>1. x.id \in Int /\ x.amount \in Nat /\ Used(Rows(t), k, x.id) \in Nat
    BY <1>1, RowKinds, RowsSeen, UsedNat
  <2>2. PICK i \in Int, n \in Int : i = x.id /\ n = x.amount - Used(Rows(t), k, x.id)
    BY <2>1
  <2>3. g[x] = [id |-> i, at |-> i, n |-> n]
    BY <2>2
  <2> QED BY <2>3
<1>4. Unapplied(t, k) = {x \in pool : x.n > 0}
  BY DEF Unapplied
<1>5. pool \subseteq [id : Int, at : Int, n : Int]
  BY <1>3
<1> HIDE DEF pool, docs, g
<1>6. IsFiniteSet(Unapplied(t, k))
  BY <1>2, <1>4, FS_Subset
<1>7. \A x \in [id : Int, at : Int, n : Int] : x.n > 0 => x \in [id : Int, at : Int, n : Nat \ {0}]
  OBVIOUS
<1> QED BY <1>4, <1>5, <1>6, <1>7

\* The parts of an amount, and what they come to.
LEMMA CascadeTypes ==
  ASSUME NEW I, NEW A, NEW D, IsFiniteSet(D), D \subseteq [id : I, at : A, n : Nat \ {0}], NEW a \in Int
  PROVE  /\ IsFiniteSet(Cascade(D, a)) /\ Cascade(D, a) \subseteq [id : I, at : A, n : Nat \ {0}]
         /\ Given(Cascade(D, a)) \in Nat
<1>0. ASSUME NEW S, IsFiniteSet(S), \A x \in S : x.n \in Nat PROVE Given(S) \in Nat
  <2> DEFINE f == [x \in S |-> x.n]
  <2>1. \A x \in S : f[x] \in Nat
    BY <1>0
  <2> HIDE DEF f
  <2>2. SumFunctionOnSet(f, S) \in Nat
    BY <1>0, <2>1, SumNat
  <2> QED BY <2>2 DEF Given, f
<1> DEFINE S == {y \in D : Share(D, a, y) > 0}
           g == [x \in S |-> [x EXCEPT !.n = Share(D, a, x)]]
           C == {g[x] : x \in S}
<1>1. \A x \in D : Share(D, a, x) \in Int
  <2> SUFFICES ASSUME NEW x \in D PROVE Share(D, a, x) \in Int
    OBVIOUS
  <2>1. IsFiniteSet({y \in D : First(y, x)}) /\ \A y \in D : y.n \in Nat
    BY FS_Subset
  <2>2. Given({y \in D : First(y, x)}) \in Nat
    BY <1>0, <2>1
  <2>3. PICK h \in Nat, k \in Nat : h = Given({y \in D : First(y, x)}) /\ k = x.n
    BY <2>1, <2>2
  <2> QED BY <2>3 DEF Share, Smaller, Larger
<1>2. Cascade(D, a) = C
  BY DEF Cascade
<1>3. \A x \in S : g[x] \in [id : I, at : A, n : Nat \ {0}]
  <2> SUFFICES ASSUME NEW x \in S PROVE g[x] \in [id : I, at : A, n : Nat \ {0}]
    OBVIOUS
  <2>1. PICK k \in Nat \ {0} : k = Share(D, a, x)
    BY <1>1
  <2>2. g[x] = [x EXCEPT !.n = k] /\ x \in [id : I, at : A, n : Nat \ {0}]
    BY <2>1
  <2> QED BY <2>2
<1>4. IsFiniteSet(S)
  BY FS_Subset
<1> HIDE DEF S, g
<1>5. IsFiniteSet(C)
  BY <1>4, FiniteImage
<1>6. C \subseteq [id : I, at : A, n : Nat \ {0}]
  BY <1>3
<1> HIDE DEF C
<1>7. Given(C) \in Nat
  BY <1>0, <1>5, <1>6
<1> QED BY <1>2, <1>5, <1>6, <1>7

\* The supplier of a delivery.
LEMMA SupplierOf ==
  ASSUME Types, NEW t \in Tx, tx[t].req \in Request,
         tx[t].req.op \in {"deliver", "receive", "pay", "return", "refund", "adjust"},
         tx[t].req.op = "receive" => tx[t].inv \in Purchase
  PROVE  Sup(t) \in Supplier
<1>1. CASE tx[t].req.op = "receive"
  <2>1. See(t, tx[t].inv) \in Bill
    BY <1>1, Seen DEF Types
  <2> QED BY <1>1, <2>1 DEF Sup, R, Bill
<1>2. CASE tx[t].req.op # "receive"
  BY <1>2, RequestFields DEF Sup, R
<1> QED BY <1>1, <1>2

\* A delivery at one of its statements.
LEMMA DeliveryFacts ==
  ASSUME Types, NEW t \in Tx, tx[t].pc \in Delivery
  PROVE  /\ tx[t].req \in Request /\ tx[t].at \in 1 .. served /\ tx[t].inv \in Purchase
         /\ tx[t].req.op \in {"deliver", "receive"} /\ (tx[t].req.op = "receive" => tx[t].inv = tx[t].req.inv)
         /\ tx[t].req.lines \in Lines /\ tx[t].req.pay \in Nat
         /\ Sup(t) \in Supplier /\ tx[t].pc \notin Paying \cup {"idle", "move", "commit"}
<1>1. Shape(tx[t], served)
  BY AtFacts DEF TxOK
<1>2. tx[t].pc \notin Paying \cup {"idle", "move", "commit"}
  BY DEF Delivery, Paying
<1>3. /\ tx[t].req \in Request /\ tx[t].at \in 1 .. served /\ tx[t].inv \in Purchase
      /\ tx[t].req.op \in {"deliver", "receive"} /\ (tx[t].req.op = "receive" => tx[t].inv = tx[t].req.inv)
  BY <1>1, <1>2 DEF Shape
<1>4. Sup(t) \in Supplier
  BY <1>3, SupplierOf
<1> QED BY <1>2, <1>3, <1>4, RequestFields

\* A delivery goes on to another of its statements.
LEMMA DeliveryStep ==
  ASSUME Types, NEW t \in Tx, NEW x \in TxState, Become(t, x), RowsOK', PlacesKept,
         tx[t].pc \in Delivery, x.pc \in Delivery \cup {"commit", "load"}, x.at = tx[t].at,
         x.req = tx[t].req, x.inv = tx[t].inv, x.alloc = tx[t].alloc \/ DebtSet(x.alloc),
         NEW U, IsFiniteSet(U), x.mine \subseteq tx[t].mine \cup U,
         \A m \in U : m.kind \notin CashKinds \cup {"move"} /\ Stamp(m) = tx[t].at
  PROVE  Stepped(t)
<1>1. x.pc \notin Paying \cup {"idle", "move"}
  BY DEF Delivery, Paying
<1>2. Shape(x, served)
  BY DeliveryFacts DEF Shape, Delivery, Paying
<1> QED BY <1>1, <1>2, DeliveryFacts, PlainStep

\* .. without a row.
LEMMA DeliveryQuiet ==
  ASSUME Types, NEW t \in Tx, NEW x \in TxState, Become(t, x), RowsOK', PlacesKept,
         tx[t].pc \in Delivery, x.pc \in Delivery \cup {"commit", "load"}, x.at = tx[t].at,
         x.req = tx[t].req, x.inv = tx[t].inv, x.alloc = tx[t].alloc \/ DebtSet(x.alloc), x.mine = tx[t].mine
  PROVE  Stepped(t)
BY DeliveryStep, FS_EmptySet

\* A receipt is what its transaction inserts.
LEMMA ReceiptType ==
  ASSUME Types, NEW t \in Tx, NEW i \in Purchase, NEW s \in Supplier,
         tx[t].req \in Request, tx[t].req.op \in {"deliver", "receive"}
  PROVE  /\ NewReceipt(t, i, s) \in AnyRow /\ NewReceipt(t, i, s).kind = "receipt"
         /\ Stamp(NewReceipt(t, i, s)) = tx[t].at
<1>1. tx[t].at \in Nat /\ tx[t].req.lines \in Lines
  BY AtFacts, RequestFields
<1>2. PICK k \in BOOLEAN : k = (R(t).op = "receive" /\ R(t).keep)
  BY RequestFields DEF R
<1>3. NewReceipt(t, i, s) = [kind |-> "receipt", inv |-> i, sup |-> s, lines |-> tx[t].req.lines,
                             by |-> tx[t].at, keep |-> k]
  BY <1>2 DEF NewReceipt, R
<1>4. NewReceipt(t, i, s) \in Receipt
  BY <1>1, <1>3 DEF Receipt
<1> QED BY <1>3, <1>4 DEF Stamp, AnyRow

\* InsertPurchase: goods without an order.
LEMMA InsertPurchaseStep ==
  ASSUME Types, NEW t \in Tx, InsertPurchase(t)
  PROVE  Stepped(t)
<1>1. tx[t] \in TxState /\ tx[t].pc = "insert" /\ RowsOK
  BY AtFacts DEF InsertPurchase, At
<1>2. Shape(tx[t], served)
  BY AtFacts DEF TxOK
<1>3. tx[t].req \in Request /\ tx[t].at \in 1 .. served /\ tx[t].req.op = "deliver"
  BY <1>1, <1>2 DEF Shape
<1>4. tx[t].req.sup \in Supplier /\ tx[t].req.lines \in Lines
  BY <1>3, RequestFields
<1> DEFINE b == [Draft(t, tx[t].req.sup, tx[t].req.lines)
                   EXCEPT !.status = ReceivedStatus(0, Worth(tx[t].req.lines))]
<1>5. PICK i \in Purchase : /\ DB!Write(t, i, b)
                            /\ Become(t, [tx[t] EXCEPT !.pc = "bill", !.inv = i,
                                                       !.mine = {NewReceipt(t, i, tx[t].req.sup)}])
  BY DEF InsertPurchase, R
<1>6. b \in Bill
  BY <1>4, WorthNat, DraftType
<1>7. PICK m : m = NewReceipt(t, i, tx[t].req.sup)
  OBVIOUS
<1>8. m \in AnyRow /\ m.kind = "receipt" /\ Stamp(m) = tx[t].at
  BY <1>3, <1>4, <1>7, ReceiptType
<1> DEFINE x == [tx[t] EXCEPT !.pc = "bill", !.inv = i, !.mine = {m}]
<1>9. x \in TxState /\ x.pc = "bill" /\ x.inv = i /\ x.mine = {m} /\ x.at = tx[t].at /\ x.req = tx[t].req /\ x.alloc = tx[t].alloc
  BY <1>1, <1>8 DEF TxState, Statement, Delivery
<1>10. Become(t, x)
  BY <1>5, <1>7
<1> HIDE DEF x, b
<1>11. Shape(x, served)
  BY <1>3, <1>9 DEF Shape, Delivery, Paying
<1>12. RowsOK' /\ PlacesKept
  BY <1>1, <1>5, <1>6, RowTypes, WritesKeepPlaces
<1>13. x.pc \notin Paying \cup {"idle", "move"} /\ tx[t].pc \notin Paying \cup {"idle", "move", "commit"}
  BY <1>1, <1>9 DEF Paying
<1>14. IsFiniteSet({m}) /\ x.mine \subseteq tx[t].mine \cup {m}
  BY <1>9, FS_Singleton
<1>15. \A n \in {m} : n.kind \notin CashKinds \cup {"move"} /\ Stamp(n) = tx[t].at
  BY <1>8 DEF CashKinds
<1> QED BY <1>9, <1>10, <1>11, <1>12, <1>13, <1>14, <1>15, PlainStep

\* UpdateHeader: the goods of a draft.
LEMMA UpdateHeaderStep ==
  ASSUME Types, NEW t \in Tx, UpdateHeader(t)
  PROVE  Stepped(t)
<1>1. tx[t] \in TxState /\ tx[t].pc = "receive" /\ RowsOK
  BY AtFacts DEF UpdateHeader, At
<1>2. Shape(tx[t], served)
  BY AtFacts DEF TxOK
<1>3. /\ tx[t].req \in Request /\ tx[t].at \in 1 .. served /\ tx[t].req.op = "receive"
      /\ tx[t].inv = tx[t].req.inv
  BY <1>1, <1>2 DEF Shape
<1>4. tx[t].inv \in Purchase /\ tx[t].req.lines \in Lines
  BY <1>3, RequestFields
<1>5. cur[tx[t].inv] \in Bill /\ cur[tx[t].inv].sup \in Supplier
  BY <1>1, <1>4 DEF RowsOK, Bill
<1> DEFINE i == tx[t].inv
           b == [cur[i] EXCEPT !.status = ReceivedStatus(0, Worth(tx[t].req.lines)),
                               !.lines = tx[t].req.lines, !.total = Worth(tx[t].req.lines), !.paid = 0]
<1>6. CASE cur[i].status = "gone"
  BY <1>6, Failed DEF UpdateHeader
<1>7. CASE cur[i].status # "gone"
  <2>1. /\ DB!Write(t, i, b)
        /\ Become(t, [tx[t] EXCEPT !.pc = "bill", !.mine = {NewReceipt(t, i, cur[i].sup)}])
    BY <1>7 DEF UpdateHeader, R
  <2>2. b \in Bill
    <3>1. PICK w \in Nat : w = Worth(tx[t].req.lines)
      BY <1>4, WorthNat
    <3>2. PICK c \in Bill, l \in Lines : c = cur[i] /\ l = tx[t].req.lines
      BY <1>4, <1>5
    <3>3. PICK s \in Status : s = ReceivedStatus(0, w)
      BY DEF ReceivedStatus, Status, Received
    <3>4. b = [c EXCEPT !.status = s, !.lines = l, !.total = w, !.paid = 0]
      BY <3>1, <3>2, <3>3
    <3>5. [c EXCEPT !.status = s, !.lines = l, !.total = w, !.paid = 0] \in Bill
      BY RewrittenType
    <3> QED BY <3>4, <3>5
  <2>3. PICK m : m = NewReceipt(t, i, cur[i].sup)
    OBVIOUS
  <2>4. m \in AnyRow /\ m.kind = "receipt" /\ Stamp(m) = tx[t].at
    BY <1>3, <1>4, <1>5, <2>3, ReceiptType
  <2> DEFINE x == [tx[t] EXCEPT !.pc = "bill", !.mine = {m}]
  <2>5. /\ x \in TxState /\ x.pc = "bill" /\ x.inv = i /\ x.mine = {m} /\ x.at = tx[t].at
        /\ x.req = tx[t].req /\ x.alloc = tx[t].alloc
    BY <1>1, <2>4 DEF TxState, Statement, Delivery
  <2>6. Become(t, x)
    BY <2>1, <2>3
  <2> HIDE DEF x, b
  <2>7. Shape(x, served)
    BY <1>3, <1>4, <2>5 DEF Shape, Delivery, Paying
  <2>8. RowsOK' /\ PlacesKept
    BY <1>1, <1>4, <2>1, <2>2, RowTypes, WritesKeepPlaces
  <2>9. x.pc \notin Paying \cup {"idle", "move"} /\ tx[t].pc \notin Paying \cup {"idle", "move", "commit"}
    BY <1>1, <2>5 DEF Paying
  <2>10. IsFiniteSet({m}) /\ x.mine \subseteq tx[t].mine \cup {m}
    BY <2>5, FS_Singleton
  <2>11. \A n \in {m} : n.kind \notin CashKinds \cup {"move"} /\ Stamp(n) = tx[t].at
    BY <2>4 DEF CashKinds
  <2> QED BY <2>5, <2>6, <2>7, <2>8, <2>9, <2>10, <2>11, PlainStep
<1> QED BY <1>6, <1>7

\* AddPayable: the supplier is owed the worth of the goods.
LEMMA AddPayableStep ==
  ASSUME Types, NEW t \in Tx, AddPayable(t)
  PROVE  Stepped(t)
<1>1. tx[t] \in TxState /\ tx[t].pc = "bill" /\ RowsOK /\ tx[t].pc \in Delivery
  BY AtFacts DEF AddPayable, At, Delivery
<1>2. Sup(t) \in Supplier /\ tx[t].req.lines \in Lines
  BY <1>1, DeliveryFacts
<1>3. PICK w \in Nat : w = Worth(tx[t].req.lines)
  BY <1>2, WorthNat
<1>4. AddBalance(cur[Sup(t)], w) \in Account
  BY <1>1, <1>2, AccountTypes DEF RowsOK
<1>5. DB!Write(t, Sup(t), AddBalance(cur[Sup(t)], w)) \/ UNCHANGED rowVars
  BY <1>3 DEF AddPayable, R, Read
<1>6. RowsOK' /\ PlacesKept
  BY <1>1, <1>2, <1>4, <1>5, RowTypes, WritesKeepPlaces
<1> DEFINE x == [tx[t] EXCEPT !.pc = "credit"]
<1>7. Become(t, x)
  BY DEF AddPayable, Goto
<1>8. /\ x \in TxState /\ x.pc = "credit" /\ x.inv = tx[t].inv /\ x.mine = tx[t].mine
      /\ x.at = tx[t].at /\ x.req = tx[t].req /\ x.alloc = tx[t].alloc
  BY <1>1 DEF TxState, Statement, Delivery
<1>9. x.pc \in Delivery \cup {"commit", "load"}
  BY <1>8 DEF Delivery
<1> HIDE DEF x
<1> QED BY <1>1, <1>6, <1>7, <1>8, <1>9, DeliveryQuiet

\* ReadCredit: what the supplier held before.
LEMMA ReadCreditStep ==
  ASSUME Types, NEW t \in Tx, ReadCredit(t)
  PROVE  Stepped(t)
<1>1. tx[t] \in TxState /\ tx[t].pc = "credit" /\ RowsOK /\ tx[t].pc \in Delivery
  BY AtFacts DEF ReadCredit, At, Delivery
<1>2. PICK b \in Bill : b = See(t, tx[t].inv)
  BY <1>1, DeliveryFacts, Seen
<1>3. PICK n \in Int : n = Smaller(Balance(b), Credit(See(t, Sup(t)).out - b.total))
  <2>1. See(t, Sup(t)) \in Account
    BY <1>1, DeliveryFacts, Seen
  <2>2. See(t, Sup(t)).out \in Int /\ b.total \in Int
    BY <2>1 DEF Account, Bill
  <2>4. Balance(b) \in Int
    BY BillTypes
  <2>3. PICK o \in Int, k \in Int, m \in Int : o = See(t, Sup(t)).out /\ k = b.total /\ m = Balance(b)
    BY <2>2, <2>4
  <2> QED BY <2>3 DEF Smaller, Credit, Larger
<1>4. PICK s \in {"advances", "remainder"} : s = IF n > 0 THEN "advances" ELSE "remainder"
  OBVIOUS
<1> DEFINE x == [tx[t] EXCEPT !.left = n, !.pc = s]
<1>5. Become(t, x) /\ UNCHANGED rowVars
  BY <1>2, <1>3, <1>4 DEF ReadCredit, Read
<1>6. /\ x \in TxState /\ x.pc = s /\ x.inv = tx[t].inv /\ x.mine = tx[t].mine
      /\ x.at = tx[t].at /\ x.req = tx[t].req /\ x.alloc = tx[t].alloc
  BY <1>1 DEF TxState, Statement, Delivery
<1>7. x.pc \in Delivery \cup {"commit", "load"}
  BY <1>6 DEF Delivery
<1>8. RowsOK' /\ PlacesKept
  BY <1>1, <1>5, RowTypes, WritesKeepPlaces
<1> HIDE DEF x
<1> QED BY <1>1, <1>5, <1>6, <1>7, <1>8, DeliveryQuiet

\* What a delivery draws from pools of one kind.
LEMMA DrawTypes ==
  ASSUME Types, NEW t \in Tx, tx[t].pc \in Delivery, NEW k \in {"payment", "return"}
  PROVE  LET parts == Cascade(Unapplied(t, k), tx[t].left)
         IN /\ Given(parts) \in Nat
            /\ IsFiniteSet(Draws(t, k, parts)) /\ Draws(t, k, parts) \subseteq Use
            /\ \A m \in Draws(t, k, parts) : /\ m.kind = "allocation" /\ m.by = tx[t].at
                                             /\ Stamp(m) = tx[t].at
<1> DEFINE parts == Cascade(Unapplied(t, k), tx[t].left)
           g == [x \in parts |-> [kind |-> "allocation", doc |-> x.id, of |-> k, inv |-> tx[t].inv,
                                  amount |-> x.n, by |-> tx[t].at]]
<1>1. tx[t].left \in Int /\ tx[t].at \in Nat /\ tx[t].inv \in Purchase
  BY AtFacts, DeliveryFacts
<1>2. IsFiniteSet(Unapplied(t, k)) /\ Unapplied(t, k) \subseteq [id : Int, at : Int, n : Nat \ {0}]
  BY UnappliedTypes
<1>3. /\ IsFiniteSet(parts) /\ parts \subseteq [id : Int, at : Int, n : Nat \ {0}] /\ Given(parts) \in Nat
  BY <1>1, <1>2, CascadeTypes
<1> HIDE DEF parts
<1>4. Draws(t, k, parts) = {g[x] : x \in parts}
  BY DEF Draws
<1>5. \A x \in parts : g[x] \in Use /\ g[x].kind = "allocation" /\ g[x].by = tx[t].at
  <2> SUFFICES ASSUME NEW x \in parts PROVE g[x] \in Use /\ g[x].kind = "allocation" /\ g[x].by = tx[t].at
    OBVIOUS
  <2>1. x.id \in Int /\ x.n \in Nat \ {0}
    BY <1>3
  <2> QED BY <1>1, <2>1 DEF Use
<1> HIDE DEF g
<1>6. IsFiniteSet(Draws(t, k, parts))
  BY <1>3, <1>4, FiniteImage
<1>7. \A m \in Draws(t, k, parts) : m \in Use /\ m.kind = "allocation" /\ m.by = tx[t].at
  BY <1>4, <1>5
<1>8. \A m \in Draws(t, k, parts) : Stamp(m) = tx[t].at
  BY <1>7 DEF Stamp
<1>9. Draws(t, k, parts) \subseteq Use
  BY <1>7
<1> QED BY <1>3, <1>6, <1>7, <1>8, <1>9 DEF parts

\* DrawAdvances and DrawReturns: the pools go to the purchase.
LEMMA DrawStep ==
  ASSUME Types, NEW t \in Tx, DrawAdvances(t) \/ DrawReturns(t)
  PROVE  Stepped(t)
<1>1. tx[t] \in TxState /\ tx[t].pc \in {"advances", "credits"} /\ RowsOK
  BY AtFacts DEF DrawAdvances, DrawReturns, At
<1>2. tx[t].pc \in Delivery
  BY <1>1 DEF Delivery
<1>3. PICK b \in Bill : b = cur[tx[t].inv]
  BY <1>1, <1>2, DeliveryFacts DEF RowsOK
<1>4. ASSUME NEW k \in {"payment", "return"}, NEW parts, parts = Cascade(Unapplied(t, k), tx[t].left),
             NEW c \in Bill, DB!Write(t, tx[t].inv, c) \/ UNCHANGED rowVars,
             NEW n \in Int, NEW s \in {"credits", "remainder"},
             Become(t, [tx[t] EXCEPT !.left = n, !.pc = s, !.mine = @ \cup Draws(t, k, parts)])
      PROVE  Stepped(t)
  <2>1. PICK U : U = Draws(t, k, parts)
    OBVIOUS
  <2>2. /\ IsFiniteSet(U) /\ U \subseteq Use
        /\ \A m \in U : m.kind = "allocation" /\ Stamp(m) = tx[t].at
    BY <1>2, <1>4, <2>1, DrawTypes
  <2>3. \A m \in U : m.kind \notin CashKinds \cup {"move"} /\ Stamp(m) = tx[t].at
    BY <2>2 DEF CashKinds
  <2> DEFINE x == [tx[t] EXCEPT !.left = n, !.pc = s, !.mine = @ \cup U]
  <2>4. Become(t, x)
    BY <1>4, <2>1
  <2>5. tx[t].mine \cup U \subseteq AnyRow
    BY <1>1, <2>2 DEF TxState, AnyRow
  <2>6. /\ x \in TxState /\ x.pc = s /\ x.inv = tx[t].inv /\ x.mine = tx[t].mine \cup U
        /\ x.at = tx[t].at /\ x.req = tx[t].req /\ x.alloc = tx[t].alloc
    BY <1>1, <2>5 DEF TxState, Statement, Delivery
  <2>7. x.pc \in Delivery \cup {"commit", "load"} /\ x.mine \subseteq tx[t].mine \cup U
    BY <2>6 DEF Delivery
  <2>8. RowsOK' /\ PlacesKept
    BY <1>1, <1>2, <1>4, DeliveryFacts, RowTypes, WritesKeepPlaces
  <2> HIDE DEF x
  <2> QED BY <1>2, <2>2, <2>3, <2>4, <2>6, <2>7, <2>8, DeliveryStep
<1>5. CASE DrawAdvances(t)
  <2>1. PICK parts : parts = Cascade(Unapplied(t, "payment"), tx[t].left)
    OBVIOUS
  <2>2. PICK g \in Int : g = Given(parts)
    BY <1>2, <2>1, DrawTypes
  <2>3. PICK n \in Int : n = tx[t].left - g
    BY AtFacts
  <2>4. PaidMore(b, g) \in Bill
    BY BillTypes
  <2>5. PICK c \in Bill : DB!Write(t, tx[t].inv, c) \/ UNCHANGED rowVars
    BY <1>3, <1>5, <2>1, <2>2, <2>4 DEF DrawAdvances, Read
  <2>6. Become(t, [tx[t] EXCEPT !.left = n, !.pc = "credits", !.mine = @ \cup Draws(t, "payment", parts)])
    BY <1>5, <2>1, <2>2, <2>3 DEF DrawAdvances
  <2> QED BY <1>4, <2>1, <2>5, <2>6
<1>6. CASE DrawReturns(t)
  <2>1. PICK parts : parts = Cascade(Unapplied(t, "return"), tx[t].left)
    OBVIOUS
  <2>2. PICK g \in Int : g = Given(parts)
    BY <1>2, <2>1, DrawTypes
  <2>3. [b EXCEPT !.credited = @ + g] \in Bill
    BY BillTypes
  <2>4. PICK c \in Bill : DB!Write(t, tx[t].inv, c) \/ UNCHANGED rowVars
    BY <1>3, <1>6, <2>1, <2>2, <2>3 DEF DrawReturns, Read
  <2>5. PICK n \in Int : n = 0
    OBVIOUS
  <2>6. Become(t, [tx[t] EXCEPT !.left = n, !.pc = "remainder", !.mine = @ \cup Draws(t, "return", parts)])
    BY <1>6, <2>1, <2>5 DEF DrawReturns
  <2> QED BY <1>4, <2>1, <2>4, <2>6
<1> QED BY <1>5, <1>6

\* KeepRemainder: what did not come is drafted again.
LEMMA KeepRemainderStep ==
  ASSUME Types, NEW t \in Tx, KeepRemainder(t)
  PROVE  Stepped(t)
<1>1. tx[t] \in TxState /\ tx[t].pc = "remainder" /\ RowsOK /\ tx[t].pc \in Delivery /\ tx[t].want \in Lines
  BY AtFacts DEF KeepRemainder, At, Delivery
<1>2. Sup(t) \in Supplier /\ tx[t].req.lines \in Lines
  BY <1>1, DeliveryFacts
<1>3. PICK l : l = RemainderLines(tx[t].want, tx[t].req.lines)
  OBVIOUS
<1>4. l \in Lines
  <2>1. \A p \in Product : tx[t].want[p] \in Nat /\ tx[t].req.lines[p] \in Nat
    BY <1>1, <1>2 DEF Lines
  <2>2. \A p \in Product : Larger(tx[t].want[p] - tx[t].req.lines[p], 0) \in Nat
    BY <2>1 DEF Larger
  <2> QED BY <1>3, <2>2 DEF RemainderLines, Lines
<1>5. Draft(t, Sup(t), l) \in Bill
  BY <1>2, <1>4, DraftType
<1>6. UNCHANGED rowVars \/ \E i \in Purchase : DB!Write(t, i, Draft(t, Sup(t), l))
  BY <1>3 DEF KeepRemainder, R, Read
<1>7. RowsOK' /\ PlacesKept
  BY <1>1, <1>5, <1>6, RowTypes, WritesKeepPlaces
<1> DEFINE x == [tx[t] EXCEPT !.pc = "now"]
<1>8. Become(t, x)
  BY DEF KeepRemainder, Goto
<1>9. /\ x \in TxState /\ x.pc = "now" /\ x.inv = tx[t].inv /\ x.mine = tx[t].mine
      /\ x.at = tx[t].at /\ x.req = tx[t].req /\ x.alloc = tx[t].alloc
  BY <1>1 DEF TxState, Statement, Delivery
<1>10. x.pc \in Delivery \cup {"commit", "load"}
  BY <1>9 DEF Delivery
<1> HIDE DEF x
<1> QED BY <1>1, <1>7, <1>8, <1>9, <1>10, DeliveryQuiet

\* PayNow: what is paid with the delivery.
LEMMA PayNowStep ==
  ASSUME Types, NEW t \in Tx, PayNow(t)
  PROVE  Stepped(t)
<1>1. tx[t] \in TxState /\ tx[t].pc = "now" /\ RowsOK /\ tx[t].pc \in Delivery
  BY AtFacts DEF PayNow, At, Delivery
<1>2. PICK i \in Purchase : i = tx[t].inv
  BY <1>1, DeliveryFacts
<1>3. PICK n \in Nat : n = Larger(Smaller(R(t).pay, Balance(See(t, tx[t].inv))), 0)
  <2>1. See(t, tx[t].inv) \in Bill /\ tx[t].req.pay \in Nat
    BY <1>1, DeliveryFacts, Seen
  <2>2. Balance(See(t, tx[t].inv)) \in Int
    BY <2>1, BillTypes
  <2>3. PICK h \in Nat, k \in Int : h = R(t).pay /\ k = Balance(See(t, tx[t].inv))
    BY <2>1, <2>2 DEF R
  <2> QED BY <2>3 DEF Larger, Smaller
<1>4. UNCHANGED rowVars
  BY DEF PayNow, Read
<1>5. RowsOK' /\ PlacesKept
  BY <1>1, <1>4, RowTypes, WritesKeepPlaces
<1>6. CASE n > 0
  <2> DEFINE x == [tx[t] EXCEPT !.alloc = {[id |-> i, at |-> 0, n |-> n]}, !.rest = n, !.pc = "load"]
  <2>1. Become(t, x)
    BY <1>2, <1>3, <1>6 DEF PayNow
  <2>2. {[id |-> i, at |-> 0, n |-> n]} \in SUBSET Part /\ DebtSet({[id |-> i, at |-> 0, n |-> n]})
    <3>1. i \in Int /\ n \in Nat \ {0} /\ 0 \in Int
      BY <1>6 DEF Purchase
    <3>2. [id |-> i, at |-> 0, n |-> n] \in Part
      BY <3>1 DEF Part
    <3>3. DebtSet({[id |-> i, at |-> 0, n |-> n]})
      BY <3>1, SmallDebts
    <3> QED BY <3>2, <3>3
  <2>3. /\ x \in TxState /\ x.pc = "load" /\ x.inv = tx[t].inv /\ x.mine = tx[t].mine
        /\ x.at = tx[t].at /\ x.req = tx[t].req /\ DebtSet(x.alloc)
    BY <1>1, <2>2 DEF TxState, Statement
  <2> HIDE DEF x
  <2> QED BY <1>1, <1>5, <2>1, <2>3, DeliveryQuiet
<1>7. CASE ~(n > 0)
  <2> DEFINE x == [tx[t] EXCEPT !.pc = "commit"]
  <2>1. Become(t, x)
    BY <1>3, <1>7 DEF PayNow
  <2>2. /\ x \in TxState /\ x.pc = "commit" /\ x.inv = tx[t].inv /\ x.mine = tx[t].mine
        /\ x.at = tx[t].at /\ x.req = tx[t].req /\ x.alloc = tx[t].alloc
    BY <1>1 DEF TxState, Statement
  <2> HIDE DEF x
  <2> QED BY <1>1, <1>5, <2>1, <2>2, DeliveryQuiet
<1> QED BY <1>6, <1>7

-----------------------------------------------------------------------------
(***************************************************************************)
(* Payments.                                                               *)
(***************************************************************************)
\* Open invoices are debts.
LEMMA OpenTypes ==
  ASSUME Types, NEW t \in Tx, NEW s
  PROVE  OpenOf(t, s) \in SUBSET Part /\ DebtSet(OpenOf(t, s))
<1> DEFINE open == {i \in Purchase : See(t, i).sup = s /\ See(t, i).status \in Received /\ Balance(See(t, i)) > 0}
           g == [i \in open |-> [id |-> i, at |-> See(t, i).at, n |-> Balance(See(t, i))]]
<1>1. OpenOf(t, s) = {g[i] : i \in open}
  BY DEF OpenOf
<1>2. IsFiniteSet(open)
  <2>1. IsFiniteSet(Purchase)
    BY PayablesAssumption, FS_Interval DEF Purchase
  <2> QED BY <2>1, FS_Subset
<1>3. \A i \in open : g[i] \in Part /\ g[i].id = i /\ g[i].at \in Int
  <2> SUFFICES ASSUME NEW i \in open PROVE g[i] \in Part /\ g[i].id = i /\ g[i].at \in Int
    OBVIOUS
  <2>1. See(t, i) \in Bill
    BY Seen DEF Types
  <2>2. PICK n \in Nat \ {0}, a \in Nat : n = Balance(See(t, i)) /\ a = See(t, i).at
    <3>1. Balance(See(t, i)) \in Int /\ See(t, i).at \in Nat
      BY <2>1, BillTypes DEF Bill
    <3> QED BY <3>1
  <2>3. g[i] = [id |-> i, at |-> a, n |-> n]
    BY <2>2
  <2> HIDE DEF g
  <2> QED BY <2>3 DEF Part
<1>4. open \subseteq Purchase /\ Purchase \subseteq Int
  BY DEF Purchase
<1> HIDE DEF open, g
<1>5. IsFiniteSet(OpenOf(t, s))
  BY <1>1, <1>2, FiniteImage
<1>6. \A x, y \in OpenOf(t, s) : x.id = y.id => x = y
  BY <1>1, <1>3
<1>7. OpenOf(t, s) \subseteq Part
  BY <1>1, <1>3
<1>8. Part \subseteq [id : Int, at : Int, n : Nat \ {0}]
  BY DEF Part, Purchase
<1> QED BY <1>5, <1>6, <1>7, <1>8 DEF DebtSet

\* OpenInvoices, without a lock.
LEMMA OpenInvoicesStep ==
  ASSUME Types, NEW t \in Tx, OpenInvoices(t)
  PROVE  Stepped(t)
<1>1. tx[t] \in TxState /\ tx[t].pc = "plan" /\ RowsOK
  BY AtFacts DEF OpenInvoices, At
<1>2. Shape(tx[t], served)
  BY AtFacts DEF TxOK
<1>3. tx[t].req \in Request /\ tx[t].at \in 1 .. served /\ tx[t].req.op = "pay"
  BY <1>1, <1>2 DEF Shape
<1>4. PICK A : A = OpenOf(t, R(t).sup)
  OBVIOUS
<1>5. A \in SUBSET Part /\ DebtSet(A)
  BY <1>4, OpenTypes
<1> DEFINE x == [tx[t] EXCEPT !.alloc = A, !.pc = "share"]
<1>6. Become(t, x) /\ UNCHANGED rowVars
  BY <1>4 DEF OpenInvoices, Read
<1>7. /\ x \in TxState /\ x.mine = tx[t].mine /\ x.at = tx[t].at /\ x.req = tx[t].req
      /\ x.pc = "share" /\ x.alloc = A
  BY <1>1, <1>5 DEF TxState, Statement
<1> HIDE DEF x
<1>8. Shape(x, served)
  BY <1>3, <1>7 DEF Shape, Delivery, Paying
<1>9. RowsOK' /\ PlacesKept
  BY <1>1, <1>6, RowTypes, WritesKeepPlaces
<1>10. x.pc \notin Paying \cup {"idle", "move"} /\ tx[t].pc \notin Paying \cup {"idle", "move", "commit"}
  BY <1>1, <1>7 DEF Paying
<1> QED BY <1>5, <1>6, <1>7, <1>8, <1>9, <1>10, QuietStep

\* Every part of a sum shared out is of a debt there is, and the rest no less than nothing.
LEMMA DistributeTypes ==
  ASSUME NEW D \in SUBSET Part, DebtSet(D), NEW o \in Int, NEW a \in Nat, NEW m
  PROVE  /\ Distribute(D, o, a, m).alloc \in SUBSET Part /\ DebtSet(Distribute(D, o, a, m).alloc)
         /\ Distribute(D, o, a, m).old \in 0 .. a
<1>1. PICK b \in Nat : b = Smaller(Larger(o, 0), a) /\ b <= a
  BY DEF Smaller, Larger
<1>2. PICK n \in Nat : n = IF m = "old" THEN a - b ELSE a
  BY <1>1
<1>3. PICK P : P = Cascade(D, n)
  OBVIOUS
<1>4. DebtSet(P) /\ IsFiniteSet(D) /\ Given(P) = Smaller(n, Given(D)) /\ Given(D) \in Nat
  BY <1>3, CascadeFacts, GivenNat DEF DebtSet
<1>5. P \in SUBSET Part /\ Given(P) \in Nat
  <2>1. D \subseteq [id : Purchase, at : Nat, n : Nat \ {0}]
    BY DEF Part
  <2>2. n \in Int
    OBVIOUS
  <2>3. P \subseteq [id : Purchase, at : Nat, n : Nat \ {0}] /\ Given(P) \in Nat
    BY <1>3, <1>4, <2>1, <2>2, CascadeTypes
  <2> QED BY <2>3 DEF Part
<1>6. PICK g \in Nat : g = Given(P) /\ g <= n
  BY <1>4, <1>5 DEF Smaller
<1>7. Distribute(D, o, a, m) = [alloc |-> P, old |-> IF m = "old" THEN b ELSE Smaller(Larger(o, 0), a - g)]
  BY <1>1, <1>2, <1>3, <1>6 DEF Distribute
<1>8. Distribute(D, o, a, m).old \in 0 .. a
  <2>1. CASE m = "old"
    BY <1>1, <1>7, <2>1
  <2>2. CASE m # "old"
    <3>1. g <= a
      BY <1>2, <1>6, <2>2
    <3>2. Smaller(Larger(o, 0), a - g) \in 0 .. a
      BY <3>1 DEF Smaller, Larger
    <3> QED BY <1>7, <2>2, <3>2
  <2> QED BY <2>1, <2>2
<1> QED BY <1>4, <1>5, <1>7, <1>8

\* What was picked is one debt at most.
LEMMA PickedTypes ==
  ASSUME NEW D \in SUBSET Part, DebtSet(D), NEW a \in Nat \ {0}, NEW m
  PROVE  Picked(D, a, m).alloc \in SUBSET Part /\ DebtSet(Picked(D, a, m).alloc) /\ Picked(D, a, m).old = 0
<1> DEFINE S == {y \in D : m = "picked" /\ \A z \in D \ {y} : First(y, z)}
           g == [x \in S |-> [x EXCEPT !.n = a]]
           C == {g[x] : x \in S}
<1>1. Picked(D, a, m) = [alloc |-> C, old |-> 0]
  BY DEF Picked
<1>2. \A x \in S : g[x] \in Part /\ g[x].id = x.id
  BY DEF Part
<1>3. IsFiniteSet(S) /\ \A x, y \in S : x.id = y.id => x = y
  BY FS_Subset DEF DebtSet
<1> HIDE DEF S, g
<1>4. IsFiniteSet(C)
  BY <1>3, FiniteImage
<1>5. C \subseteq Part /\ \A x, y \in C : x.id = y.id => x = y
  BY <1>2, <1>3
<1>6. Part \subseteq [id : Int, at : Int, n : Nat \ {0}]
  BY DEF Part, Purchase
<1>7. DebtSet(C)
  BY <1>4, <1>5, <1>6 DEF DebtSet
<1> HIDE DEF C
<1> QED BY <1>1, <1>5, <1>7

\* ShareOut: what the payment is for.
LEMMA ShareOutStep ==
  ASSUME Types, NEW t \in Tx, ShareOut(t)
  PROVE  Stepped(t)
<1>1. tx[t] \in TxState /\ tx[t].pc = "share" /\ RowsOK
  BY AtFacts DEF ShareOut, At
<1>2. Shape(tx[t], served) /\ DebtSet(tx[t].alloc) /\ tx[t].alloc \in SUBSET Part
  BY AtFacts DEF TxOK
<1>3. tx[t].req \in Request /\ tx[t].at \in 1 .. served /\ tx[t].req.op = "pay"
  BY <1>1, <1>2 DEF Shape
<1>4. tx[t].req.sup \in Supplier /\ tx[t].req.amount \in Nat \ {0}
  BY <1>3, RequestFields
<1>5. See(t, tx[t].req.sup).opening \in Int
  BY <1>1, <1>4, Seen DEF Account
<1> DEFINE d == IF R(t).mode \in {"picked", "advance"} THEN Picked(tx[t].alloc, R(t).amount, R(t).mode)
                ELSE Distribute(tx[t].alloc, See(t, R(t).sup).opening, R(t).amount, R(t).mode)
<1>6. d.alloc \in SUBSET Part /\ DebtSet(d.alloc) /\ d.old \in Nat /\ R(t).amount - d.old \in Nat
  <2>1. CASE R(t).mode \in {"picked", "advance"}
    BY <1>2, <1>4, <2>1, PickedTypes DEF R
  <2>2. CASE R(t).mode \notin {"picked", "advance"}
    <3>1. PICK a \in Nat, o \in Int : a = R(t).amount /\ o = See(t, R(t).sup).opening
      BY <1>4, <1>5 DEF R
    <3>2. d = Distribute(tx[t].alloc, o, a, R(t).mode)
      BY <2>2, <3>1
    <3>3. d.alloc \in SUBSET Part /\ DebtSet(d.alloc) /\ d.old \in 0 .. a
      BY <1>2, <3>2, DistributeTypes
    <3> HIDE DEF d
    <3> QED BY <3>1, <3>3
  <2> QED BY <2>1, <2>2
<1>7. PICK A, o, n : A = d.alloc /\ o = d.old /\ n = R(t).amount - d.old
  OBVIOUS
<1>8. PICK s \in {"source", "load"} : s = IF R(t).by.desk = "counter" /\ R(t).by.from # External
                                          THEN "source" ELSE "load"
  OBVIOUS
<1> DEFINE x == [tx[t] EXCEPT !.alloc = A, !.old = o, !.rest = n, !.pc = s]
<1>9. Become(t, x) /\ UNCHANGED rowVars
  BY <1>7, <1>8 DEF ShareOut, Read
<1> HIDE DEF d
<1>10. /\ x \in TxState /\ x.mine = tx[t].mine /\ x.at = tx[t].at /\ x.req = tx[t].req
       /\ x.pc = s /\ DebtSet(x.alloc)
  <2>1. A \in SUBSET Part /\ DebtSet(A) /\ o \in Nat /\ n \in Nat
    BY <1>6, <1>7
  <2> QED BY <1>1, <2>1 DEF TxState, Statement
<1> HIDE DEF x
<1>11. Shape(x, served)
  BY <1>3, <1>8, <1>10 DEF Shape, Delivery, Paying
<1>12. RowsOK' /\ PlacesKept
  BY <1>1, <1>9, RowTypes, WritesKeepPlaces
<1>13. x.pc \notin Paying \cup {"idle", "move"} /\ tx[t].pc \notin Paying \cup {"idle", "move", "commit"}
  BY <1>1, <1>8, <1>10 DEF Paying
<1> QED BY <1>9, <1>10, <1>11, <1>12, <1>13, QuietStep

\* CounterSource: a place the counter may use, or nothing is done.
LEMMA CounterSourceStep ==
  ASSUME Types, NEW t \in Tx, CounterSource(t)
  PROVE  Stepped(t)
<1>1. tx[t] \in TxState /\ tx[t].pc = "source" /\ RowsOK
  BY AtFacts DEF CounterSource, At
<1>2. Shape(tx[t], served)
  BY AtFacts DEF TxOK
<1>3. /\ tx[t].req \in Request /\ tx[t].at \in 1 .. served
      /\ tx[t].req.op \in {"deliver", "receive", "pay", "refund"}
      /\ tx[t].req.op = "receive" => tx[t].inv = tx[t].req.inv
  BY <1>1, <1>2 DEF Shape
<1>4. CASE tx[t].req.by.from \notin Offered(t)
  BY <1>4, Failed DEF CounterSource, R
<1>5. CASE tx[t].req.by.from \in Offered(t)
  <2>1. PICK s \in {"insert", "find", "load", "ask"} :
             /\ Goto(t, s)
             /\ s = "insert" => tx[t].req.op = "deliver"
             /\ s = "find"   => tx[t].req.op = "receive"
             /\ s = "load"   => tx[t].req.op = "pay"
             /\ s = "ask"    => tx[t].req.op = "refund"
    <3>1. CASE tx[t].req.op = "deliver"
      BY <1>5, <3>1 DEF CounterSource, R
    <3>2. CASE tx[t].req.op = "receive"
      BY <1>5, <3>2 DEF CounterSource, R
    <3>3. CASE tx[t].req.op = "pay"
      BY <1>5, <3>3 DEF CounterSource, R
    <3>4. CASE tx[t].req.op = "refund"
      BY <1>5, <3>4 DEF CounterSource, R
    <3> QED BY <1>3, <3>1, <3>2, <3>3, <3>4
  <2>2. UNCHANGED rowVars
    BY <1>5 DEF CounterSource, R, Read
  <2> DEFINE x == [tx[t] EXCEPT !.pc = s]
  <2>3. Become(t, x)
    BY <2>1 DEF Goto
  <2>4. /\ x \in TxState /\ x.mine = tx[t].mine /\ x.pc = s /\ x.inv = tx[t].inv
        /\ x.at = tx[t].at /\ x.req = tx[t].req /\ x.alloc = tx[t].alloc
    BY <1>1 DEF TxState, Statement
  <2> HIDE DEF x
  <2>5. Shape(x, served)
    BY <1>3, <2>1, <2>4 DEF Shape, Delivery, Paying
  <2>6. RowsOK' /\ PlacesKept
    BY <1>1, <2>2, RowTypes, WritesKeepPlaces
  <2>7. x.pc \notin Paying \cup {"idle", "move"} /\ tx[t].pc \notin Paying \cup {"idle", "move", "commit"}
    BY <1>1, <2>4 DEF Paying
  <2> QED BY <2>3, <2>4, <2>5, <2>6, <2>7, QuietStep
<1> QED BY <1>4, <1>5

-----------------------------------------------------------------------------
(***************************************************************************)
(* Documents that money is moved for.                                      *)
(***************************************************************************)
\* After a document comes the move, if it names a place.
LEMMA ClosingFacts ==
  ASSUME NEW x, NEW d, CashDocs(x.mine) = {d}
  PROVE  Closing(x) = IF x.req.by.from # External THEN "move" ELSE "commit"
<1>1. d \in x.mine /\ d.kind \in CashKinds
  BY DEF CashDocs
<1> QED BY <1>1 DEF Closing, CashKinds

\* A document is there, its money is not moved yet.
LEMMA PaidStep ==
  ASSUME Types, NEW t \in Tx, NEW x \in TxState, RowsOK', PlacesKept,
         x.at = tx[t].at, x.req = tx[t].req, x.inv = tx[t].inv,
         x.req \in Request, x.at \in 1 .. served, x.req.op \in {"pay", "deliver", "receive", "refund"},
         x.req.op = "receive" => x.inv = x.req.inv,
         NEW d, CashDocs(x.mine) = {d}, IsDoc(x, d), MovesIn(x.mine) = {}, MovesIn(tx[t].mine) = {},
         IsFiniteSet(x.mine), \A m \in x.mine : Stamp(m) = x.at, DebtSet(x.alloc),
         NEW s, s = Closing(x) \/ (s \in Paying /\ x.req.op # "refund"),
         Become(t, [x EXCEPT !.pc = s])
  PROVE  Stepped(t)
<1> DEFINE y == [x EXCEPT !.pc = s]
<1>1. Closing(x) = IF x.req.by.from # External THEN "move" ELSE "commit"
  BY ClosingFacts
<1>2. s \in Paying \cup {"move", "commit"} /\ s \in Statement \ {"idle"}
  BY <1>1 DEF Statement, Paying
<1>3. /\ y \in TxState /\ y.pc = s /\ y.at = tx[t].at /\ y.req = x.req /\ y.inv = x.inv
      /\ y.mine = x.mine /\ y.alloc = x.alloc
  BY <1>2 DEF TxState
<1> HIDE DEF y
<1>4. Shape(y, served)
  BY <1>1, <1>2, <1>3 DEF Shape, Delivery, Paying
<1>5. IsDoc(y, d)
  BY <1>3 DEF IsDoc
<1>6. CashOK(y)
  <2>1. CashDocs(y.mine) = {d} /\ MovesIn(y.mine) = {}
    BY <1>3
  <2>2. s \in {"move", "commit"} => (s = "move" <=> y.req.by.from # External)
    BY <1>1, <1>3 DEF Paying
  <2>3. y.pc \notin Paying \cup {"move", "commit"} => CashDocs(y.mine) = {} /\ MovesIn(y.mine) = {}
    BY <1>2, <1>3
  <2>4. y.pc \in Paying \cup {"move"} => MovesIn(y.mine) = {} /\ \E e : CashDocs(y.mine) = {e} /\ IsDoc(y, e)
    BY <1>5, <2>1
  <2>5. y.pc = "move" => y.req.by.from # External
    BY <1>3, <2>2
  <2>6. y.pc = "commit" =>
          \/ CashDocs(y.mine) = {} /\ MovesIn(y.mine) = {}
          \/ \E e : /\ CashDocs(y.mine) = {e} /\ IsDoc(y, e)
                    /\ MovesIn(y.mine) = IF y.req.by.from = External THEN {} ELSE {MoveOf(y, e)}
    BY <1>3, <1>5, <2>1, <2>2
  <2> QED BY <2>3, <2>4, <2>5, <2>6 DEF CashOK
<1>7. Become(t, y)
  BY DEF y
<1>8. MovesIn(y.mine) = MovesIn(tx[t].mine)
  BY <1>3
<1>9. y.pc # "idle" /\ IsFiniteSet(y.mine) /\ (\A m \in y.mine : Stamp(m) = y.at) /\ DebtSet(y.alloc)
  BY <1>2, <1>3
<1> QED BY <1>3, <1>4, <1>6, <1>7, <1>8, <1>9, StepTo

\* What is left of a payment.
LEMMA OnwardFacts ==
  ASSUME NEW x
  PROVE  \E s : Onward(x) = [x EXCEPT !.pc = s] /\ (s \in Paying \/ s = Closing(x))
<1> DEFINE s == IF x.alloc # {} THEN "apply" ELSE IF x.old > 0 THEN "old"
                ELSE IF x.rest > 0 THEN "settle" ELSE Closing(x)
<1>1. Onward(x) = [x EXCEPT !.pc = s]
  BY DEF Onward
<1>2. s \in Paying \/ s = Closing(x)
  BY DEF Paying
<1> HIDE DEF s
<1> QED BY <1>1, <1>2

\* A payment at one of its statements.
LEMMA PayingFacts ==
  ASSUME Types, NEW t \in Tx, tx[t].pc \in Paying \cup {"load"}
  PROVE  /\ tx[t] \in TxState /\ tx[t].req \in Request /\ tx[t].at \in 1 .. served
         /\ tx[t].req.op \in {"pay", "deliver", "receive"}
         /\ tx[t].req.op = "receive" => tx[t].inv = tx[t].req.inv
         /\ tx[t].req.by.from \in Place \cup {External}
         /\ MovesIn(tx[t].mine) = {} /\ IsFiniteSet(tx[t].mine) /\ DebtSet(tx[t].alloc)
         /\ \A m \in tx[t].mine : Stamp(m) = tx[t].at
         /\ tx[t].pc = "load" => CashDocs(tx[t].mine) = {}
         /\ tx[t].pc # "load" => \E d : CashDocs(tx[t].mine) = {d} /\ IsDoc(tx[t], d)
         /\ Sup(t) \in Supplier
<1>1. TxOK(tx[t], served) /\ tx[t] \in TxState /\ Shape(tx[t], served) /\ CashOK(tx[t])
  BY AtFacts DEF TxOK
<1>2. tx[t].pc # "idle" /\ ("load" \notin Paying \cup {"move", "commit"})
  BY DEF Paying
<1>3. /\ tx[t].req \in Request /\ tx[t].at \in 1 .. served
      /\ tx[t].req.op \in {"pay", "deliver", "receive"}
      /\ tx[t].req.op = "receive" => tx[t].inv = tx[t].req.inv
  BY <1>1, <1>2 DEF Shape
<1>4. tx[t].req.by.from \in Place \cup {External} /\ (tx[t].req.op = "receive" => tx[t].inv \in Purchase)
  BY <1>3, RequestFields
<1>5. Sup(t) \in Supplier
  BY <1>3, <1>4, SupplierOf
<1>6. /\ MovesIn(tx[t].mine) = {}
      /\ tx[t].pc = "load" => CashDocs(tx[t].mine) = {}
      /\ tx[t].pc # "load" => \E d : CashDocs(tx[t].mine) = {d} /\ IsDoc(tx[t], d)
  BY <1>1, <1>2 DEF CashOK
<1>7. IsFiniteSet(tx[t].mine) /\ DebtSet(tx[t].alloc) /\ \A m \in tx[t].mine : Stamp(m) = tx[t].at
  BY <1>1 DEF TxOK
<1> QED BY <1>1, <1>3, <1>4, <1>5, <1>6, <1>7

\* LoadSupplier: the payment is inserted.
LEMMA LoadSupplierStep ==
  ASSUME Types, NEW t \in Tx, LoadSupplier(t)
  PROVE  Stepped(t)
<1>1. tx[t].pc = "load" /\ RowsOK
  BY AtFacts DEF LoadSupplier, At
<1>2. /\ tx[t] \in TxState /\ tx[t].req \in Request /\ tx[t].at \in 1 .. served
      /\ tx[t].req.op \in {"pay", "deliver", "receive"}
      /\ tx[t].req.op = "receive" => tx[t].inv = tx[t].req.inv
      /\ tx[t].req.by.from \in Place \cup {External}
      /\ MovesIn(tx[t].mine) = {} /\ IsFiniteSet(tx[t].mine) /\ DebtSet(tx[t].alloc)
      /\ \A m \in tx[t].mine : Stamp(m) = tx[t].at
      /\ CashDocs(tx[t].mine) = {} /\ Sup(t) \in Supplier
  BY <1>1, PayingFacts
<1>3. See(t, Sup(t)).opening \in Int
  BY <1>1, <1>2, Seen DEF Account
<1>4. PICK a \in Nat : a = tx[t].old + tx[t].rest
  BY <1>2 DEF TxState
<1>5. PICK p : p = [kind |-> "payment", id |-> tx[t].at, sup |-> Sup(t), amount |-> a, from |-> R(t).by.from]
  OBVIOUS
<1>6. /\ p \in Document /\ p.kind = "payment" /\ p.id = tx[t].at /\ p.from = tx[t].req.by.from
      /\ Stamp(p) = tx[t].at
  BY <1>2, <1>5 DEF Document, R, Stamp
<1>7. PICK o \in Int : o = See(t, Sup(t)).opening
  BY <1>3
<1> DEFINE x == [tx[t] EXCEPT !.seen = o, !.mine = @ \cup {p}]
<1>8. Become(t, Onward(x)) /\ UNCHANGED rowVars
  BY <1>4, <1>5, <1>7 DEF LoadSupplier, Read
<1>9. tx[t].mine \cup {p} \subseteq AnyRow
  BY <1>2, <1>6 DEF TxState, AnyRow
<1>10. /\ x \in TxState /\ x.mine = tx[t].mine \cup {p} /\ x.inv = tx[t].inv
       /\ x.at = tx[t].at /\ x.req = tx[t].req /\ x.alloc = tx[t].alloc
  BY <1>2, <1>9 DEF TxState
<1> HIDE DEF x
<1>11. PICK s : Onward(x) = [x EXCEPT !.pc = s] /\ (s \in Paying \/ s = Closing(x))
  BY OnwardFacts
<1>12. CashDocs(x.mine) = {p} /\ MovesIn(x.mine) = {}
  BY <1>2, <1>6, <1>10 DEF CashDocs, MovesIn, CashKinds
<1>13. IsDoc(x, p)
  BY <1>6, <1>10 DEF IsDoc, CashKinds
<1>14. IsFiniteSet(x.mine) /\ \A m \in x.mine : Stamp(m) = x.at
  BY <1>2, <1>6, <1>10, FS_AddElement
<1>15. RowsOK' /\ PlacesKept
  BY <1>1, <1>8, RowTypes, WritesKeepPlaces
<1>16. /\ x.req \in Request /\ x.at \in 1 .. served /\ x.req.op \in {"pay", "deliver", "receive", "refund"}
       /\ x.req.op = "receive" => x.inv = x.req.inv
       /\ s = Closing(x) \/ (s \in Paying /\ x.req.op # "refund")
       /\ DebtSet(x.alloc) /\ Become(t, [x EXCEPT !.pc = s])
  BY <1>2, <1>8, <1>10, <1>11
<1>17. MovesIn(tx[t].mine) = {}
  BY <1>2
<1> QED BY <1>10, <1>12, <1>13, <1>14, <1>15, <1>16, <1>17, PaidStep

\* A statement of a payment: the rest of the transaction, and rows of other kinds.
LEMMA PayingStep ==
  ASSUME Types, NEW t \in Tx, tx[t].pc \in Paying, NEW x \in TxState, RowsOK', PlacesKept,
         x.at = tx[t].at, x.req = tx[t].req, x.inv = tx[t].inv, DebtSet(x.alloc),
         NEW U, IsFiniteSet(U), x.mine = tx[t].mine \cup U,
         \A m \in U : m.kind \notin CashKinds \cup {"move"} /\ Stamp(m) = tx[t].at,
         NEW s, s \in Paying \/ s = Closing(x), Become(t, [x EXCEPT !.pc = s])
  PROVE  Stepped(t)
<1>1. "load" \notin Paying
  BY DEF Paying
<1>2. /\ tx[t] \in TxState /\ tx[t].req \in Request /\ tx[t].at \in 1 .. served
      /\ tx[t].req.op \in {"pay", "deliver", "receive"}
      /\ tx[t].req.op = "receive" => tx[t].inv = tx[t].req.inv
      /\ MovesIn(tx[t].mine) = {} /\ IsFiniteSet(tx[t].mine)
      /\ \A m \in tx[t].mine : Stamp(m) = tx[t].at
  BY PayingFacts
<1>3. PICK d : CashDocs(tx[t].mine) = {d} /\ IsDoc(tx[t], d)
  BY <1>1, PayingFacts
<1>4. CashDocs(x.mine) = {d} /\ MovesIn(x.mine) = {}
  BY <1>2, <1>3 DEF CashDocs, MovesIn
<1>5. IsDoc(x, d)
  BY <1>3 DEF IsDoc
<1>6. IsFiniteSet(x.mine) /\ \A m \in x.mine : Stamp(m) = x.at
  <2>1. IsFiniteSet(tx[t].mine \cup U)
    BY <1>2, FS_Union
  <2> QED BY <1>2, <2>1
<1>7. x.req.op # "refund" /\ x.req.op \in {"pay", "deliver", "receive", "refund"}
  BY <1>2
<1> QED BY <1>2, <1>4, <1>5, <1>6, <1>7, PaidStep

\* ApplyPayment: the next invoice, unless another payment was faster.
LEMMA ApplyPaymentStep ==
  ASSUME Types, NEW t \in Tx, ApplyPayment(t)
  PROVE  Stepped(t)
<1>1. tx[t].pc = "apply" /\ tx[t].pc \in Paying /\ RowsOK /\ tx[t].alloc \in SUBSET Part
  BY AtFacts DEF ApplyPayment, At, Paying
<1>2. tx[t] \in TxState /\ tx[t].at \in Nat /\ DebtSet(tx[t].alloc)
  BY <1>1, PayingFacts
<1>3. PICK part \in tx[t].alloc :
         IF cur[part.id].paid + part.n > cur[part.id].total - cur[part.id].credited
           THEN DB!Available(t, part.id) /\ Fail(t)
           ELSE /\ DB!Write(t, part.id, PaidMore(cur[part.id], part.n))
                /\ Become(t, Onward([tx[t] EXCEPT !.alloc = @ \ {part}, !.mine = @ \cup
                       {[kind |-> "allocation", doc |-> tx[t].at, of |-> "payment", inv |-> part.id,
                         amount |-> part.n, by |-> tx[t].at]}]))
  BY DEF ApplyPayment
<1>4. PICK i \in Purchase, n \in Nat \ {0} : i = part.id /\ n = part.n
  BY <1>1 DEF Part
<1>5. CASE cur[i].paid + n > cur[i].total - cur[i].credited
  BY <1>3, <1>4, <1>5, Failed
<1>6. CASE ~(cur[i].paid + n > cur[i].total - cur[i].credited)
  <2>1. PICK m : m = [kind |-> "allocation", doc |-> tx[t].at, of |-> "payment", inv |-> i,
                      amount |-> n, by |-> tx[t].at]
    OBVIOUS
  <2>2. /\ m \in AnyRow /\ m.kind \notin CashKinds \cup {"move"} /\ Stamp(m) = tx[t].at
    <3>1. m \in Use
      BY <1>2, <2>1 DEF Use
    <3> QED BY <2>1, <3>1 DEF AnyRow, CashKinds, Stamp
  <2>3. PICK A : A = tx[t].alloc \ {part}
    OBVIOUS
  <2>4. A \in SUBSET Part /\ DebtSet(A)
    BY <1>1, <1>2, <2>3, DebtSubset
  <2> DEFINE x == [tx[t] EXCEPT !.alloc = A, !.mine = @ \cup {m}]
  <2>5. Become(t, Onward(x)) /\ DB!Write(t, i, PaidMore(cur[i], n))
    BY <1>3, <1>4, <1>6, <2>1, <2>3
  <2>6. tx[t].mine \cup {m} \subseteq AnyRow
    BY <1>2, <2>2 DEF TxState
  <2>7. /\ x \in TxState /\ x.mine = tx[t].mine \cup {m} /\ x.inv = tx[t].inv
        /\ x.at = tx[t].at /\ x.req = tx[t].req /\ DebtSet(x.alloc)
    BY <1>2, <2>4, <2>6 DEF TxState
  <2> HIDE DEF x
  <2>8. PICK s : Onward(x) = [x EXCEPT !.pc = s] /\ (s \in Paying \/ s = Closing(x))
    BY OnwardFacts
  <2>9. cur[i] \in Bill
    BY <1>1 DEF RowsOK
  <2>10. PaidMore(cur[i], n) \in Bill
    <3>1. PICK k \in Int : k = n
      OBVIOUS
    <3> QED BY <2>9, <3>1, BillTypes
  <2>11. RowsOK' /\ PlacesKept
    BY <1>1, <2>5, <2>10, RowTypes, WritesKeepPlaces
  <2>12. IsFiniteSet({m}) /\ \A k \in {m} : k.kind \notin CashKinds \cup {"move"} /\ Stamp(k) = tx[t].at
    BY <2>2, FS_Singleton
  <2>13. Become(t, [x EXCEPT !.pc = s])
    BY <2>5, <2>8
  <2> QED BY <1>1, <2>7, <2>8, <2>11, <2>12, <2>13, PayingStep
<1> QED BY <1>5, <1>6

\* PayOldDebt: the old debt, as it was when the supplier was loaded.
LEMMA PayOldDebtStep ==
  ASSUME Types, NEW t \in Tx, PayOldDebt(t)
  PROVE  Stepped(t)
<1>1. tx[t].pc = "old" /\ tx[t].pc \in Paying /\ RowsOK
  BY AtFacts DEF PayOldDebt, At, Paying
<1>2. tx[t] \in TxState /\ DebtSet(tx[t].alloc) /\ Sup(t) \in Supplier
  BY <1>1, PayingFacts
<1>3. CASE tx[t].old > tx[t].seen
  BY <1>3, Failed DEF PayOldDebt
<1>4. CASE ~(tx[t].old > tx[t].seen)
  <2>1. PICK o \in Nat, z \in Nat : o = tx[t].old /\ z = 0
    BY <1>2 DEF TxState
  <2> DEFINE x == [tx[t] EXCEPT !.old = z]
  <2>2. Become(t, Onward(x)) /\ DB!Write(t, Sup(t), PayOpening(cur[Sup(t)], o))
    BY <1>4, <2>1 DEF PayOldDebt
  <2>3. /\ x \in TxState /\ x.mine = tx[t].mine \cup {} /\ x.inv = tx[t].inv
        /\ x.at = tx[t].at /\ x.req = tx[t].req /\ DebtSet(x.alloc)
    BY <1>2 DEF TxState
  <2> HIDE DEF x
  <2>4. PICK s : Onward(x) = [x EXCEPT !.pc = s] /\ (s \in Paying \/ s = Closing(x))
    BY OnwardFacts
  <2>5. PayOpening(cur[Sup(t)], o) \in Account
    BY <1>1, <1>2, AccountTypes DEF RowsOK
  <2>6. RowsOK' /\ PlacesKept
    BY <1>1, <1>2, <2>2, <2>5, RowTypes, WritesKeepPlaces
  <2>7. IsFiniteSet({}) /\ Become(t, [x EXCEPT !.pc = s])
    BY <2>2, <2>4, FS_EmptySet
  <2> QED BY <1>1, <2>3, <2>4, <2>6, <2>7, PayingStep
<1> QED BY <1>3, <1>4

\* SettleRest: the rest comes off what is owed.
LEMMA SettleRestStep ==
  ASSUME Types, NEW t \in Tx, SettleRest(t)
  PROVE  Stepped(t)
<1>1. tx[t].pc = "settle" /\ tx[t].pc \in Paying /\ RowsOK
  BY AtFacts DEF SettleRest, At, Paying
<1>2. tx[t] \in TxState /\ DebtSet(tx[t].alloc) /\ Sup(t) \in Supplier /\ tx[t].rest \in Nat
  BY <1>1, PayingFacts DEF TxState
<1>3. PICK n \in Int : n = -tx[t].rest
  BY <1>2
<1>4. DB!Write(t, Sup(t), AddBalance(cur[Sup(t)], n))
  BY <1>3 DEF SettleRest
<1>5. AddBalance(cur[Sup(t)], n) \in Account
  BY <1>1, <1>2, AccountTypes DEF RowsOK
<1>6. RowsOK' /\ PlacesKept
  BY <1>1, <1>2, <1>4, <1>5, RowTypes, WritesKeepPlaces
<1>7. PICK x, s : x = tx[t] /\ s = Closing(tx[t])
  OBVIOUS
<1>8. Become(t, [x EXCEPT !.pc = s]) /\ IsFiniteSet({}) /\ x.mine = tx[t].mine \cup {}
  BY <1>7, FS_EmptySet DEF SettleRest, Goto
<1> QED BY <1>1, <1>2, <1>6, <1>7, <1>8, PayingStep

\* InsertExpense: the expense, then its money.
LEMMA InsertExpenseStep ==
  ASSUME Types, NEW t \in Tx, InsertExpense(t)
  PROVE  Stepped(t)
<1>1. tx[t] \in TxState /\ tx[t].pc = "expense" /\ RowsOK
  BY AtFacts DEF InsertExpense, At
<1>2. Shape(tx[t], served) /\ CashOK(tx[t]) /\ DebtSet(tx[t].alloc)
  BY AtFacts DEF TxOK
<1>3. /\ tx[t].req \in Request /\ tx[t].at \in 1 .. served /\ tx[t].req.op = "expense"
      /\ tx[t].req.by.from # External /\ tx[t].req.amount \in Nat
  <2>1. tx[t].req \in Request /\ tx[t].at \in 1 .. served /\ tx[t].req.op = "expense"
        /\ tx[t].req.by.from # External
    BY <1>1, <1>2 DEF Shape
  <2>2. tx[t].req.amount \in Nat
    BY <2>1, RequestFields
  <2> QED BY <2>1, <2>2
<1>4. MovesIn(tx[t].mine) = {}
  BY <1>1, <1>2 DEF CashOK, Paying
<1>5. PICK d : d = [kind |-> "expense", id |-> tx[t].at, amount |-> R(t).amount]
  OBVIOUS
<1>6. d \in Expense /\ d.kind = "expense" /\ d.id = tx[t].at /\ Stamp(d) = tx[t].at
  BY <1>1, <1>3, <1>5 DEF Expense, R, Stamp, TxState
<1> DEFINE x == [tx[t] EXCEPT !.pc = "move", !.mine = {d}]
<1>7. Become(t, x) /\ UNCHANGED rowVars
  BY <1>5 DEF InsertExpense, Read
<1>8. /\ x \in TxState /\ x.mine = {d} /\ x.inv = tx[t].inv /\ x.pc = "move"
      /\ x.at = tx[t].at /\ x.req = tx[t].req /\ x.alloc = tx[t].alloc
  BY <1>1, <1>6 DEF TxState, Statement, AnyRow
<1> HIDE DEF x
<1>9. Shape(x, served)
  BY <1>3, <1>8 DEF Shape, Delivery, Paying
<1>10. CashDocs(x.mine) = {d} /\ MovesIn(x.mine) = {}
  BY <1>6, <1>8 DEF CashDocs, MovesIn, CashKinds
<1>11. IsDoc(x, d)
  BY <1>3, <1>6, <1>8 DEF IsDoc, CashKinds
<1>12. CashOK(x)
  BY <1>3, <1>8, <1>10, <1>11 DEF CashOK, Paying
<1>13. IsFiniteSet(x.mine) /\ (\A m \in x.mine : Stamp(m) = x.at) /\ x.pc # "idle"
  BY <1>6, <1>8, FS_Singleton
<1>14. RowsOK' /\ PlacesKept
  BY <1>1, <1>7, RowTypes, WritesKeepPlaces
<1>15. MovesIn(x.mine) = MovesIn(tx[t].mine)
  BY <1>4, <1>10
<1> QED BY <1>7, <1>8, <1>9, <1>12, <1>13, <1>14, <1>15, StepTo

-----------------------------------------------------------------------------
(***************************************************************************)
(* Goods sent back, and refunds.                                           *)
(***************************************************************************)
\* A return or a refund at one of its statements.
LEMMA BackFacts ==
  ASSUME Types, NEW t \in Tx, tx[t].pc \in {"debit", "open", "spend", "ask", "refund"}
  PROVE  /\ tx[t] \in TxState /\ tx[t].req \in Request /\ tx[t].at \in 1 .. served
         /\ tx[t].pc \in {"debit", "open", "spend"} => tx[t].req.op = "return"
         /\ tx[t].pc \in {"ask", "refund"} => tx[t].req.op = "refund"
         /\ tx[t].req.op \in {"return", "refund"}
         /\ tx[t].req.sup \in Supplier /\ tx[t].req.amount \in Nat \ {0}
         /\ tx[t].req.op = "refund" => tx[t].req.by.from \in Place \cup {External}
         /\ tx[t].pc \notin Paying \cup {"idle", "move", "commit"}
         /\ MovesIn(tx[t].mine) = {} /\ DebtSet(tx[t].alloc)
<1>1. Shape(tx[t], served) /\ CashOK(tx[t]) /\ DebtSet(tx[t].alloc) /\ tx[t] \in TxState
  BY AtFacts DEF TxOK
<1>2. tx[t].pc \notin Paying \cup {"idle", "move", "commit"}
  BY DEF Paying
<1>3. /\ tx[t].req \in Request /\ tx[t].at \in 1 .. served
      /\ tx[t].pc \in {"debit", "open", "spend"} => tx[t].req.op = "return"
      /\ tx[t].pc \in {"ask", "refund"} => tx[t].req.op = "refund"
  BY <1>1, <1>2 DEF Shape
<1>4. MovesIn(tx[t].mine) = {}
  BY <1>1, <1>2 DEF CashOK
<1> QED BY <1>1, <1>2, <1>3, <1>4, RequestFields

\* The document of a return or of a refund.
LEMMA DocType ==
  ASSUME Types, NEW t \in Tx, tx[t].pc \in {"debit", "refund"},
         NEW k \in {"return", "refund"}, NEW f \in Place \cup {External}
  PROVE  /\ Doc(t, k, f) \in Document /\ Doc(t, k, f).kind = k /\ Doc(t, k, f).id = tx[t].at
         /\ Doc(t, k, f).from = f /\ Doc(t, k, f).sup = tx[t].req.sup
         /\ Doc(t, k, f).amount = tx[t].req.amount /\ Stamp(Doc(t, k, f)) = tx[t].at
<1>1. tx[t].req.sup \in Supplier /\ tx[t].req.amount \in Nat /\ tx[t].at \in Int
  BY BackFacts
<1>2. Doc(t, k, f) = [kind |-> k, id |-> tx[t].at, sup |-> tx[t].req.sup, amount |-> tx[t].req.amount,
                      from |-> f]
  BY DEF Doc, R
<1> HIDE DEF Place
<1>3. Doc(t, k, f) \in Document
  BY <1>1, <1>2 DEF Document
<1> QED BY <1>2, <1>3 DEF Stamp

\* DebitNote: less is owed, before any invoice is looked at.
LEMMA DebitNoteStep ==
  ASSUME Types, NEW t \in Tx, DebitNote(t)
  PROVE  Stepped(t)
<1>1. tx[t].pc = "debit" /\ RowsOK
  BY AtFacts DEF DebitNote, At
<1>2. /\ tx[t] \in TxState /\ tx[t].req \in Request /\ tx[t].at \in 1 .. served
      /\ tx[t].req.op = "return" /\ tx[t].req.sup \in Supplier /\ tx[t].req.amount \in Nat \ {0}
      /\ tx[t].pc \notin Paying \cup {"idle", "move", "commit"}
  BY <1>1, BackFacts
<1>3. PICK d : d = Doc(t, "return", External)
  OBVIOUS
<1>4. d \in Document /\ d.kind = "return" /\ Stamp(d) = tx[t].at
  BY <1>1, <1>3, DocType
<1>5. PICK n \in Int : n = -tx[t].req.amount
  BY <1>2
<1> DEFINE x == [tx[t] EXCEPT !.mine = {d}, !.pc = "open"]
<1>6. Become(t, x) /\ DB!Write(t, tx[t].req.sup, AddBalance(cur[tx[t].req.sup], n))
  BY <1>3, <1>5 DEF DebitNote, R
<1>7. AddBalance(cur[tx[t].req.sup], n) \in Account
  BY <1>1, <1>2, AccountTypes DEF RowsOK
<1>8. RowsOK' /\ PlacesKept
  BY <1>1, <1>2, <1>6, <1>7, RowTypes, WritesKeepPlaces
<1>9. /\ x \in TxState /\ x.mine = {d} /\ x.inv = tx[t].inv /\ x.pc = "open"
      /\ x.at = tx[t].at /\ x.req = tx[t].req /\ x.alloc = tx[t].alloc
  BY <1>2, <1>4 DEF TxState, Statement, AnyRow
<1> HIDE DEF x
<1>10. Shape(x, served)
  BY <1>2, <1>9 DEF Shape, Delivery, Paying
<1>11. IsFiniteSet({d}) /\ x.mine \subseteq tx[t].mine \cup {d}
  BY <1>9, FS_Singleton
<1>12. \A m \in {d} : m.kind \notin CashKinds \cup {"move"} /\ Stamp(m) = tx[t].at
  BY <1>4 DEF CashKinds
<1>13. x.pc \notin Paying \cup {"idle", "move"}
  BY <1>9 DEF Paying
<1> QED BY <1>2, <1>6, <1>8, <1>9, <1>10, <1>11, <1>12, <1>13, PlainStep

\* ListOpen: the invoices the value may go to.
LEMMA ListOpenStep ==
  ASSUME Types, NEW t \in Tx, ListOpen(t)
  PROVE  Stepped(t)
<1>1. tx[t].pc = "open" /\ RowsOK
  BY AtFacts DEF ListOpen, At
<1>2. /\ tx[t] \in TxState /\ tx[t].req \in Request /\ tx[t].at \in 1 .. served
      /\ tx[t].req.op = "return" /\ tx[t].req.amount \in Nat \ {0}
      /\ tx[t].pc \notin Paying \cup {"idle", "move", "commit"}
  BY <1>1, BackFacts
<1>3. PICK A : A = OpenOf(t, R(t).sup)
  OBVIOUS
<1>4. A \in SUBSET Part /\ DebtSet(A)
  BY <1>3, OpenTypes
<1>5. PICK s \in {"commit", "spend"} : s = IF A = {} THEN "commit" ELSE "spend"
  OBVIOUS
<1>6. PICK n \in Int : n = R(t).amount
  BY <1>2 DEF R
<1> DEFINE x == [tx[t] EXCEPT !.alloc = A, !.left = n, !.pc = s]
<1>7. Become(t, x) /\ UNCHANGED rowVars
  BY <1>3, <1>5, <1>6 DEF ListOpen, Read
<1>8. /\ x \in TxState /\ x.mine = tx[t].mine /\ x.at = tx[t].at /\ x.req = tx[t].req
      /\ x.pc = s /\ DebtSet(x.alloc)
  BY <1>2, <1>4 DEF TxState, Statement
<1> HIDE DEF x
<1>9. Shape(x, served)
  BY <1>2, <1>8 DEF Shape, Delivery, Paying
<1>10. RowsOK' /\ PlacesKept
  BY <1>1, <1>7, RowTypes, WritesKeepPlaces
<1>11. x.pc \notin Paying \cup {"idle", "move"}
  BY <1>8 DEF Paying
<1> QED BY <1>2, <1>7, <1>8, <1>9, <1>10, <1>11, QuietStep

\* ApplyCredit: the next invoice gets what it still owes.
LEMMA ApplyCreditStep ==
  ASSUME Types, NEW t \in Tx, ApplyCredit(t)
  PROVE  Stepped(t)
<1>1. tx[t].pc = "spend" /\ RowsOK /\ tx[t].alloc \in SUBSET Part /\ tx[t].left \in Int
  BY AtFacts DEF ApplyCredit, At
<1>2. /\ tx[t] \in TxState /\ tx[t].req \in Request /\ tx[t].at \in 1 .. served
      /\ tx[t].req.op = "return" /\ DebtSet(tx[t].alloc)
      /\ tx[t].pc \notin Paying \cup {"idle", "move", "commit"}
  BY <1>1, BackFacts
<1>3. PICK part \in tx[t].alloc :
         LET i == part.id
             n == Smaller(tx[t].left, Larger(Balance(cur[i]), 0))
             x == [tx[t] EXCEPT !.alloc = @ \ {part}, !.left = @ - n, !.mine = @ \cup
                      (IF n > 0 THEN {[kind |-> "allocation", doc |-> tx[t].at, of |-> "return",
                                       inv |-> i, amount |-> n, by |-> tx[t].at]} ELSE {})]
         IN /\ DB!Write(t, i, [cur[i] EXCEPT !.credited = @ + n])
            /\ Become(t, [x EXCEPT !.pc = IF x.left = 0 \/ x.alloc = {} THEN "commit" ELSE "spend"])
  BY DEF ApplyCredit
<1>4. PICK i \in Purchase : i = part.id
  BY <1>1 DEF Part
<1>5. PICK b \in Bill : b = cur[i]
  BY <1>1 DEF RowsOK
<1>6. PICK n \in Int : n = Smaller(tx[t].left, Larger(Balance(cur[i]), 0))
  <2>1. Balance(b) \in Int
    BY BillTypes
  <2> QED BY <1>1, <1>5, <2>1 DEF Smaller, Larger
<1>7. PICK l \in Int : l = tx[t].left - n
  BY <1>1
<1>8. PICK A : A = tx[t].alloc \ {part}
  OBVIOUS
<1>9. A \in SUBSET Part /\ DebtSet(A)
  BY <1>1, <1>2, <1>8, DebtSubset
<1>10. PICK U : U = IF n > 0 THEN {[kind |-> "allocation", doc |-> tx[t].at, of |-> "return",
                                    inv |-> i, amount |-> n, by |-> tx[t].at]} ELSE {}
  OBVIOUS
<1>11. /\ IsFiniteSet(U) /\ U \subseteq AnyRow
       /\ \A m \in U : m.kind \notin CashKinds \cup {"move"} /\ Stamp(m) = tx[t].at
  <2>1. CASE n > 0
    <3>1. PICK m : m = [kind |-> "allocation", doc |-> tx[t].at, of |-> "return",
                        inv |-> i, amount |-> n, by |-> tx[t].at]
      OBVIOUS
    <3>2. m \in Use
      BY <1>2, <2>1, <3>1 DEF Use
    <3>3. m \in AnyRow /\ m.kind \notin CashKinds \cup {"move"} /\ Stamp(m) = tx[t].at
      BY <3>1, <3>2 DEF AnyRow, CashKinds, Stamp
    <3>4. U = {m}
      BY <1>10, <2>1, <3>1
    <3> QED BY <3>3, <3>4, FS_Singleton
  <2>2. CASE ~(n > 0)
    BY <1>10, <2>2, FS_EmptySet
  <2> QED BY <2>1, <2>2
<1> DEFINE y == [tx[t] EXCEPT !.alloc = A, !.left = l, !.mine = @ \cup U]
<1>12. PICK s \in {"commit", "spend"} : s = IF y.left = 0 \/ y.alloc = {} THEN "commit" ELSE "spend"
  OBVIOUS
<1> DEFINE x == [tx[t] EXCEPT !.alloc = A, !.left = l, !.mine = @ \cup U, !.pc = s]
<1>13. x = [y EXCEPT !.pc = s]
  OBVIOUS
<1>14. Become(t, [y EXCEPT !.pc = s]) /\ DB!Write(t, i, [b EXCEPT !.credited = @ + n])
  BY <1>3, <1>4, <1>5, <1>6, <1>7, <1>8, <1>10, <1>12
<1>15. [b EXCEPT !.credited = @ + n] \in Bill
  BY BillTypes
<1>16. RowsOK' /\ PlacesKept
  BY <1>1, <1>14, <1>15, RowTypes, WritesKeepPlaces
<1>17. tx[t].mine \cup U \subseteq AnyRow
  BY <1>2, <1>11 DEF TxState
<1>18. /\ x \in TxState /\ x.mine = tx[t].mine \cup U /\ x.at = tx[t].at /\ x.req = tx[t].req
       /\ x.pc = s /\ DebtSet(x.alloc)
  BY <1>2, <1>9, <1>17 DEF TxState, Statement
<1>19. Become(t, x)
  BY <1>13, <1>14
<1> HIDE DEF x, y
<1>20. Shape(x, served)
  BY <1>2, <1>18 DEF Shape, Delivery, Paying
<1>21. x.pc \notin Paying \cup {"idle", "move"}
  BY <1>18 DEF Paying
<1> QED BY <1>2, <1>11, <1>16, <1>18, <1>19, <1>20, <1>21, PlainStep

\* ReadOwed: no more than the supplier owes, as of now.
LEMMA ReadOwedStep ==
  ASSUME Types, NEW t \in Tx, ReadOwed(t)
  PROVE  Stepped(t)
<1>1. tx[t].pc = "ask" /\ RowsOK
  BY AtFacts DEF ReadOwed, At
<1>2. /\ tx[t] \in TxState /\ tx[t].req \in Request /\ tx[t].at \in 1 .. served
      /\ tx[t].req.op = "refund"
      /\ tx[t].pc \notin Paying \cup {"idle", "move", "commit"}
  BY <1>1, BackFacts
<1>3. CASE Fail(t)
  BY <1>3, Failed
<1>4. CASE Goto(t, "refund") /\ Read
  <2> DEFINE x == [tx[t] EXCEPT !.pc = "refund"]
  <2>1. Become(t, x)
    BY <1>4 DEF Goto
  <2>2. /\ x \in TxState /\ x.mine = tx[t].mine /\ x.at = tx[t].at /\ x.req = tx[t].req
        /\ x.pc = "refund" /\ x.alloc = tx[t].alloc
    BY <1>2 DEF TxState, Statement
  <2> HIDE DEF x
  <2>3. Shape(x, served)
    BY <1>2, <2>2 DEF Shape, Delivery, Paying
  <2>4. RowsOK' /\ PlacesKept
    BY <1>1, <1>4, RowTypes, WritesKeepPlaces DEF Read
  <2>5. x.pc \notin Paying \cup {"idle", "move"}
    BY <2>2 DEF Paying
  <2> QED BY <1>2, <2>1, <2>2, <2>3, <2>4, <2>5, QuietStep
<1> QED BY <1>3, <1>4 DEF ReadOwed

\* TakeRefund: the supplier owes it no more.
LEMMA TakeRefundStep ==
  ASSUME Types, NEW t \in Tx, TakeRefund(t)
  PROVE  Stepped(t)
<1>1. tx[t].pc = "refund" /\ RowsOK
  BY AtFacts DEF TakeRefund, At
<1>2. /\ tx[t] \in TxState /\ tx[t].req \in Request /\ tx[t].at \in 1 .. served
      /\ tx[t].req.op = "refund" /\ tx[t].req.sup \in Supplier /\ tx[t].req.amount \in Nat \ {0}
      /\ tx[t].req.by.from \in Place \cup {External} /\ MovesIn(tx[t].mine) = {} /\ DebtSet(tx[t].alloc)
  BY <1>1, BackFacts
<1>3. PICK d : d = Doc(t, "refund", R(t).by.from)
  OBVIOUS
<1>4. d \in Document /\ d.kind = "refund" /\ d.id = tx[t].at /\ d.from = tx[t].req.by.from
      /\ Stamp(d) = tx[t].at
  BY <1>1, <1>2, <1>3, DocType DEF R
<1>5. PICK n \in Int : n = R(t).amount
  BY <1>2 DEF R
<1> DEFINE x == [tx[t] EXCEPT !.mine = {d}]
<1>6. Become(t, [x EXCEPT !.pc = Closing(x)]) /\ DB!Write(t, tx[t].req.sup, AddBalance(cur[tx[t].req.sup], n))
  BY <1>3, <1>5 DEF TakeRefund, R
<1>7. AddBalance(cur[tx[t].req.sup], n) \in Account
  BY <1>1, <1>2, AccountTypes DEF RowsOK
<1>8. RowsOK' /\ PlacesKept
  BY <1>1, <1>2, <1>6, <1>7, RowTypes, WritesKeepPlaces
<1>9. /\ x \in TxState /\ x.mine = {d} /\ x.inv = tx[t].inv
      /\ x.at = tx[t].at /\ x.req = tx[t].req /\ x.alloc = tx[t].alloc
  BY <1>2, <1>4 DEF TxState, AnyRow
<1> HIDE DEF x
<1>10. CashDocs(x.mine) = {d} /\ MovesIn(x.mine) = {}
  BY <1>4, <1>9 DEF CashDocs, MovesIn, CashKinds
<1>11. IsDoc(x, d)
  BY <1>4, <1>9 DEF IsDoc, CashKinds
<1>12. IsFiniteSet(x.mine) /\ \A m \in x.mine : Stamp(m) = x.at
  BY <1>4, <1>9, FS_Singleton
<1>13. /\ x.req \in Request /\ x.at \in 1 .. served /\ x.req.op \in {"pay", "deliver", "receive", "refund"}
       /\ x.req.op = "receive" => x.inv = x.req.inv
       /\ DebtSet(x.alloc) /\ MovesIn(tx[t].mine) = {}
  BY <1>2, <1>9
<1>14. PICK s : s = Closing(x)
  OBVIOUS
<1>15. Become(t, [x EXCEPT !.pc = s])
  BY <1>6, <1>14
<1> QED BY <1>8, <1>9, <1>10, <1>11, <1>12, <1>13, <1>14, <1>15, PaidStep

-----------------------------------------------------------------------------
(***************************************************************************)
(* Money moved, rows committed, requests asked.                             *)
(***************************************************************************)
\* The money of a document is moved: from a place that has it, or may owe it.
Moves(t) ==
    \E x, d, p : /\ TxOK(x, served) /\ x.at = tx[t].at /\ x.req = tx[t].req /\ x.pc = "commit"
                 /\ p = tx[t].req.by.from /\ p \in Place
                 /\ CashDocs(tx[t].mine) = {d} /\ IsDoc(tx[t], d) /\ MovesIn(tx[t].mine) = {}
                 /\ x.mine = tx[t].mine \cup {MoveOf(tx[t], d)}
                 /\ Become(t, x)
                 /\ lock[p] \in {t, NoTx} /\ lock'[p] = t
                 /\ \A q \in Place : /\ com'[q] = com[q] /\ cur'[q] = cur[q]
                                     /\ q # p => lock'[q] = lock[q]
                 /\ \/ MoveOf(tx[t], d).amount >= 0 \/ cur[p].below
                    \/ InPlace(Rows(t), p) + MoveOf(tx[t], d).amount >= 0

\* What a place holds.
LEMMA InPlaceInt ==
  ASSUME NEW S, IsFiniteSet(S), S \subseteq AnyRow, NEW p \in Place
  PROVE  InPlace(S, p) \in Int
<1> DEFINE Q == {m \in S : m.kind = "move" /\ m.place = p}
           f == [m \in Q |-> m.amount]
<1>1. IsFiniteSet(Q) /\ \A m \in Q : f[m] \in Int
  BY RowKinds, FS_Subset
<1> HIDE DEF f
<1>2. SumFunctionOnSet(f, Q) \in Int
  BY <1>1, SumInt
<1>3. Amounts(Q) \in Int
  BY <1>2 DEF Amounts, f
<1>4. InitHeld[p] \in Int
  BY PayablesAssumption
<1> HIDE DEF Q
<1>5. PICK a \in Int, b \in Int : a = Amounts(Q) /\ b = InitHeld[p]
  BY <1>3, <1>4
<1> QED BY <1>5 DEF InPlace, Q

\* MoveTx moves it, or all is undone.
LEMMA MoveTxStep ==
  ASSUME Types, NEW t \in Tx, MoveTx(t)
  PROVE  RowsOK' /\ (Moves(t) \/ GivesUp(t))
<1>1. tx[t] \in TxState /\ tx[t].pc = "move" /\ RowsOK
  BY AtFacts DEF MoveTx, At
<1>2. /\ Shape(tx[t], served) /\ CashOK(tx[t]) /\ DebtSet(tx[t].alloc) /\ IsFiniteSet(tx[t].mine)
      /\ \A m \in tx[t].mine : Stamp(m) = tx[t].at
  BY AtFacts DEF TxOK
<1>3. /\ tx[t].req \in Request /\ tx[t].at \in 1 .. served
      /\ tx[t].req.op \in {"pay", "deliver", "receive", "refund", "expense"}
      /\ tx[t].req.op = "receive" => tx[t].inv = tx[t].req.inv
      /\ tx[t].req.op = "expense" => tx[t].req.by.from # External
  BY <1>1, <1>2 DEF Shape
<1>4. tx[t].req.by.from # External /\ MovesIn(tx[t].mine) = {}
  BY <1>1, <1>2 DEF CashOK
<1>5. PICK d : CashDocs(tx[t].mine) = {d} /\ IsDoc(tx[t], d)
  BY <1>1, <1>2 DEF CashOK
<1>6. PICK p \in Place : p = tx[t].req.by.from
  BY <1>3, <1>4, RequestFields
<1>7. d = CHOOSE y \in tx[t].mine : y.kind \in {"payment", "refund", "expense"}
  <2>1. \A y : (y \in tx[t].mine /\ y.kind \in {"payment", "refund", "expense"}) <=> y = d
    BY <1>5 DEF CashDocs, CashKinds
  <2> QED BY <2>1
<1>8. d.amount \in Nat
  BY <1>5 DEF IsDoc, Document, Expense
<1>9. PICK n \in Int : n = IF d.kind = "refund" THEN d.amount ELSE -d.amount
  BY <1>8
<1>10. CASE n < 0 /\ ~cur[p].below /\ InPlace(Rows(t), p) + n < 0
  <2>1. Fail(t)
    BY <1>6, <1>7, <1>9, <1>10 DEF MoveTx, R
  <2> QED BY <2>1, Failed
<1>11. CASE ~(n < 0 /\ ~cur[p].below /\ InPlace(Rows(t), p) + n < 0)
  <2>1. PICK m : m = [kind |-> "move", doc |-> tx[t].at, place |-> p, amount |-> n]
    OBVIOUS
  <2>2. m = MoveOf(tx[t], d)
    BY <1>6, <1>9, <2>1 DEF MoveOf
  <2>3. m \in AnyRow /\ m.kind = "move" /\ Stamp(m) = tx[t].at /\ m.amount = n
    <3>1. m \in Move
      BY <1>3, <2>1 DEF Move
    <3> QED BY <2>1, <3>1 DEF AnyRow, Stamp
  <2> DEFINE x == [tx[t] EXCEPT !.pc = "commit", !.mine = @ \cup {m}]
  <2>4. Become(t, x) /\ DB!Write(t, p, cur[p])
    BY <1>6, <1>7, <1>9, <1>11, <2>1 DEF MoveTx, R, DB!LockRow
  <2>5. tx[t].mine \cup {m} \subseteq AnyRow
    BY <1>1, <2>3 DEF TxState
  <2>6. /\ x \in TxState /\ x.mine = tx[t].mine \cup {m} /\ x.at = tx[t].at /\ x.req = tx[t].req
        /\ x.pc = "commit" /\ x.inv = tx[t].inv /\ x.alloc = tx[t].alloc
    BY <1>1, <2>5 DEF TxState, Statement
  <2> HIDE DEF x
  <2>7. Shape(x, served)
    BY <1>3, <2>6 DEF Shape, Delivery, Paying
  <2>8. d.kind # "move" /\ d \in tx[t].mine
    BY <1>5 DEF IsDoc, CashKinds, CashDocs
  <2>9. CashDocs(x.mine) = {d} /\ MovesIn(x.mine) = {m}
    BY <1>4, <1>5, <2>3, <2>6 DEF CashDocs, MovesIn, CashKinds
  <2>10. IsDoc(x, d) /\ MoveOf(x, d) = m
    BY <1>5, <2>2, <2>6 DEF IsDoc, MoveOf
  <2>11. CashOK(x)
    BY <1>4, <2>6, <2>9, <2>10 DEF CashOK, Paying
  <2>12. IsFiniteSet(x.mine) /\ \A k \in x.mine : Stamp(k) = x.at
    <3>1. IsFiniteSet(tx[t].mine \cup {m})
      BY <1>2, FS_AddElement
    <3> QED BY <1>2, <2>3, <2>6, <3>1
  <2>13. TxOK(x, served)
    BY <1>2, <2>6, <2>7, <2>11, <2>12 DEF TxOK
  <2>14. cur[p] \in Flags
    BY <1>1 DEF RowsOK
  <2>15. RowsOK'
    BY <1>1, <2>4, <2>14, RowTypes
  <2>16. p \in Row /\ \A q \in Place : q \in Row
    BY DEF Row
  <2>17. /\ lock[p] \in {t, NoTx} /\ lock'[p] = t
         /\ \A q \in Place : /\ com'[q] = com[q] /\ cur'[q] = cur[q]
                             /\ q # p => lock'[q] = lock[q]
    <3> HIDE DEF Place, Row
    <3> QED BY <1>1, <2>4, <2>16 DEF DB!Write, DB!Available, RowsOK
  <2>18. n >= 0 \/ cur[p].below \/ InPlace(Rows(t), p) + n >= 0
    <3>1. \/ n >= 0 \/ cur[p].below \/ ~(InPlace(Rows(t), p) + n < 0)
      BY <1>11
    <3>2. InPlace(Rows(t), p) \in Int
      BY RowsSeen, InPlaceInt
    <3>3. PICK h \in Int : h = InPlace(Rows(t), p)
      BY <3>2
    <3> QED BY <3>1, <3>3
  <2> HIDE DEF Place
  <2>19. Moves(t)
    BY <1>4, <1>5, <1>6, <2>2, <2>3, <2>4, <2>6, <2>13, <2>17, <2>18 DEF Moves
  <2> QED BY <2>15, <2>19
<1> QED BY <1>10, <1>11

\* What a transaction asked to do starts as.
Asks(t) == \E x : /\ TxOK(x, served') /\ x.at = served' /\ x.mine = {} /\ x.pc # "idle"
                  /\ tx[t].pc = "idle" /\ Serve
                  /\ tx' = [tx EXCEPT ![t] = x] /\ UNCHANGED <<rowVars, book>>

\* A request of one of the kinds is asked, at the first statement of its kind.
LEMMA AskStep ==
  ASSUME Types, NEW t \in Tx, NEW r \in Request, NEW i \in Purchase \cup {0}, NEW s, Ask(t, r, i, s),
         \/ r.op = "order" /\ s = "draft" /\ Len(r.drafts) > 0
         \/ r.op = "edit" /\ s = "find" /\ i = r.inv
         \/ r.op = "drop" /\ s = "drop" /\ i = r.inv
         \/ r.op = "deliver" /\ s \in {"insert", "source"}
         \/ r.op = "receive" /\ s \in {"find", "source"} /\ i = r.inv
         \/ r.op = "pay" /\ s = "plan"
         \/ r.op = "return" /\ s = "debit"
         \/ r.op = "refund" /\ s \in {"ask", "source"}
         \/ r.op = "adjust" /\ s = "adjust"
         \/ r.op = "expense" /\ s = "expense" /\ r.by.from # External
  PROVE  Asks(t)
<1> DEFINE x == [Idle EXCEPT !.pc = s, !.req = r, !.at = served', !.inv = i]
<1>1. served' = served + 1 /\ served \in Nat /\ served' \in Nat
  BY AtFacts DEF Ask, Serve
<1>2. PICK n \in Nat : n = served' /\ n \in 1 .. n
  BY <1>1
<1>3. s \in Statement /\ s \notin Paying \cup Delivery \cup {"idle", "move", "commit", "spend", "open"}
  BY DEF Statement, Paying, Delivery
<1>4. Idle \in TxState /\ Idle.mine = {} /\ Idle.alloc = {} /\ Idle.left = 0
  BY IdleFacts DEF Idle
<1>5. /\ x \in TxState /\ x.pc = s /\ x.req = r /\ x.at = n /\ x.inv = i /\ x.mine = {} /\ x.alloc = {}
      /\ x.left = 0
  BY <1>2, <1>3, <1>4 DEF TxState
<1>6. tx' = [tx EXCEPT ![t] = x] /\ UNCHANGED <<rowVars, book>> /\ tx[t].pc = "idle" /\ Serve
  BY DEF Ask, At
<1> HIDE DEF x
<1>7. CashOK(x)
  BY <1>3, <1>5 DEF CashOK, CashDocs, MovesIn
<1>8. r.op = "order" => 0 \in 0 .. Len(r.drafts) - 1
  <2>1. r.op = "order" => Len(r.drafts) \in Nat
    BY RequestFields
  <2>2. r.op = "order" => Len(r.drafts) > 0
    OBVIOUS
  <2> QED BY <2>1, <2>2
<1>9. Shape(x, n)
  BY <1>2, <1>5, <1>8 DEF Shape, Delivery, Paying
<1>10. TxOK(x, n)
  BY <1>5, <1>7, <1>9, FS_EmptySet, SmallDebts DEF TxOK
<1> QED BY <1>2, <1>3, <1>5, <1>6, <1>10 DEF Asks

\* The handlers that open a transaction.
LEMMA HandlerAsks ==
  ASSUME Types, NEW t \in Tx, Handle(t)
  PROVE  Asks(t) \/ ExpenseUpdate(t) \/ ExpenseDelete(t) \/ LockerUpdate(t)
<1>1. \A o : Asked(t, o) \subseteq Request /\ \A r \in Asked(t, o) : r.op = o
  BY PayablesAssumption DEF Asked
<1>2. 0 \in Purchase \cup {0}
  OBVIOUS
<1>3. ASSUME OrderCreate(t) \/ PurchaseDraftCreate(t) PROVE Asks(t)
  <2>1. PICK r \in Asked(t, "order") : Ask(t, r, 0, "draft") /\ (Len(r.drafts) = 1 \/ Len(r.drafts) > 1)
    BY <1>3 DEF OrderCreate, PurchaseDraftCreate
  <2>2. r \in Request /\ r.op = "order"
    BY <1>1
  <2>3. Len(r.drafts) > 0
    <3>1. r.drafts \in Seq([sup : Supplier, lines : Lines])
      BY <2>2, RequestFields
    <3>2. PICK k \in Nat : k = Len(r.drafts)
      BY <3>1
    <3>3. Len(r.drafts) = 1 \/ Len(r.drafts) > 1
      BY <2>1
    <3>4. k = 1 \/ k > 1
      BY <3>2, <3>3
    <3> QED BY <3>2, <3>4
  <2> QED BY <1>2, <2>1, <2>2, <2>3, AskStep
<1>4. ASSUME PurchaseDraftUpdate(t) PROVE Asks(t)
  <2>1. PICK r \in Asked(t, "edit") : Ask(t, r, r.inv, "find")
    BY <1>4 DEF PurchaseDraftUpdate
  <2>2. r \in Request /\ r.op = "edit" /\ r.inv \in Purchase \cup {0}
    BY <1>1, RequestFields
  <2> QED BY <2>1, <2>2, AskStep
<1>5. ASSUME PurchaseDraftDelete(t) PROVE Asks(t)
  <2>1. PICK r \in Asked(t, "drop") : Ask(t, r, r.inv, "drop")
    BY <1>5 DEF PurchaseDraftDelete
  <2>2. r \in Request /\ r.op = "drop" /\ r.inv \in Purchase \cup {0}
    BY <1>1, RequestFields
  <2> QED BY <2>1, <2>2, AskStep
<1>6. ASSUME PurchaseReceiveNow(t) \/ ReceiveWalkIn(t) PROVE Asks(t)
  <2>1. PICK r \in Asked(t, "deliver"), s \in {"insert", "source"} : Ask(t, r, 0, s)
    BY <1>6 DEF PurchaseReceiveNow, ReceiveWalkIn, ToCounter
  <2>2. r \in Request /\ r.op = "deliver"
    BY <1>1
  <2> QED BY <1>2, <2>1, <2>2, AskStep
<1>7. ASSUME PurchaseReceive(t) \/ ReceiveAgainstOrder(t) PROVE Asks(t)
  <2>1. PICK r \in Asked(t, "receive"), s \in {"find", "source"} : Ask(t, r, r.inv, s)
    BY <1>7 DEF PurchaseReceive, ReceiveAgainstOrder, ToCounter
  <2>2. r \in Request /\ r.op = "receive" /\ r.inv \in Purchase \cup {0}
    BY <1>1, RequestFields
  <2> QED BY <2>1, <2>2, AskStep
<1>8. ASSUME SupplierPay(t) \/ SupplierPayAtCounter(t) PROVE Asks(t)
  <2>1. PICK r \in Asked(t, "pay") : Ask(t, r, 0, "plan")
    BY <1>8 DEF SupplierPay, SupplierPayAtCounter
  <2>2. r \in Request /\ r.op = "pay"
    BY <1>1
  <2> QED BY <1>2, <2>1, <2>2, AskStep
<1>9. ASSUME PurchaseReturnCreate(t) PROVE Asks(t)
  <2>1. PICK r \in Asked(t, "return") : Ask(t, r, 0, "debit")
    BY <1>9 DEF PurchaseReturnCreate
  <2>2. r \in Request /\ r.op = "return"
    BY <1>1
  <2> QED BY <1>2, <2>1, <2>2, AskStep
<1>10. ASSUME SupplierRefund(t) \/ SupplierRefundAtCounter(t) PROVE Asks(t)
  <2>1. PICK r \in Asked(t, "refund"), s \in {"ask", "source"} : Ask(t, r, 0, s)
    BY <1>10 DEF SupplierRefund, SupplierRefundAtCounter
  <2>2. r \in Request /\ r.op = "refund"
    BY <1>1
  <2> QED BY <1>2, <2>1, <2>2, AskStep
<1>11. ASSUME SupplierOpeningAdjust(t) PROVE Asks(t)
  <2>1. PICK r \in Asked(t, "adjust") : Ask(t, r, 0, "adjust")
    BY <1>11 DEF SupplierOpeningAdjust
  <2>2. r \in Request /\ r.op = "adjust"
    BY <1>1
  <2> QED BY <1>2, <2>1, <2>2, AskStep
<1>12. ASSUME ExpenseCreate(t) PROVE Asks(t)
  <2>1. PICK r \in Asked(t, "expense") : r.by.from # External /\ Ask(t, r, 0, "expense")
    BY <1>12 DEF ExpenseCreate
  <2>2. r \in Request /\ r.op = "expense"
    BY <1>1
  <2> QED BY <1>2, <2>1, <2>2, AskStep
<1> QED BY <1>3, <1>4, <1>5, <1>6, <1>7, <1>8, <1>9, <1>10, <1>11, <1>12 DEF Handle

\* Each statement of a transaction is one of four.
LEMMA StatementSteps ==
  ASSUME Types, NEW t \in Tx, Step(t) \/ Cancel(t)
  PROVE  Stepped(t) \/ (RowsOK' /\ Moves(t)) \/ Commit(t)
<1>1. Cancel(t) => Stepped(t)
  BY Failed DEF Cancel
<1>2. MoveTx(t) => Stepped(t) \/ (RowsOK' /\ Moves(t))
  BY MoveTxStep DEF Stepped
<1>3. InsertDraft(t) \/ FindOrder(t) \/ RewriteDraft(t) \/ DeleteDraft(t) => Stepped(t)
  BY InsertDraftStep, FindOrderStep, RewriteDraftStep, AloneStep
<1>4. InsertPurchase(t) \/ UpdateHeader(t) \/ AddPayable(t) \/ ReadCredit(t) => Stepped(t)
  BY InsertPurchaseStep, UpdateHeaderStep, AddPayableStep, ReadCreditStep
<1>5. DrawAdvances(t) \/ DrawReturns(t) \/ KeepRemainder(t) \/ PayNow(t) => Stepped(t)
  BY DrawStep, KeepRemainderStep, PayNowStep
<1>6. OpenInvoices(t) \/ ShareOut(t) \/ LoadSupplier(t) \/ ApplyPayment(t) => Stepped(t)
  BY OpenInvoicesStep, ShareOutStep, LoadSupplierStep, ApplyPaymentStep
<1>7. PayOldDebt(t) \/ SettleRest(t) \/ CounterSource(t) \/ InsertExpense(t) => Stepped(t)
  BY PayOldDebtStep, SettleRestStep, CounterSourceStep, InsertExpenseStep
<1>8. DebitNote(t) \/ ListOpen(t) \/ ApplyCredit(t) => Stepped(t)
  BY DebitNoteStep, ListOpenStep, ApplyCreditStep
<1>9. ReadOwed(t) \/ TakeRefund(t) \/ Adjust(t) => Stepped(t)
  BY ReadOwedStep, TakeRefundStep, AloneStep
<1> QED BY <1>1, <1>2, <1>3, <1>4, <1>5, <1>6, <1>7, <1>8, <1>9 DEF Step

\* A purchase as it is committed keeps its type; so do the rows of a commit.
LEMMA TypesStep ==
  ASSUME Types, [Next]_vars
  PROVE  Types'
<1>1. ASSUME RowsOK', served' \in 0 .. MaxRequests, served' >= served,
             book' \subseteq AnyRow, IsFiniteSet(book'),
             NEW t \in Tx, NEW x, TxOK(x, served'), tx' = [tx EXCEPT ![t] = x]
      PROVE  Types'
  <2>1. tx \in [Tx -> TxState] /\ \A u \in Tx : TxOK(tx[u], served)
    BY DEF Types
  <2>2. tx' \in [Tx -> TxState]
    BY <1>1, <2>1 DEF TxOK
  <2>3. served \in Nat /\ served' \in Nat
    BY <1>1, PayablesAssumption DEF Types
  <2>4. ASSUME NEW u \in Tx PROVE TxOK(tx[u], served')
    <3>1. \A k \in 1 .. served : k \in 1 .. served'
      BY <1>1, <2>3
    <3>2. Shape(tx[u], served) => Shape(tx[u], served')
      BY <3>1 DEF Shape
    <3> QED BY <2>1, <3>2 DEF TxOK
  <2>5. \A u \in Tx : tx'[u] = IF u = t THEN x ELSE tx[u]
    BY <1>1, <2>1
  <2>6. ASSUME NEW u \in Tx PROVE TxOK(tx'[u], served')
    BY <1>1, <2>4, <2>5
  <2> QED BY <1>1, <2>2, <2>6 DEF Types
<1>2. RowsOK /\ served \in 0 .. MaxRequests /\ served \in Nat /\ book \subseteq AnyRow /\ IsFiniteSet(book)
      /\ tx \in [Tx -> TxState]
  BY PayablesAssumption DEF Types
<1>3. Serve => served' \in 0 .. MaxRequests /\ served' >= served /\ served' \in Nat
  BY <1>2, PayablesAssumption DEF Serve
<1>4. ASSUME NEW t \in Tx, Asks(t) PROVE Types'
  <2>1. UNCHANGED rowVars /\ UNCHANGED book /\ Serve
    BY <1>4 DEF Asks
  <2>2. RowsOK'
    BY <1>2, <2>1, RowTypes
  <2> QED BY <1>1, <1>2, <1>3, <1>4, <2>1, <2>2 DEF Asks
<1>5. ASSUME NEW t \in Tx, LockerUpdate(t) PROVE Types'
  <2>1. PICK r \in Asked(t, "locker") : DB!Update(r.place, r.flags)
    BY <1>5 DEF LockerUpdate
  <2>2. r \in Request /\ r.op = "locker"
    BY PayablesAssumption DEF Asked
  <2>3. r.place \in Place /\ r.flags \in Flags
    BY <2>2, RequestFields DEF Place
  <2>4. RowsOK'
    BY <1>2, <2>1, <2>3, RowTypes
  <2>5. UNCHANGED <<book, tx>> /\ Serve
    BY <1>5 DEF LockerUpdate
  <2>6. TxOK(tx[t], served')
    <3>1. TxOK(tx[t], served) /\ tx[t].pc = "idle"
      BY <1>5, AtFacts DEF LockerUpdate, At
    <3> QED BY <3>1 DEF TxOK, Shape
  <2>7. tx' = [tx EXCEPT ![t] = tx[t]]
    BY <1>2, <2>5
  <2> QED BY <1>1, <1>2, <1>3, <2>4, <2>5, <2>6, <2>7
<1>6. ASSUME NEW t \in Tx, ExpenseUpdate(t) \/ ExpenseDelete(t) PROVE Types'
  <2>1. UNCHANGED rowVars /\ UNCHANGED tx /\ Serve
    BY <1>6 DEF ExpenseUpdate, ExpenseDelete
  <2>2. RowsOK'
    BY <1>2, <2>1, RowTypes
  <2>3. TxOK(tx[t], served')
    <3>1. TxOK(tx[t], served) /\ tx[t].pc = "idle"
      BY <1>6, AtFacts DEF ExpenseUpdate, ExpenseDelete, At
    <3> QED BY <3>1 DEF TxOK, Shape
  <2>4. tx' = [tx EXCEPT ![t] = tx[t]]
    BY <1>2, <2>1
  <2>5. book' \subseteq AnyRow /\ IsFiniteSet(book')
    <3>1. CASE ExpenseUpdate(t)
      <4>1. PICK r \in Asked(t, "correct"), m \in {y \in book : y.kind = "expense"} :
               book' = (book \ {m}) \cup {[m EXCEPT !.amount = r.amount]}
        BY <3>1 DEF ExpenseUpdate
      <4>2. r.amount \in Nat
        <5>1. r \in Request /\ r.op = "correct"
          BY PayablesAssumption DEF Asked
        <5> QED BY <5>1, RequestFields
      <4>3. m \in Expense
        BY <1>2, RowKinds
      <4>4. [m EXCEPT !.amount = r.amount] \in Expense
        BY <4>2, <4>3 DEF Expense
      <4>5. IsFiniteSet(book \ {m})
        BY <1>2, FS_Subset
      <4>6. IsFiniteSet(book')
        BY <4>1, <4>5, FS_AddElement
      <4>7. book' \subseteq AnyRow
        BY <1>2, <4>1, <4>4 DEF AnyRow
      <4> QED BY <4>6, <4>7
    <3>2. CASE ExpenseDelete(t)
      BY <1>2, <3>2, FS_Subset DEF ExpenseDelete
    <3> QED BY <1>6, <3>1, <3>2
  <2> QED BY <1>1, <1>2, <1>3, <2>1, <2>2, <2>3, <2>4, <2>5
<1>7. ASSUME NEW t \in Tx, Stepped(t) \/ (RowsOK' /\ Moves(t)) PROVE Types'
  <2>1. PICK x : TxOK(x, served) /\ Become(t, x)
    BY <1>2, <1>7, IdleFacts DEF Stepped, GoesOn, GivesUp, Moves
  <2>2. RowsOK'
    BY <1>7 DEF Stepped
  <2>3. tx' = [tx EXCEPT ![t] = x] /\ UNCHANGED <<book, served>>
    BY <2>1 DEF Become, Tables
  <2>4. /\ served' >= served /\ served' \in 0 .. MaxRequests /\ TxOK(x, served')
        /\ book' \subseteq AnyRow /\ IsFiniteSet(book')
    BY <1>2, <2>1, <2>3
  <2> QED BY <1>1, <2>2, <2>3, <2>4
<1>8. ASSUME NEW t \in Tx, Commit(t) PROVE Types'
  <2>1. RowsOK'
    BY <1>2, <1>8, RowTypes DEF Commit
  <2>2. book' = Rows(t) /\ UNCHANGED served /\ tx' = [tx EXCEPT ![t] = Idle]
    BY <1>8 DEF Commit
  <2>3. TxOK(Idle, served')
    BY <1>2, <2>2, IdleFacts
  <2>4. served' = served /\ served' >= served /\ served' \in 0 .. MaxRequests
    BY <1>2, <2>2
  <2>5. book' \subseteq AnyRow /\ IsFiniteSet(book')
    BY <2>2, RowsSeen
  <2> QED BY <1>1, <2>1, <2>2, <2>3, <2>4, <2>5
<1>9. CASE UNCHANGED vars
  <2>1. UNCHANGED rowVars /\ book' = book /\ tx' = tx /\ served' = served
    BY <1>9 DEF vars, rowVars
  <2>2. RowsOK'
    BY <1>2, <2>1 DEF RowsOK, rowVars
  <2> QED BY <2>1, <2>2 DEF Types
<1>10. ASSUME NEW t \in Tx, Handle(t) PROVE Types'
  BY <1>4, <1>5, <1>6, <1>10, HandlerAsks
<1>11. ASSUME NEW t \in Tx, Step(t) \/ Cancel(t) PROVE Types'
  BY <1>7, <1>8, <1>11, StatementSteps
<1> QED BY <1>9, <1>10, <1>11 DEF Next, Closed

\* The first rows have their types.
LEMMA InitTypes ==
  ASSUME Init
  PROVE  Types
<1> DEFINE first == [r \in Row |-> IF r \in Supplier THEN InitAccount(r)
                                   ELSE IF r \in Purchase THEN InitPurchase[r] ELSE InitFlags[r]]
<1>1. /\ com = first /\ cur = first /\ lock = [r \in Row |-> NoTx]
      /\ book = InitBook /\ tx = [t \in Tx |-> Idle] /\ served = 0
  BY DEF Init, DB!DBInit
<1>2. ASSUME NEW s \in Supplier PROVE InitAccount(s) \in Account
  <2>1. InitOpening[s] \in Int
    BY PayablesAssumption
  <2>2. Totals(InitPurchase, InitBills(s)) \in Int
    <3> DEFINE B == InitBills(s)
               f == [i \in B |-> InitPurchase[i].total]
    <3>1. IsFiniteSet(B) /\ B \subseteq Purchase
      <4>1. IsFiniteSet(Purchase)
        BY PayablesAssumption, FS_Interval DEF Purchase
      <4> QED BY <4>1, FS_Subset DEF InitBills
    <3>2. \A i \in B : f[i] \in Int
      BY <3>1, PayablesAssumption DEF Bill
    <3> HIDE DEF B, f
    <3>3. SumFunctionOnSet(f, B) \in Int
      BY <3>1, <3>2, SumInt
    <3> QED BY <3>3 DEF Totals, B, f
  <2>3. Amounts({x \in InitBook : x.sup = s}) \in Int
    <3>1. IsFiniteSet({x \in InitBook : x.sup = s}) /\ \A x \in {x \in InitBook : x.sup = s} : x.amount \in Nat
      BY PayablesAssumption, FS_Subset DEF Document
    <3> HIDE DEF Document
    <3> QED BY <3>1, AmountsNat
  <2>7. PICK g \in Int, a \in Int, b \in Int : /\ g = InitOpening[s]
                                               /\ a = Totals(InitPurchase, InitBills(s))
                                               /\ b = Amounts({x \in InitBook : x.sup = s})
    BY <2>1, <2>2, <2>3
  <2>4. PICK o \in Int : o = g + a - b
    OBVIOUS
  <2>5. PICK n \in Int : n = Smaller(g, Larger(o, 0))
    BY DEF Smaller, Larger
  <2>6. InitAccount(s) = [out |-> o, opening |-> n, gross |-> g]
    BY <2>4, <2>5, <2>7 DEF InitAccount
  <2> QED BY <2>6 DEF Account
<1>3. Supplier \cap Purchase = {} /\ Place \cap (Supplier \cup Purchase) = {}
      /\ InitPurchase \in [Purchase -> Bill] /\ InitFlags \in [Place -> Flags]
  BY PayablesAssumption
<1>4. RowsOK
  <2> HIDE DEF Account, Bill, Flags, Place, Purchase
  <2> QED BY <1>1, <1>2, <1>3 DEF RowsOK, Row
<1>5. book \subseteq AnyRow /\ IsFiniteSet(book)
  BY <1>1, PayablesAssumption DEF AnyRow
<1>6. served \in 0 .. MaxRequests /\ served \in Nat
  BY <1>1, PayablesAssumption
<1>7. tx \in [Tx -> TxState] /\ \A t \in Tx : TxOK(tx[t], served)
  BY <1>1, <1>6, IdleFacts
<1> QED BY <1>4, <1>5, <1>6, <1>7 DEF Types

\* Whatever is asked, and however the transactions cross, rows and transactions keep
\* their types (every handler of Payables).
THEOREM PayablesTypes == Spec => []TypeOK
<1>1. Init => Types
  BY InitTypes
<1>2. Types /\ [Next]_vars => Types'
  BY TypesStep
<1>3. Types => TypeOK
  <2> SUFFICES ASSUME Types PROVE TypeOK
    OBVIOUS
  <2>1. ASSUME NEW t \in Tx
        PROVE  /\ tx[t].mine \subseteq Document \cup Use \cup Receipt \cup Expense \cup Move
               /\ tx[t].old \in Nat /\ tx[t].rest \in Nat /\ tx[t].left \in Int
               /\ ~At(t, "idle") => R(t) \in Request
    BY AtFacts DEF AnyRow, At, R
  <2>2. /\ \A f \in {com, cur} : /\ \A s \in Supplier : f[s] \in Account
                                 /\ \A i \in Purchase : f[i] \in Bill
                                 /\ \A p \in Place : f[p] \in Flags
        /\ lock \in [Row -> Tx \cup {NoTx}]
    BY DEF Types, RowsOK
  <2>3. book \subseteq Document \cup Use \cup Receipt \cup Expense \cup Move /\ served \in 0 .. MaxRequests
    BY DEF Types, AnyRow
  <2> QED BY <2>1, <2>2, <2>3 DEF TypeOK
<1> QED BY <1>1, <1>2, <1>3, PTL DEF Spec

-----------------------------------------------------------------------------
(***************************************************************************)
(* The money follows the documents.                                        *)
(***************************************************************************)
Busy(t) == tx[t].pc # "idle"

\* No two requests, and no row of one that is not over, have the same number.
Stamped == /\ \A m \in book : Stamp(m) <= served
           /\ \A t \in Tx : Busy(t) => \A m \in book : Stamp(m) # tx[t].at
           /\ \A t, u \in Tx : Busy(t) /\ Busy(u) /\ t # u => tx[t].at # tx[u].at

MovesOf(rows, i) == {m \in rows : m.kind = "move" /\ m.doc = i}
MovesAt(rows, p) == {m \in rows : m.kind = "move" /\ m.place = p}

\* What CashFollows says of a document: its moves, of which an expense has one.
DocMoved(rows, x) ==
    /\ x.kind = "payment" => MovesOf(rows, x.id) =
         IF x.from = External THEN {}
         ELSE {[kind |-> "move", doc |-> x.id, place |-> x.from, amount |-> -x.amount]}
    /\ x.kind = "refund" => MovesOf(rows, x.id) =
         IF x.from = External THEN {}
         ELSE {[kind |-> "move", doc |-> x.id, place |-> x.from, amount |-> x.amount]}
    /\ x.kind = "expense" => \E m : MovesOf(rows, x.id) = {m}

Enough(rows, p) == MayGoBelow(p) \/ InPlace(rows, p) >= 0

Settled == /\ \A x \in book : DocMoved(book, x)
           /\ \A p \in Place : Enough(book, p)

\* A place money was moved in is held until the move is committed, and has enough.
Covered == \A t \in Tx : \A m \in MovesIn(tx[t].mine) :
              lock[m.place] = t /\ Enough(Rows(t), m.place)

\* A place that may be overdrawn was so at first, or by a request.
Overdrafts == \A p \in Place : com[p].below \/ cur[p].below => MayGoBelow(p)

CashInv == Types /\ Stamped /\ Settled /\ Covered /\ Overdrafts

\* What a place holds depends on the moves there.
LEMMA SameMoves ==
  ASSUME NEW S, NEW T, NEW p, MovesAt(S, p) = MovesAt(T, p)
  PROVE  InPlace(S, p) = InPlace(T, p) /\ (Enough(S, p) <=> Enough(T, p))
BY DEF InPlace, MovesAt, Enough

\* One move more.
LEMMA OneMove ==
  ASSUME NEW S, IsFiniteSet(S), S \subseteq AnyRow, NEW p \in Place,
         NEW m \in AnyRow, m.kind = "move", m.place = p, m \notin S
  PROVE  InPlace(S \cup {m}, p) = InPlace(S, p) + m.amount
<1> DEFINE Q == MovesAt(S, p)
           f == [x \in Q \cup {m} |-> x.amount]
           g == [x \in Q |-> x.amount]
<1>1. IsFiniteSet(Q) /\ m \notin Q /\ \A x \in Q \cup {m} : x.amount \in Int
  BY RowKinds, FS_Subset DEF MovesAt
<1>2. (\A x \in Q \cup {m} : f[x] \in Int) /\ (\A x \in Q : f[x] = g[x]) /\ f[m] = m.amount
  BY <1>1
<1>3. MovesAt(S \cup {m}, p) = Q \cup {m}
  BY DEF MovesAt
<1> HIDE DEF f, g, Q
<1>4. SumFunctionOnSet(f, Q \cup {m}) = SumFunctionOnSet(f, Q) + f[m]
  BY <1>1, <1>2, SumAdd
<1>5. SumFunctionOnSet(f, Q) = SumFunctionOnSet(g, Q) /\ SumFunctionOnSet(g, Q) \in Int
  BY <1>1, <1>2, SumSame, SumInt
<1>6. Amounts(Q \cup {m}) = Amounts(Q) + m.amount /\ Amounts(Q) \in Int
  BY <1>2, <1>4, <1>5 DEF Amounts, f, g
<1>7. InPlace(S \cup {m}, p) = InitHeld[p] + Amounts(Q \cup {m}) /\ InPlace(S, p) = InitHeld[p] + Amounts(Q)
  BY <1>3 DEF InPlace, MovesAt, Q
<1>8. InitHeld[p] \in Int /\ m.amount \in Int
  BY <1>1, PayablesAssumption
<1>9. PICK a \in Int, b \in Int, c \in Int : a = Amounts(Q) /\ b = InitHeld[p] /\ c = m.amount
  BY <1>6, <1>8
<1> QED BY <1>6, <1>7, <1>9

\* The numbers, when nothing is inserted or committed.
LEMMA StampedKept ==
  ASSUME Types, Stamped, NEW t \in Tx, NEW x, Become(t, x), x.pc = "idle" \/ (x.at = tx[t].at /\ Busy(t))
  PROVE  Stamped'
<1>1. \A u \in Tx : tx'[u] = IF u = t THEN x ELSE tx[u]
  BY DEF Become, Types
<1>2. book' = book /\ served' = served
  BY DEF Become, Tables
<1> QED BY <1>1, <1>2 DEF Stamped, Busy

\* The flags, when no locker is changed.
LEMMA OverdraftsKept ==
  ASSUME Overdrafts, \A p \in Place : com'[p] \in {com[p], cur[p]} /\ cur'[p] \in {cur[p], com[p]}
  PROVE  Overdrafts'
BY DEF Overdrafts, MayGoBelow

\* A transaction that goes on has moved no more than it had.
LEMMA GoesOnCash ==
  ASSUME CashInv, NEW t \in Tx, GoesOn(t), Busy(t)
  PROVE  Stamped' /\ Settled' /\ Covered' /\ Overdrafts'
<1>1. PICK x : /\ x.at = tx[t].at /\ x.pc # "idle" /\ MovesIn(x.mine) = MovesIn(tx[t].mine)
               /\ Become(t, x) /\ PlacesKept
  BY DEF GoesOn
<1>2. \A u \in Tx : tx'[u] = IF u = t THEN x ELSE tx[u]
  BY <1>1 DEF Become, CashInv, Types
<1>3. book' = book
  BY <1>1 DEF Become, Tables
<1>4. Stamped'
  BY <1>1, StampedKept DEF CashInv
<1>5. Settled'
  BY <1>3 DEF CashInv, Settled, DocMoved, MovesOf, Enough, MayGoBelow, InPlace
<1>6. Overdrafts'
  BY <1>1, OverdraftsKept DEF PlacesKept, CashInv
<1>7. Covered'
  <2> SUFFICES ASSUME NEW u \in Tx, NEW m \in MovesIn(tx'[u].mine)
               PROVE  lock'[m.place] = u /\ Enough(Rows(u), m.place)'
    BY DEF Covered
  <2>1. MovesIn(tx'[u].mine) = MovesIn(tx[u].mine)
    BY <1>1, <1>2
  <2>2. lock[m.place] = u /\ Enough(Rows(u), m.place) /\ m \in tx[u].mine /\ m.kind = "move"
    BY <2>1 DEF CashInv, Covered, MovesIn
  <2>3. m \in AnyRow
    BY <2>2, AtFacts DEF CashInv
  <2>4. m.place \in Place
    BY <2>2, <2>3, RowKinds
  <2>5. lock'[m.place] = u
    BY <1>1, <2>2, <2>4 DEF PlacesKept
  <2>6. PICK R1, R2 : R1 = Rows(u) /\ R2 = Rows(u)'
    OBVIOUS
  <2>7. MovesAt(R1, m.place) = MovesAt(R2, m.place)
    BY <1>3, <2>1, <2>6 DEF Rows, MovesAt, MovesIn
  <2>8. Enough(R1, m.place) <=> Enough(R2, m.place)
    BY <2>7, SameMoves
  <2>9. Enough(R2, m.place)
    BY <2>2, <2>6, <2>8
  <2> QED BY <2>5, <2>6, <2>9 DEF Enough, MayGoBelow, InPlace
<1> QED BY <1>4, <1>5, <1>6, <1>7

\* One that gives up leaves what the others hold.
LEMMA GivesUpCash ==
  ASSUME CashInv, NEW t \in Tx, GivesUp(t)
  PROVE  Stamped' /\ Settled' /\ Covered' /\ Overdrafts'
<1>1. Become(t, Idle) /\ Idle.pc = "idle" /\ Idle.mine = {}
  BY IdleFacts DEF GivesUp
<1>2. \A u \in Tx : tx'[u] = IF u = t THEN Idle ELSE tx[u]
  BY <1>1 DEF Become, CashInv, Types
<1>3. book' = book
  BY <1>1 DEF Become, Tables
<1>4. Stamped'
  BY <1>1, StampedKept DEF CashInv
<1>5. Settled'
  BY <1>3 DEF CashInv, Settled, DocMoved, MovesOf, Enough, MayGoBelow, InPlace
<1>6. Overdrafts'
  BY OverdraftsKept DEF GivesUp, CashInv
<1>7. Covered'
  <2> SUFFICES ASSUME NEW u \in Tx, NEW m \in MovesIn(tx'[u].mine)
               PROVE  lock'[m.place] = u /\ Enough(Rows(u), m.place)'
    BY DEF Covered
  <2>1. u # t /\ tx'[u] = tx[u]
    BY <1>1, <1>2 DEF MovesIn
  <2>2. lock[m.place] = u /\ Enough(Rows(u), m.place) /\ m \in tx[u].mine /\ m.kind = "move"
    BY <2>1 DEF CashInv, Covered, MovesIn
  <2>3. m \in AnyRow
    BY <2>2, AtFacts DEF CashInv
  <2>4. m.place \in Place
    BY <2>2, <2>3, RowKinds
  <2>5. lock'[m.place] = u
    BY <2>1, <2>2, <2>4 DEF GivesUp
  <2>6. Rows(u)' = Rows(u)
    BY <1>3, <2>1 DEF Rows
  <2> QED BY <2>2, <2>5, <2>6 DEF Enough, MayGoBelow, InPlace
<1> QED BY <1>4, <1>5, <1>6, <1>7

\* Money is moved in a place nobody else holds.
LEMMA MovesCash ==
  ASSUME CashInv, NEW t \in Tx, Moves(t), Busy(t)
  PROVE  Stamped' /\ Settled' /\ Covered' /\ Overdrafts'
<1>1. PICK x, d, p :
         /\ TxOK(x, served) /\ x.at = tx[t].at /\ x.req = tx[t].req /\ x.pc = "commit"
         /\ p = tx[t].req.by.from /\ p \in Place
         /\ CashDocs(tx[t].mine) = {d} /\ IsDoc(tx[t], d) /\ MovesIn(tx[t].mine) = {}
         /\ x.mine = tx[t].mine \cup {MoveOf(tx[t], d)}
         /\ Become(t, x)
         /\ lock[p] \in {t, NoTx} /\ lock'[p] = t
         /\ \A q \in Place : com'[q] = com[q] /\ cur'[q] = cur[q] /\ (q # p => lock'[q] = lock[q])
         /\ \/ MoveOf(tx[t], d).amount >= 0 \/ cur[p].below
            \/ InPlace(Rows(t), p) + MoveOf(tx[t], d).amount >= 0
  BY DEF Moves
<1>2. \A u \in Tx : tx'[u] = IF u = t THEN x ELSE tx[u]
  BY <1>1 DEF Become, CashInv, Types
<1>3. book' = book
  BY <1>1 DEF Become, Tables
<1>4. Stamped'
  BY <1>1, StampedKept DEF CashInv
<1>5. Settled'
  BY <1>3 DEF CashInv, Settled, DocMoved, MovesOf, Enough, MayGoBelow, InPlace
<1>6. Overdrafts'
  BY <1>1, OverdraftsKept DEF CashInv
<1>7. PICK m : m = MoveOf(tx[t], d)
  OBVIOUS
<1>8. m.kind = "move" /\ m.doc = tx[t].at /\ m.place = p
  BY <1>1, <1>7 DEF MoveOf
<1>9. m \in AnyRow /\ m.amount \in Int
  <2>1. m \in x.mine
    BY <1>1, <1>7
  <2>2. m \in AnyRow
    BY <1>1, <2>1 DEF TxOK, TxState
  <2> QED BY <1>8, <2>2, RowKinds
<1>10. m \notin Rows(t) /\ IsFiniteSet(Rows(t)) /\ Rows(t) \subseteq AnyRow
  <2>1. Stamp(m) = tx[t].at
    BY <1>8 DEF Stamp
  <2>2. m \notin book
    BY <2>1 DEF CashInv, Stamped
  <2>3. m \notin tx[t].mine
    BY <1>1, <1>8 DEF MovesIn
  <2> QED BY <2>2, <2>3, RowsSeen DEF Rows, CashInv
<1>11. InPlace(Rows(t) \cup {m}, p) = InPlace(Rows(t), p) + m.amount
  BY <1>1, <1>8, <1>9, <1>10, OneMove
<1>12. Enough(Rows(t) \cup {m}, p)
  <2>1. PICK h \in Int : h = InPlace(Rows(t), p)
    BY <1>1, <1>10, InPlaceInt
  <2>2. CASE cur[p].below
    BY <1>1, <2>2 DEF CashInv, Overdrafts, Enough
  <2>3. CASE h + m.amount >= 0
    BY <1>11, <2>1, <2>3 DEF Enough
  <2>4. CASE m.amount >= 0
    <3>1. MovesAt(Rows(t), p) = MovesAt(book, p)
      BY <1>1 DEF MovesAt, Rows, MovesIn
    <3>2. Enough(Rows(t), p)
      BY <1>1, <3>1, SameMoves DEF CashInv, Settled
    <3>3. MayGoBelow(p) \/ h >= 0
      BY <2>1, <3>2 DEF Enough
    <3>4. MayGoBelow(p) \/ h + m.amount >= 0
      BY <1>9, <2>4, <3>3
    <3> QED BY <1>11, <2>1, <3>4 DEF Enough
  <2> QED BY <1>1, <1>7, <2>1, <2>2, <2>3, <2>4
<1>13. Covered'
  <2> SUFFICES ASSUME NEW u \in Tx, NEW n \in MovesIn(tx'[u].mine)
               PROVE  lock'[n.place] = u /\ Enough(Rows(u), n.place)'
    BY DEF Covered
  <2>1. CASE u = t
    <3>1. n = m
      BY <1>1, <1>2, <1>7, <2>1 DEF MovesIn
    <3>2. Rows(u)' = Rows(t) \cup {m}
      BY <1>1, <1>2, <1>3, <1>7, <2>1 DEF Rows
    <3> QED BY <1>1, <1>8, <1>12, <2>1, <3>1, <3>2 DEF Enough, MayGoBelow, InPlace
  <2>2. CASE u # t
    <3>1. tx'[u] = tx[u]
      BY <1>2, <2>2
    <3>2. lock[n.place] = u /\ Enough(Rows(u), n.place) /\ n \in tx[u].mine /\ n.kind = "move"
      BY <3>1 DEF CashInv, Covered, MovesIn
    <3>3. n \in AnyRow
      BY <3>2, AtFacts DEF CashInv
    <3>4. n.place \in Place
      BY <3>2, <3>3, RowKinds
    <3>5. n.place # p
      BY <1>1, <2>2, <3>2, PayablesAssumption
    <3>6. lock'[n.place] = u
      BY <1>1, <3>2, <3>4, <3>5
    <3>7. Rows(u)' = Rows(u)
      BY <1>3, <3>1 DEF Rows
    <3> QED BY <3>2, <3>6, <3>7 DEF Enough, MayGoBelow, InPlace
  <2> QED BY <2>1, <2>2
<1> QED BY <1>4, <1>5, <1>6, <1>13

\* What is committed: a document and its move, or neither.
LEMMA CommitCash ==
  ASSUME CashInv, NEW t \in Tx, Commit(t)
  PROVE  Stamped' /\ Settled' /\ Covered' /\ Overdrafts'
<1>1. /\ tx[t].pc = "commit" /\ DB!Commit(t) /\ book' = Rows(t) /\ tx' = [tx EXCEPT ![t] = Idle]
      /\ served' = served
  BY DEF Commit, At
<1>2. \A u \in Tx : tx'[u] = IF u = t THEN Idle ELSE tx[u]
  BY <1>1 DEF CashInv, Types
<1>3. /\ CashOK(tx[t]) /\ (\A m \in tx[t].mine : Stamp(m) = tx[t].at) /\ tx[t].at \in 1 .. served
      /\ tx[t].mine \subseteq AnyRow
  BY <1>1, AtFacts DEF CashInv, TxOK
<1>4. Idle.pc = "idle" /\ Idle.mine = {}
  BY IdleFacts
<1>5. book' = book \cup tx[t].mine
  BY <1>1 DEF Rows
<1>6. Busy(t)
  BY <1>1 DEF Busy
<1>7. Stamped'
  <2>1. \A m \in book' : Stamp(m) <= served'
    BY <1>1, <1>3, <1>5 DEF CashInv, Stamped
  <2>2. ASSUME NEW u \in Tx, tx'[u].pc # "idle" PROVE \A m \in book' : Stamp(m) # tx'[u].at
    <3>1. u # t /\ tx'[u] = tx[u]
      BY <1>2, <1>4, <2>2
    <3> QED BY <1>3, <1>5, <1>6, <2>2, <3>1 DEF CashInv, Stamped, Busy
  <2>3. \A u, v \in Tx : tx'[u].pc # "idle" /\ tx'[v].pc # "idle" /\ u # v => tx'[u].at # tx'[v].at
    BY <1>2, <1>4 DEF CashInv, Stamped, Busy
  <2> QED BY <2>1, <2>2, <2>3 DEF Stamped, Busy
<1>8. ASSUME NEW x \in book PROVE DocMoved(book', x)
  <2>1. DocMoved(book, x)
    BY DEF CashInv, Settled
  <2>2. x.kind \in CashKinds => MovesOf(book', x.id) = MovesOf(book, x.id)
    <3> SUFFICES ASSUME x.kind \in CashKinds PROVE MovesOf(book', x.id) = MovesOf(book, x.id)
      OBVIOUS
    <3>1. Stamp(x) = x.id /\ Stamp(x) # tx[t].at
      BY <1>6 DEF Stamp, CashKinds, CashInv, Stamped
    <3>2. \A m \in tx[t].mine : ~(m.kind = "move" /\ m.doc = x.id)
      BY <1>3, <3>1 DEF Stamp
    <3> QED BY <1>5, <3>2 DEF MovesOf
  <2> QED BY <2>1, <2>2 DEF DocMoved, CashKinds
<1>9. ASSUME NEW x \in tx[t].mine PROVE DocMoved(book', x)
  <2>1. CASE x.kind \notin CashKinds
    BY <2>1 DEF DocMoved, CashKinds
  <2>2. CASE x.kind \in CashKinds
    <3>1. x \in CashDocs(tx[t].mine)
      BY <2>2 DEF CashDocs
    <3>2. PICK d : /\ CashDocs(tx[t].mine) = {d} /\ IsDoc(tx[t], d)
                   /\ MovesIn(tx[t].mine) = IF tx[t].req.by.from = External THEN {} ELSE {MoveOf(tx[t], d)}
      BY <1>1, <1>3, <3>1 DEF CashOK
    <3>3. x = d
      BY <3>1, <3>2
    <3>4. /\ x.id = tx[t].at /\ (x.kind # "expense" => x.from = tx[t].req.by.from)
          /\ (x.kind = "expense" => tx[t].req.by.from # External)
      BY <3>2, <3>3 DEF IsDoc
    <3>5. MovesOf(book, x.id) = {}
      <4>1. \A m \in book : ~(m.kind = "move" /\ m.doc = x.id)
        BY <1>6, <3>4 DEF CashInv, Stamped, Stamp
      <4> QED BY <4>1 DEF MovesOf
    <3>6. MovesOf(tx[t].mine, x.id) = MovesIn(tx[t].mine)
      BY <1>3, <3>4 DEF MovesOf, MovesIn, Stamp
    <3>7. MovesOf(book', x.id) = MovesIn(tx[t].mine)
      BY <1>5, <3>5, <3>6 DEF MovesOf
    <3>8. MoveOf(tx[t], x) = [kind |-> "move", doc |-> x.id, place |-> tx[t].req.by.from,
                              amount |-> IF x.kind = "refund" THEN x.amount ELSE -x.amount]
      BY <3>4 DEF MoveOf
    <3>9. CASE x.kind = "payment"
      BY <3>2, <3>3, <3>4, <3>7, <3>8, <3>9 DEF DocMoved
    <3>10. CASE x.kind = "refund"
      BY <3>2, <3>3, <3>4, <3>7, <3>8, <3>10 DEF DocMoved
    <3>11. CASE x.kind = "expense"
      BY <3>2, <3>3, <3>4, <3>7, <3>11 DEF DocMoved
    <3> QED BY <2>2, <3>9, <3>10, <3>11 DEF CashKinds
  <2> QED BY <2>1, <2>2
<1>10. ASSUME NEW p \in Place PROVE Enough(book', p)
  <2>1. CASE \E m \in MovesIn(tx[t].mine) : m.place = p
    BY <1>1, <2>1 DEF CashInv, Covered
  <2>2. CASE ~\E m \in MovesIn(tx[t].mine) : m.place = p
    <3>1. MovesAt(book', p) = MovesAt(book, p)
      BY <1>5, <2>2 DEF MovesAt, MovesIn
    <3> QED BY <3>1, SameMoves DEF CashInv, Settled
  <2> QED BY <2>1, <2>2
<1>11. Settled'
  <2>1. \A x \in book' : DocMoved(book', x)
    BY <1>5, <1>8, <1>9
  <2> QED BY <1>10, <2>1 DEF Settled, DocMoved, MovesOf, Enough, MayGoBelow, InPlace
<1>12. Overdrafts'
  <2>1. \A p \in Place : p \in Row
    BY DEF Row
  <2> HIDE DEF Place, Row
  <2>2. \A p \in Place : com'[p] \in {com[p], cur[p]} /\ cur'[p] \in {cur[p], com[p]}
    BY <1>1, <2>1 DEF DB!Commit, DB!Visible
  <2> QED BY <2>2, OverdraftsKept DEF CashInv
<1>13. Covered'
  <2> SUFFICES ASSUME NEW u \in Tx, NEW n \in MovesIn(tx'[u].mine)
               PROVE  lock'[n.place] = u /\ Enough(Rows(u), n.place)'
    BY DEF Covered
  <2>1. u # t /\ tx'[u] = tx[u]
    BY <1>2, <1>4 DEF MovesIn
  <2>2. lock[n.place] = u /\ Enough(Rows(u), n.place) /\ n \in tx[u].mine /\ n.kind = "move"
    BY <2>1 DEF CashInv, Covered, MovesIn
  <2>3. n \in AnyRow
    BY <2>2, AtFacts DEF CashInv
  <2>4. n.place \in Place /\ n.place \in Row
    BY <2>2, <2>3, RowKinds DEF Row
  <2>5. lock'[n.place] = u
    <3> HIDE DEF Row, Place
    <3> QED BY <1>1, <2>1, <2>2, <2>4 DEF DB!Commit, DB!Release
  <2>6. \A k \in MovesIn(tx[t].mine) : k.place # n.place
    BY <2>1, <2>2 DEF CashInv, Covered
  <2>7. PICK R1, R2 : R1 = Rows(u) /\ R2 = Rows(u)'
    OBVIOUS
  <2>8. MovesAt(R1, n.place) = MovesAt(R2, n.place)
    BY <1>5, <2>1, <2>6, <2>7 DEF Rows, MovesAt, MovesIn
  <2>9. Enough(R2, n.place)
    BY <2>2, <2>7, <2>8, SameMoves
  <2> QED BY <2>5, <2>7, <2>9 DEF Enough, MayGoBelow, InPlace
<1> QED BY <1>7, <1>11, <1>12, <1>13

\* A new request has a number nobody has had.
LEMMA AsksCash ==
  ASSUME CashInv, NEW t \in Tx, Asks(t)
  PROVE  Stamped' /\ Settled' /\ Covered' /\ Overdrafts'
<1>1. PICK x : /\ x.at = served' /\ x.mine = {} /\ tx[t].pc = "idle" /\ Serve
               /\ tx' = [tx EXCEPT ![t] = x] /\ UNCHANGED <<rowVars, book>>
  BY DEF Asks
<1>2. \A u \in Tx : tx'[u] = IF u = t THEN x ELSE tx[u]
  BY <1>1 DEF CashInv, Types
<1>3. book' = book /\ com' = com /\ cur' = cur /\ lock' = lock
  BY <1>1 DEF rowVars
<1>4. served' = served + 1 /\ served \in Nat
  BY <1>1, AtFacts DEF Serve, CashInv
<1>5. \A m \in book : Stamp(m) \in Int
  BY RowKinds DEF CashInv, Types, Stamp
<1>6. \A m \in book : Stamp(m) <= served
  BY DEF CashInv, Stamped
<1>7. \A m \in book : Stamp(m) <= served' /\ Stamp(m) # served'
  BY <1>4, <1>5, <1>6
<1>8. \A u \in Tx : Busy(u) => tx[u].at \in Nat /\ tx[u].at # served'
  <2> SUFFICES ASSUME NEW u \in Tx, Busy(u) PROVE tx[u].at \in Nat /\ tx[u].at # served'
    OBVIOUS
  <2>1. tx[u].at \in 1 .. served
    BY AtFacts DEF Busy, CashInv
  <2> QED BY <1>4, <2>1
<1>9. Stamped'
  <2>1. ASSUME NEW u \in Tx, tx'[u].pc # "idle" PROVE \A m \in book : Stamp(m) # tx'[u].at
    BY <1>1, <1>2, <1>7, <2>1 DEF CashInv, Stamped, Busy
  <2>2. ASSUME NEW u \in Tx, NEW v \in Tx, tx'[u].pc # "idle", tx'[v].pc # "idle", u # v
        PROVE  tx'[u].at # tx'[v].at
    BY <1>1, <1>2, <1>8, <2>2 DEF CashInv, Stamped, Busy
  <2> QED BY <1>3, <1>7, <2>1, <2>2 DEF Stamped, Busy
<1>10. Settled' /\ Overdrafts'
  BY <1>3 DEF CashInv, Settled, Overdrafts, DocMoved, MovesOf, Enough, MayGoBelow, InPlace
<1>11. Covered'
  <2> SUFFICES ASSUME NEW u \in Tx, NEW m \in MovesIn(tx'[u].mine)
               PROVE  lock'[m.place] = u /\ Enough(Rows(u), m.place)'
    BY DEF Covered
  <2>1. u # t /\ tx'[u] = tx[u]
    BY <1>1, <1>2 DEF MovesIn
  <2>2. lock[m.place] = u /\ Enough(Rows(u), m.place)
    BY <2>1 DEF CashInv, Covered
  <2>3. Rows(u)' = Rows(u)
    BY <1>3, <2>1 DEF Rows
  <2> QED BY <1>3, <2>2, <2>3 DEF Enough, MayGoBelow, InPlace
<1> QED BY <1>9, <1>10, <1>11

\* A locker is changed by a request, while nobody has it.
LEMMA LockerCash ==
  ASSUME CashInv, NEW t \in Tx, LockerUpdate(t)
  PROVE  Stamped' /\ Settled' /\ Covered' /\ Overdrafts'
<1>1. PICK r \in Asked(t, "locker") : DB!Update(r.place, r.flags)
  BY DEF LockerUpdate
<1>2. r \in Request /\ r.op = "locker"
  BY PayablesAssumption DEF Asked
<1>3. r.place \in Place /\ r.flags \in Flags
  BY <1>2, RequestFields DEF Place
<1>4. book' = book /\ tx' = tx /\ served' = served + 1 /\ served \in Nat /\ lock' = lock
  BY <1>1, AtFacts DEF LockerUpdate, Serve, DB!Update, CashInv
<1>5. Stamped'
  <2>1. \A m \in book : Stamp(m) \in Int
    BY RowKinds DEF CashInv, Types, Stamp
  <2>2. \A m \in book : Stamp(m) <= served + 1
    BY <1>4, <2>1 DEF CashInv, Stamped
  <2> QED BY <1>4, <2>2 DEF CashInv, Stamped, Busy
<1>6. Settled' /\ Covered'
  BY <1>4 DEF CashInv, Settled, Covered, DocMoved, MovesOf, Enough, MayGoBelow, InPlace, Rows
<1>7. Overdrafts'
  <2>1. \A p \in Place : p \in Row
    BY DEF Row
  <2> HIDE DEF Place, Row, Flags
  <2>2. \A p \in Place : /\ com'[p] = IF p = r.place THEN r.flags ELSE com[p]
                         /\ cur'[p] = IF p = r.place THEN r.flags ELSE cur[p]
    BY <1>1, <2>1 DEF DB!Update, CashInv, Types, RowsOK
  <2>3. r.flags.below => MayGoBelow(r.place)
    BY <1>2 DEF MayGoBelow
  <2> QED BY <2>2, <2>3 DEF CashInv, Overdrafts, MayGoBelow
<1> QED BY <1>5, <1>6, <1>7

\* An expense corrected or struck off leaves every move where it was.
LEMMA ExpenseCash ==
  ASSUME CashInv, NEW t \in Tx, ExpenseUpdate(t) \/ ExpenseDelete(t)
  PROVE  Stamped' /\ Settled' /\ Covered' /\ Overdrafts'
<1>1. UNCHANGED rowVars /\ UNCHANGED tx /\ Serve
  BY DEF ExpenseUpdate, ExpenseDelete
<1>2. com' = com /\ cur' = cur /\ lock' = lock /\ tx' = tx /\ served' = served + 1 /\ served \in Nat
  BY <1>1, AtFacts DEF rowVars, Serve, CashInv
<1>3. \A n \in book' : n \in book \/ (n.kind = "expense" /\ \E m \in book : m.kind = "expense" /\ n.id = m.id)
  <2>1. CASE ExpenseUpdate(t)
    <3>1. PICK r \in Asked(t, "correct"), m \in {y \in book : y.kind = "expense"} :
             book' = (book \ {m}) \cup {[m EXCEPT !.amount = r.amount]}
      BY <2>1 DEF ExpenseUpdate
    <3>2. m \in Expense
      BY RowKinds DEF CashInv, Types
    <3>3. [m EXCEPT !.amount = r.amount].kind = "expense" /\ [m EXCEPT !.amount = r.amount].id = m.id
      BY <3>2 DEF Expense
    <3> QED BY <3>1, <3>3
  <2>2. CASE ExpenseDelete(t)
    BY <2>2 DEF ExpenseDelete
  <2> QED BY <2>1, <2>2
<1>4. \A n \in book : n.kind # "expense" => n \in book'
  BY DEF ExpenseUpdate, ExpenseDelete
<1>5. \A n \in book' : \E m \in book : Stamp(n) = Stamp(m)
  BY <1>3 DEF Stamp
<1>6. Stamped'
  <2>1. \A m \in book : Stamp(m) \in Int
    BY RowKinds DEF CashInv, Types, Stamp
  <2>2. \A m \in book : Stamp(m) <= served + 1
    BY <1>2, <2>1 DEF CashInv, Stamped
  <2>3. \A m \in book' : Stamp(m) <= served + 1
    BY <1>5, <2>2
  <2> QED BY <1>2, <1>5, <2>3 DEF CashInv, Stamped, Busy
<1>7. /\ \A i : MovesOf(book', i) = MovesOf(book, i)
      /\ \A p : MovesAt(book', p) = MovesAt(book, p)
  BY <1>3, <1>4 DEF MovesOf, MovesAt
<1>8. Settled'
  <2>1. ASSUME NEW n \in book' PROVE DocMoved(book', n)
    <3>1. CASE n \in book
      BY <1>7, <3>1 DEF CashInv, Settled, DocMoved
    <3>2. CASE n \notin book
      <4>1. n.kind = "expense"
        BY <1>3, <3>2
      <4>2. PICK m \in book : m.kind = "expense" /\ n.id = m.id
        BY <1>3, <3>2
      <4>3. PICK k : MovesOf(book, m.id) = {k}
        BY <4>2 DEF CashInv, Settled, DocMoved
      <4>4. MovesOf(book', n.id) = {k}
        BY <1>7, <4>2, <4>3
      <4> QED BY <4>1, <4>4 DEF DocMoved
    <3> QED BY <3>1, <3>2
  <2>2. ASSUME NEW p \in Place PROVE Enough(book', p)
    BY <1>7, SameMoves DEF CashInv, Settled
  <2> QED BY <2>1, <2>2 DEF Settled, DocMoved, MovesOf, Enough, MayGoBelow, InPlace
<1>9. Overdrafts'
  BY <1>2 DEF CashInv, Overdrafts, MayGoBelow
<1>10. Covered'
  <2> SUFFICES ASSUME NEW u \in Tx, NEW m \in MovesIn(tx[u].mine)
               PROVE  lock[m.place] = u /\ Enough(Rows(u), m.place)'
    BY <1>2 DEF Covered
  <2>1. lock[m.place] = u /\ Enough(Rows(u), m.place)
    BY DEF CashInv, Covered
  <2>2. PICK R1, R2 : R1 = Rows(u) /\ R2 = Rows(u)'
    OBVIOUS
  <2>3. MovesAt(R1, m.place) = MovesAt(R2, m.place)
    BY <1>2, <1>7, <2>2 DEF Rows, MovesAt
  <2>4. Enough(R2, m.place)
    BY <2>1, <2>2, <2>3, SameMoves
  <2> QED BY <2>1, <2>2, <2>4 DEF Enough, MayGoBelow, InPlace
<1> QED BY <1>6, <1>8, <1>9, <1>10

\* A statement is made by a transaction that is open.
LEMMA StepBusy ==
  ASSUME NEW t \in Tx, Step(t)
  PROVE  Busy(t)
<1>1. /\ InsertDraft(t) \/ FindOrder(t) \/ RewriteDraft(t) \/ DeleteDraft(t) => Busy(t)
      /\ InsertPurchase(t) \/ UpdateHeader(t) \/ AddPayable(t) \/ ReadCredit(t) => Busy(t)
  BY DEF Busy, At, InsertDraft, FindOrder, RewriteDraft, DeleteDraft, InsertPurchase, UpdateHeader,
         AddPayable, ReadCredit
<1>2. /\ DrawAdvances(t) \/ DrawReturns(t) \/ KeepRemainder(t) \/ PayNow(t) => Busy(t)
      /\ OpenInvoices(t) \/ ShareOut(t) \/ LoadSupplier(t) \/ ApplyPayment(t) => Busy(t)
  BY DEF Busy, At, DrawAdvances, DrawReturns, KeepRemainder, PayNow, OpenInvoices, ShareOut,
         LoadSupplier, ApplyPayment
<1>3. /\ PayOldDebt(t) \/ SettleRest(t) \/ CounterSource(t) \/ InsertExpense(t) \/ MoveTx(t) => Busy(t)
      /\ DebitNote(t) \/ ListOpen(t) \/ ApplyCredit(t) => Busy(t)
      /\ ReadOwed(t) \/ TakeRefund(t) \/ Adjust(t) \/ Commit(t) => Busy(t)
  BY DEF Busy, At, PayOldDebt, SettleRest, CounterSource, InsertExpense, MoveTx, DebitNote, ListOpen,
         ApplyCredit, ReadOwed, TakeRefund, Adjust, Commit
<1> QED BY <1>1, <1>2, <1>3 DEF Step

\* No step parts a document from its money.
LEMMA CashStep ==
  ASSUME CashInv, [Next]_vars
  PROVE  CashInv'
<1>1. Types'
  BY TypesStep DEF CashInv
<1>2. ASSUME NEW t \in Tx, Handle(t) PROVE Stamped' /\ Settled' /\ Covered' /\ Overdrafts'
  <2>1. Asks(t) \/ ExpenseUpdate(t) \/ ExpenseDelete(t) \/ LockerUpdate(t)
    BY <1>2, HandlerAsks DEF CashInv
  <2> QED BY <2>1, AsksCash, ExpenseCash, LockerCash
<1>3. ASSUME NEW t \in Tx, Step(t) \/ Cancel(t) PROVE Stamped' /\ Settled' /\ Covered' /\ Overdrafts'
  <2>1. Busy(t)
    BY <1>3, StepBusy DEF Cancel, At, Busy
  <2>2. Stepped(t) \/ Moves(t) \/ Commit(t)
    BY <1>3, StatementSteps DEF CashInv
  <2> QED BY <2>1, <2>2, GoesOnCash, GivesUpCash, MovesCash, CommitCash DEF Stepped
<1>4. CASE UNCHANGED vars
  <2>1. com' = com /\ cur' = cur /\ lock' = lock /\ book' = book /\ tx' = tx /\ served' = served
    BY <1>4 DEF vars, rowVars
  <2>2. Stamped' /\ Settled'
    BY <2>1 DEF CashInv, Stamped, Busy, Settled, DocMoved, MovesOf, Enough, MayGoBelow, InPlace
  <2>3. Covered' /\ Overdrafts'
    BY <2>1 DEF CashInv, Covered, Overdrafts, Enough, MayGoBelow, InPlace, Rows
  <2> QED BY <1>1, <2>2, <2>3 DEF CashInv
<1>5. Next => (\E t \in Tx : Handle(t) \/ Step(t) \/ Cancel(t)) \/ UNCHANGED vars
  BY DEF Next, Closed
<1> QED BY <1>1, <1>2, <1>3, <1>4, <1>5 DEF CashInv

\* At first nothing has been moved.
LEMMA InitCash ==
  ASSUME Init
  PROVE  CashInv
<1>1. Types
  BY InitTypes
<1>2. /\ book = InitBook /\ tx = [t \in Tx |-> Idle] /\ served = 0
      /\ \A p \in Place : com[p] = InitFlags[p] /\ cur[p] = InitFlags[p]
  <2>1. \A p \in Place : p \in Row /\ p \notin Supplier /\ p \notin Purchase
    BY PayablesAssumption DEF Row
  <2> HIDE DEF Place, Row, Purchase
  <2> QED BY <2>1 DEF Init, DB!DBInit
<1>3. \A m \in book : m \in Document /\ m.kind = "payment" /\ m.id <= 0 /\ m.from = External
  BY <1>2, PayablesAssumption
<1>4. \A t \in Tx : tx[t].pc = "idle" /\ tx[t].mine = {}
  BY <1>2, IdleFacts
<1>5. Stamped
  BY <1>2, <1>3, <1>4 DEF Stamped, Busy, Stamp
<1>6. (\A i : MovesOf(book, i) = {}) /\ \A p : MovesAt(book, p) = {}
  BY <1>3 DEF MovesOf, MovesAt
<1>7. Settled
  <2>1. \A x \in book : DocMoved(book, x)
    BY <1>3, <1>6 DEF DocMoved
  <2>2. ASSUME NEW p \in Place PROVE Enough(book, p)
    <3>1. Amounts({}) = 0
      BY SumEmpty DEF Amounts
    <3>2. InPlace(book, p) = InitHeld[p]
      <4>1. InPlace(book, p) = InitHeld[p] + Amounts(MovesAt(book, p))
        BY DEF InPlace, MovesAt
      <4>2. InitHeld[p] \in Int
        BY PayablesAssumption
      <4> QED BY <1>6, <3>1, <4>1, <4>2
    <3>3. InitHeld[p] >= 0
      BY PayablesAssumption
    <3> QED BY <3>2, <3>3 DEF Enough
  <2> QED BY <2>1, <2>2 DEF Settled
<1>8. Covered
  BY <1>4 DEF Covered, MovesIn
<1>9. Overdrafts
  BY <1>2 DEF Overdrafts, MayGoBelow
<1> QED BY <1>1, <1>5, <1>7, <1>8, <1>9 DEF CashInv

\* "The source debit and the receipt always commit together": whatever is paid, refunded
\* or spent, and however it crosses other business, each document that names a place has
\* moved its money there once and in full, and no place gives more than it holds unless
\* it may be overdrawn (MoveTx, the last statement before the commit).
THEOREM MoneyFollowsDocuments == Spec => []CashFollows
<1>1. Init => CashInv
  BY InitCash
<1>2. CashInv /\ [Next]_vars => CashInv'
  BY CashStep
<1>3. CashInv => CashFollows
  <2> SUFFICES ASSUME CashInv PROVE CashFollows
    OBVIOUS
  <2>1. \A i : {m \in Docs("move") : m.doc = i} = MovesOf(book, i)
    BY DEF Docs, MovesOf
  <2>2. \A x \in Docs("payment") : Moved(x, -x.amount)
    BY <2>1 DEF CashInv, Settled, DocMoved, Docs, Moved
  <2>3. \A x \in Docs("refund") : Moved(x, x.amount)
    BY <2>1 DEF CashInv, Settled, DocMoved, Docs, Moved
  <2>4. \A x \in Docs("expense") : Cardinality({m \in Docs("move") : m.doc = x.id}) = 1
    <3> SUFFICES ASSUME NEW x \in Docs("expense") PROVE Cardinality(MovesOf(book, x.id)) = 1
      BY <2>1
    <3>1. PICK m : MovesOf(book, x.id) = {m}
      BY DEF CashInv, Settled, DocMoved, Docs
    <3> QED BY <3>1, FS_Singleton
  <2>5. \A p \in Place : MayGoBelow(p) \/ InPlace(book, p) >= 0
    BY DEF CashInv, Settled, Enough
  <2> QED BY <2>2, <2>3, <2>4, <2>5 DEF CashFollows
<1> QED BY <1>1, <1>2, <1>3, PTL DEF Spec

-----------------------------------------------------------------------------
(***************************************************************************)
(* What becomes of a purchase.                                             *)
(***************************************************************************)
\* A draft is edited, deleted and taken in at one terminal.
DraftsApart ==
    \A t, u \in Tx : t # u =>
       \A r \in Desk[t], q \in Desk[u] :
          r.op \in {"edit", "drop", "receive"} /\ q.op \in {"edit", "drop", "receive"} => r.inv # q.inv

Ledger == Supplier \cup Purchase

\* What a statement does to these rows: nothing, one written, one changed for good,
\* those of a transaction given back, or made known.
Same       == \A r \in Ledger : com'[r] = com[r] /\ cur'[r] = cur[r] /\ lock'[r] = lock[r]
Wrote(t, r, v) ==
    /\ lock[r] \in {t, NoTx} /\ lock'[r] = t /\ cur'[r] = v
    /\ \A q \in Ledger : com'[q] = com[q] /\ (q # r => cur'[q] = cur[q] /\ lock'[q] = lock[q])
Changes(r, v) ==
    /\ lock[r] = NoTx /\ com'[r] = v /\ cur'[r] = v
    /\ \A q \in Ledger : lock'[q] = lock[q] /\ (q # r => com'[q] = com[q] /\ cur'[q] = cur[q])
Undone(t)    == \A r \in Ledger : /\ com'[r] = com[r] /\ cur'[r] = IF lock[r] = t THEN com[r] ELSE cur[r]
                                  /\ lock'[r] = IF lock[r] = t THEN NoTx ELSE lock[r]
Published(t) == \A r \in Ledger : /\ com'[r] = (IF lock[r] = t THEN cur[r] ELSE com[r]) /\ cur'[r] = cur[r]
                                  /\ lock'[r] = IF lock[r] = t THEN NoTx ELSE lock[r]

\* What the operations on rows come to.
LEMMA Effects ==
  ASSUME RowsOK, NEW t \in Tx
  PROVE  /\ Read => Same
         /\ \A r \in Ledger : \A v : /\ DB!Write(t, r, v) => Wrote(t, r, v)
                                     /\ DB!Update(r, v) => Changes(r, v)
         /\ \A p \in Place : \A v : DB!Write(t, p, v) \/ DB!Update(p, v) => Same
         /\ DB!Rollback(t) => Undone(t)
         /\ DB!Commit(t) => Published(t)
<1>1. \A r \in Ledger : r \in Row /\ r \notin Place
  BY PayablesAssumption DEF Ledger, Row
<1>2. com \in [Row -> Account \cup Bill \cup Flags] /\ cur \in [Row -> Account \cup Bill \cup Flags]
      /\ lock \in [Row -> Tx \cup {NoTx}]
  BY DEF RowsOK
<1> DEFINE Val == Account \cup Bill \cup Flags
<1> HIDE DEF Ledger, Row, Place, Val
<1>3. Read => Same
  BY DEF Read, rowVars, Same
<1>4. \A r \in Ledger : \A v : DB!Write(t, r, v) => Wrote(t, r, v)
  BY <1>1, <1>2 DEF DB!Write, DB!Available, Wrote
<1>5. \A r \in Ledger : \A v : DB!Update(r, v) => Changes(r, v)
  BY <1>1, <1>2 DEF DB!Update, Changes
<1>6. \A p \in Place : \A v : DB!Write(t, p, v) \/ DB!Update(p, v) => Same
  BY <1>1, <1>2 DEF DB!Write, DB!Update, Same
<1>7. DB!Rollback(t) => Undone(t)
  BY <1>1, <1>2 DEF DB!Rollback, DB!Release, Undone
<1>8. DB!Commit(t) => Published(t)
  BY <1>1, <1>2 DEF DB!Commit, DB!Release, DB!Visible, Published
<1> QED BY <1>3, <1>4, <1>5, <1>6, <1>7, <1>8

\* A delivery that has written its purchase; one whose remainder stays on order; and
\* one that has not come to it yet.
Taking(x) == /\ x.req.op \in {"deliver", "receive"}
             /\ x.pc \in Delivery \cup Paying \cup {"load", "move", "commit"}
Keeps(x)  == /\ x.req.op = "receive" /\ x.req.keep
             /\ \E p \in Product : RemainderLines(x.want, x.req.lines)[p] > 0
Before(x) == x.pc \in Delivery \ {"now"}

\* The statements before the first row is written.
Early == {"idle", "find", "edit", "receive", "drop", "insert", "plan", "share", "source", "expense",
          "debit", "ask", "refund", "adjust"}

\* A request is one its terminal serves.
AtDesk == \A t \in Tx : Busy(t) => R(t) \in Desk[t]

\* A purchase is never unmade, changes its supplier or goes back to being a draft.
BillsKept ==
    \A i \in Purchase :
       /\ com[i].status # "none" => cur[i].status # "none" /\ cur[i].sup = com[i].sup
       /\ com[i].status \in Received => cur[i].status \in Received /\ cur[i].total = com[i].total
       /\ InitPurchase[i].status # "none" => com[i].status # "none" /\ com[i].sup = InitPurchase[i].sup

HoldsNothing(t) == tx[t].pc \in Early => \A r \in Ledger : lock[r] # t

\* What FindOrder found is so.
DraftFound(t) ==
    tx[t].pc \in {"edit", "receive"} => com[tx[t].inv].status = "draft" /\ tx[t].want = com[tx[t].inv].lines

\* The purchase a delivery takes in, and the draft of its remainder, are all it holds.
Remains(t) ==
    LET x == tx[t]
    IN IF Keeps(x) /\ ~Before(x)
         THEN \E d \in Purchase : /\ d # x.inv /\ lock[d] = t /\ com[d].status = "none"
                                  /\ cur[d].status = "draft"
                                  /\ cur[d].lines = RemainderLines(x.want, x.req.lines)
                                  /\ \A j \in Purchase : lock[j] = t => j \in {x.inv, d}
         ELSE \A j \in Purchase : lock[j] = t => j = x.inv

TakesIn(t) ==
    LET x == tx[t]
        i == tx[t].inv
    IN Taking(x) =>
         /\ i \in Purchase /\ lock[i] = t /\ cur[i].status \in Received /\ cur[i].total = Worth(x.req.lines)
         /\ x.req.op = "deliver" => com[i].status = "none" /\ cur[i].sup = x.req.sup
         /\ x.req.op = "receive" => com[i].status = "draft" /\ x.want = com[i].lines
         /\ Remains(t)

\* Only a delivery takes a purchase in, only a request about a draft holds it, an amount
\* is for a purchase that was taken in, and a receipt is of its delivery.
TakenOnly(t) == \A j \in Purchase :
    lock[j] = t /\ cur[j].status \in Received /\ com[j].status \notin Received => Taking(tx[t]) /\ j = tx[t].inv
DraftHeld(t) == \A j \in Purchase :
    lock[j] = t /\ com[j].status = "draft" => R(t).op \in {"edit", "receive"} /\ R(t).inv = j
ShareOK(t) == \A p \in tx[t].alloc :
    IF R(t).op \in {"deliver", "receive"} THEN Taking(tx[t]) /\ p.id = tx[t].inv
    ELSE com[p.id].status \in Received
ReceiptOK(t) == \A m \in tx[t].mine :
    m.kind = "receipt" => /\ Taking(tx[t]) /\ m.lines = R(t).lines
                          /\ m.keep => R(t).op = "receive" /\ R(t).keep

PurchaseOK(t) == /\ HoldsNothing(t) /\ DraftFound(t) /\ TakesIn(t) /\ TakenOnly(t)
                 /\ DraftHeld(t) /\ ShareOK(t) /\ ReceiptOK(t)

Purchases == BillsKept /\ \A t \in Tx : PurchaseOK(t)

\* What another transaction does not touch.
LEMMA OthersPurchases ==
  ASSUME NEW u \in Tx, PurchaseOK(u), tx'[u] = tx[u],
         tx[u].pc # "idle" => tx[u].inv \in Purchase \cup {0},
         tx[u].pc \in {"edit", "receive"} => tx[u].inv \in Purchase,
         \A p \in tx[u].alloc : p.id \in Purchase,
         \A r \in Ledger : lock'[r] = u <=> lock[r] = u,
         \A r \in Ledger : lock[r] = u => cur'[r] = cur[r] /\ com'[r] = com[r],
         \A i \in Purchase : com[i].status \in Received => com'[i].status \in Received,
         tx[u].pc \in {"edit", "receive"} => com'[tx[u].inv] = com[tx[u].inv]
  PROVE  PurchaseOK(u)'
<1>0. Purchase \subseteq Ledger
  BY DEF Ledger
<1>1. HoldsNothing(u)'
  BY DEF PurchaseOK, HoldsNothing
<1>2. DraftFound(u)'
  BY DEF PurchaseOK, DraftFound
<1>3. TakesIn(u)'
  <2> SUFFICES ASSUME Taking(tx[u]) PROVE TakesIn(u)'
    BY DEF TakesIn
  <2> DEFINE i == tx[u].inv
  <2>1. i \in Ledger /\ lock[i] = u
    BY <1>0 DEF PurchaseOK, TakesIn
  <2>2. lock'[i] = u /\ cur'[i] = cur[i] /\ com'[i] = com[i]
    BY <2>1
  <2>3. Remains(u)
    BY DEF PurchaseOK, TakesIn
  <2>4. Remains(u)'
    <3>1. CASE Keeps(tx[u]) /\ ~Before(tx[u])
      <4>1. PICK d \in Purchase : /\ d # i /\ lock[d] = u /\ com[d].status = "none" /\ cur[d].status = "draft"
                                  /\ cur[d].lines = RemainderLines(tx[u].want, tx[u].req.lines)
                                  /\ \A j \in Purchase : lock[j] = u => j \in {i, d}
        BY <2>3, <3>1 DEF Remains
      <4>2. lock'[d] = u /\ cur'[d] = cur[d] /\ com'[d] = com[d]
        BY <1>0, <4>1
      <4>3. \A j \in Purchase : lock'[j] = u => j \in {i, d}
        BY <1>0, <4>1
      <4> QED BY <3>1, <4>1, <4>2, <4>3 DEF Remains
    <3>2. CASE ~(Keeps(tx[u]) /\ ~Before(tx[u]))
      BY <1>0, <2>3, <3>2 DEF Remains
    <3> QED BY <3>1, <3>2
  <2> QED BY <2>2, <2>4 DEF PurchaseOK, TakesIn
<1>4. TakenOnly(u)' /\ DraftHeld(u)'
  BY <1>0 DEF PurchaseOK, TakenOnly, DraftHeld, R
<1>5. ShareOK(u)'
  BY DEF PurchaseOK, ShareOK, R
<1>6. ReceiptOK(u)'
  BY DEF PurchaseOK, ReceiptOK, R
<1> QED BY <1>1, <1>2, <1>3, <1>4, <1>5, <1>6 DEF PurchaseOK

\* What is known of a transaction in progress.
LEMMA BusyFacts ==
  ASSUME Types, NEW u \in Tx
  PROVE  /\ tx[u].inv \in Purchase \cup {0}
         /\ \A p \in tx[u].alloc : p.id \in Purchase /\ p.at \in Nat /\ p.n \in Nat \ {0}
         /\ tx[u].pc \in {"edit", "receive"} => tx[u].inv \in Purchase
<1>1. /\ tx[u].inv \in Purchase \cup {0} /\ tx[u].alloc \subseteq Part
  BY DEF Types, TxOK, TxState
<1>2. Shape(tx[u], served)
  BY AtFacts DEF TxOK
<1>3. tx[u].pc \in {"edit", "receive"} => tx[u].inv \in Purchase
  BY <1>2, RequestFields DEF Shape
<1> QED BY <1>1, <1>3 DEF Part

-----------------------------------------------------------------------------
(***************************************************************************)
(* What each statement does.                                               *)
(***************************************************************************)
\* Only t moves, with no row inserted for good.
Only(t)    == /\ book' = book /\ served' = served
              /\ \A u \in Tx : u # t => tx'[u] = tx[u]
\* It goes on with its request; with the order it has read, too; with all of its own.
Goes(t)    == Only(t) /\ tx'[t].req = tx[t].req /\ tx'[t].at = tx[t].at
Follows(t) == Goes(t) /\ tx'[t].inv = tx[t].inv /\ tx'[t].want = tx[t].want
Plans(t)   == /\ tx'[t].alloc = tx[t].alloc /\ tx'[t].old = tx[t].old /\ tx'[t].rest = tx[t].rest
              /\ tx'[t].seen = tx[t].seen
Carries(t) == Follows(t) /\ Plans(t) /\ tx'[t].left = tx[t].left /\ tx'[t].mine = tx[t].mine
\* It ends without a row inserted, and what it wrote is undone.
Ends(t)    == Only(t) /\ tx'[t] = Idle
Fails(t)   == Ends(t) /\ Undone(t)

\* One who goes on changes its own state only.
LEMMA Becomes ==
  ASSUME Types, NEW t \in Tx, NEW x, Become(t, x)
  PROVE  /\ Only(t) /\ tx'[t] = x
         /\ x.req = tx[t].req /\ x.at = tx[t].at => Goes(t)
         /\ x.req = tx[t].req /\ x.at = tx[t].at /\ x.inv = tx[t].inv /\ x.want = tx[t].want => Follows(t)
BY DEF Types, Become, Tables, Only, Goes, Follows

\* A failed transaction.
LEMMA FailDoes ==
  ASSUME Types, NEW t \in Tx, Fail(t)
  PROVE  Fails(t)
<1>1. RowsOK /\ tx \in [Tx -> TxState]
  BY DEF Types
<1>2. Undone(t)
  BY <1>1, Effects DEF Fail
<1> QED BY <1>1, <1>2 DEF Fail, Fails, Ends, Only, Tables

\* A statement that only says what is next.
LEMMA GotoDoes ==
  ASSUME Types, NEW t \in Tx, NEW s, Goto(t, s)
  PROVE  Carries(t) /\ tx'[t].pc = s
<1>1. tx[t] \in TxState
  BY AtFacts
<1> QED BY <1>1 DEF Types, Goto, Become, Tables, Carries, Follows, Goes, Only, Plans, TxState

\* Orders.
LEMMA InsertDraftDoes ==
  ASSUME Types, NEW t \in Tx, InsertDraft(t)
  PROVE  /\ tx[t].pc = "draft" /\ tx[t].req.op = "order" /\ tx'[t].pc \in {"draft", "commit"}
         /\ Follows(t) /\ Plans(t) /\ tx'[t].mine = tx[t].mine
         /\ \E i \in Purchase : \E s \in Supplier : \E l \in Lines :
               Fresh(i) /\ Wrote(t, i, Draft(t, s, l))
<1>1. tx[t] \in TxState /\ TxOK(tx[t], served) /\ RowsOK /\ tx[t].pc = "draft"
  BY AtFacts DEF InsertDraft, At
<1>2. /\ tx[t].req \in Request /\ tx[t].req.op = "order" /\ tx[t].left \in 0 .. Len(tx[t].req.drafts) - 1
  BY <1>1 DEF TxOK, Shape
<1> DEFINE n == tx[t].left + 1
           d == tx[t].req.drafts[n]
<1>3. tx[t].req.drafts \in Seq([sup : Supplier, lines : Lines])
  BY <1>2, RequestFields
<1>4. d.sup \in Supplier /\ d.lines \in Lines
  <2> DEFINE D == [sup : Supplier, lines : Lines]
  <2>1. PICK q : q = tx[t].req.drafts
    OBVIOUS
  <2>2. q \in Seq(D) /\ n \in 1 .. Len(q)
    BY <1>2, <1>3, <2>1
  <2> HIDE DEF D, n
  <2>3. q[n] \in D
    BY <2>2, ElementOfSeq
  <2> QED BY <2>1, <2>3 DEF D
<1>5. PICK i \in Purchase : Fresh(i) /\ DB!Write(t, i, Draft(t, d.sup, d.lines))
  BY DEF InsertDraft, R
<1>6. Wrote(t, i, Draft(t, d.sup, d.lines))
  BY <1>1, <1>5, Effects DEF Ledger
<1>7. Become(t, [tx[t] EXCEPT !.left = n, !.pc = IF n < Len(tx[t].req.drafts) THEN "draft" ELSE "commit"])
  BY DEF InsertDraft, R
<1> HIDE DEF n
<1>8. tx'[t].pc \in {"draft", "commit"} /\ Follows(t) /\ Plans(t) /\ tx'[t].mine = tx[t].mine
  BY <1>1, <1>7 DEF Types, Become, Tables, Follows, Goes, Only, Plans, TxState
<1> QED BY <1>1, <1>2, <1>4, <1>5, <1>6, <1>8

\* An order is found, or it is none any more.
LEMMA FindOrderDoes ==
  ASSUME Types, NEW t \in Tx, FindOrder(t)
  PROVE  /\ tx[t].pc = "find" /\ tx[t].req.op \in {"edit", "receive"} /\ tx[t].inv = tx[t].req.inv
         /\ tx[t].inv \in Purchase
         /\ \/ Fails(t)
            \/ /\ Same /\ tx'[t].pc = tx[t].req.op /\ See(t, tx[t].inv).status = "draft"
               /\ Goes(t) /\ Plans(t) /\ tx'[t].inv = tx[t].inv /\ tx'[t].mine = tx[t].mine
               /\ tx'[t].want = See(t, tx[t].inv).lines
<1>1. tx[t] \in TxState /\ TxOK(tx[t], served) /\ RowsOK /\ tx[t].pc = "find"
  BY AtFacts DEF FindOrder, At
<1>2. tx[t].req \in Request /\ tx[t].req.op \in {"edit", "receive"} /\ tx[t].inv = tx[t].req.inv
  BY <1>1 DEF TxOK, Shape
<1>3. tx[t].inv \in Purchase
  BY <1>2, RequestFields
<1> DEFINE b == See(t, tx[t].inv)
<1>4. CASE b.status # "draft"
  BY <1>1, <1>2, <1>3, <1>4, FailDoes DEF FindOrder
<1>5. CASE b.status = "draft"
  <2>1. Same
    BY <1>1, <1>5, Effects DEF FindOrder
  <2>2. Become(t, [tx[t] EXCEPT !.want = b.lines, !.pc = tx[t].req.op])
    BY <1>5 DEF FindOrder, R
  <2> HIDE DEF b
  <2>3. tx'[t].pc = tx[t].req.op /\ Goes(t) /\ Plans(t) /\ tx'[t].inv = tx[t].inv
        /\ tx'[t].mine = tx[t].mine /\ tx'[t].want = b.lines
    BY <1>1, <2>2 DEF Types, Become, Tables, Goes, Only, Plans, TxState
  <2> QED BY <1>1, <1>2, <1>3, <1>5, <2>1, <2>3 DEF b
<1> QED BY <1>4, <1>5

\* A draft is rewritten.
LEMMA RewriteDraftDoes ==
  ASSUME Types, NEW t \in Tx, RewriteDraft(t)
  PROVE  /\ tx[t].pc = "edit" /\ tx[t].req.op = "edit" /\ tx[t].inv = tx[t].req.inv /\ tx[t].inv \in Purchase
         /\ \/ Fails(t)
            \/ /\ Carries(t) /\ tx'[t].pc = "commit"
               /\ \E v \in Bill : /\ Wrote(t, tx[t].inv, v) /\ v.status = "draft"
                                  /\ v.sup = cur[tx[t].inv].sup /\ v.credited = cur[tx[t].inv].credited
<1>1. tx[t] \in TxState /\ TxOK(tx[t], served) /\ RowsOK /\ tx[t].pc = "edit"
  BY AtFacts DEF RewriteDraft, At
<1>2. tx[t].req \in Request /\ tx[t].req.op = "edit" /\ tx[t].inv = tx[t].req.inv
  BY <1>1 DEF TxOK, Shape
<1> DEFINE i == tx[t].inv
<1>3. i \in Purchase /\ tx[t].req.lines \in Lines
  BY <1>2, RequestFields
<1>4. CASE cur[i].status = "gone"
  BY <1>1, <1>2, <1>3, <1>4, FailDoes DEF RewriteDraft
<1>5. CASE cur[i].status # "gone"
  <2> DEFINE v == [cur[i] EXCEPT !.status = "draft", !.lines = tx[t].req.lines,
                                 !.total = Worth(tx[t].req.lines), !.paid = 0]
  <2>1. DB!Write(t, i, v) /\ Goto(t, "commit")
    BY <1>5 DEF RewriteDraft, R
  <2>2. cur[i] \in Bill /\ Worth(tx[t].req.lines) \in Nat
    BY <1>1, <1>3, WorthNat DEF RowsOK
  <2>3. v \in Bill
    BY <1>3, <2>2, RewrittenType DEF Status
  <2>4. v.status = "draft" /\ v.sup = cur[i].sup /\ v.credited = cur[i].credited
    BY <2>2 DEF Bill
  <2>5. Wrote(t, i, v)
    BY <1>1, <1>3, <2>1, Effects DEF Ledger
  <2> QED BY <1>1, <1>2, <1>3, <2>1, <2>3, <2>4, <2>5, GotoDoes
<1> QED BY <1>4, <1>5

\* A draft is deleted, if it still is one.
LEMMA DeleteDraftDoes ==
  ASSUME Types, NEW t \in Tx, DeleteDraft(t)
  PROVE  /\ tx[t].pc = "drop" /\ tx[t].req.op = "drop" /\ tx[t].inv = tx[t].req.inv /\ tx[t].inv \in Purchase
         /\ Ends(t)
         /\ \E v \in Bill : /\ Changes(tx[t].inv, v)
                            /\ v = com[tx[t].inv] \/ (com[tx[t].inv].status = "draft" /\ v.status = "gone")
                            /\ v.sup = com[tx[t].inv].sup /\ v.credited = com[tx[t].inv].credited
<1>1. tx[t] \in TxState /\ TxOK(tx[t], served) /\ RowsOK /\ tx[t].pc = "drop"
  BY AtFacts DEF DeleteDraft, At
<1>2. tx[t].req \in Request /\ tx[t].req.op = "drop" /\ tx[t].inv = tx[t].req.inv
  BY <1>1 DEF TxOK, Shape
<1> DEFINE i == tx[t].inv
           b == com[i]
           v == IF b.status = "draft" THEN [b EXCEPT !.status = "gone"] ELSE b
<1>3. i \in Purchase
  BY <1>2, RequestFields
<1>4. DB!Update(i, v) /\ Become(t, Idle)
  BY DEF DeleteDraft
<1>5. b \in Bill
  BY <1>1, <1>3 DEF RowsOK
<1>6. v \in Bill /\ (v = b \/ (b.status = "draft" /\ v.status = "gone")) /\ v.sup = b.sup /\ v.credited = b.credited
  BY <1>5, BillTypes DEF Bill
<1>7. Changes(i, v)
  BY <1>1, <1>3, <1>4, Effects DEF Ledger
<1>8. Ends(t)
  BY <1>4 DEF Types, Become, Tables, Ends, Only
<1> QED BY <1>1, <1>2, <1>3, <1>6, <1>7, <1>8

\* Deliveries: the purchase is written ..
LEMMA InsertPurchaseDoes ==
  ASSUME Types, NEW t \in Tx, InsertPurchase(t)
  PROVE  /\ tx[t].pc = "insert" /\ tx[t].req.op = "deliver" /\ tx[t].req.sup \in Supplier
         /\ tx[t].req.lines \in Lines
         /\ Goes(t) /\ Plans(t) /\ tx'[t].want = tx[t].want /\ tx'[t].pc = "bill"
         /\ \E i \in Purchase : \E v \in Bill :
              /\ tx'[t].inv = i /\ Fresh(i) /\ Wrote(t, i, v) /\ tx'[t].mine = {NewReceipt(t, i, tx[t].req.sup)}
              /\ v.status = ReceivedStatus(0, v.total) /\ v.sup = tx[t].req.sup
              /\ v.total = Worth(tx[t].req.lines) /\ v.paid = 0 /\ v.credited = 0
<1>1. tx[t] \in TxState /\ TxOK(tx[t], served) /\ RowsOK /\ tx[t].pc = "insert"
  BY AtFacts DEF InsertPurchase, At
<1>2. tx[t].req \in Request /\ tx[t].req.op = "deliver"
  BY <1>1 DEF TxOK, Shape
<1> DEFINE s == tx[t].req.sup
           l == tx[t].req.lines
           b == Draft(t, s, l)
           v == [b EXCEPT !.status = ReceivedStatus(0, Worth(l))]
<1>3. s \in Supplier /\ l \in Lines
  BY <1>2, RequestFields
<1>4. PICK i \in Purchase :
         /\ Fresh(i) /\ DB!Write(t, i, v)
         /\ Become(t, [tx[t] EXCEPT !.pc = "bill", !.inv = i, !.mine = {NewReceipt(t, i, s)}])
  BY DEF InsertPurchase, R
<1>5. Wrote(t, i, v)
  BY <1>1, <1>4, Effects DEF Ledger
<1>6. b \in Bill /\ v \in Bill
  BY <1>3, DraftType, WorthNat
<1>7. b.sup = s /\ b.total = Worth(l) /\ b.paid = 0 /\ b.credited = 0
  BY DEF Draft, NoBill
<1>8. v.status = ReceivedStatus(0, Worth(l)) /\ v.sup = s /\ v.total = Worth(l) /\ v.paid = 0 /\ v.credited = 0
  BY <1>6, <1>7 DEF Bill
<1> HIDE DEF b, v
<1>9. /\ Goes(t) /\ Plans(t) /\ tx'[t].want = tx[t].want /\ tx'[t].pc = "bill" /\ tx'[t].inv = i
      /\ tx'[t].mine = {NewReceipt(t, i, s)}
  BY <1>1, <1>4 DEF Types, Become, Tables, Goes, Only, Plans, TxState
<1> QED BY <1>1, <1>2, <1>3, <1>4, <1>5, <1>6, <1>8, <1>9

\* .. or rewritten, if it is still there.
LEMMA UpdateHeaderDoes ==
  ASSUME Types, NEW t \in Tx, UpdateHeader(t)
  PROVE  /\ tx[t].pc = "receive" /\ tx[t].req.op = "receive" /\ tx[t].inv = tx[t].req.inv
         /\ tx[t].inv \in Purchase /\ tx[t].req.lines \in Lines
         /\ \/ Fails(t)
            \/ /\ Follows(t) /\ Plans(t) /\ tx'[t].pc = "bill"
               /\ tx'[t].mine = {NewReceipt(t, tx[t].inv, cur[tx[t].inv].sup)}
               /\ \E v \in Bill : /\ Wrote(t, tx[t].inv, v) /\ v.status = ReceivedStatus(0, v.total)
                                  /\ v.sup = cur[tx[t].inv].sup /\ v.total = Worth(tx[t].req.lines)
                                  /\ v.paid = 0 /\ v.credited = cur[tx[t].inv].credited
<1>1. tx[t] \in TxState /\ TxOK(tx[t], served) /\ RowsOK /\ tx[t].pc = "receive"
  BY AtFacts DEF UpdateHeader, At
<1>2. tx[t].req \in Request /\ tx[t].req.op = "receive" /\ tx[t].inv = tx[t].req.inv
  BY <1>1 DEF TxOK, Shape
<1> DEFINE i == tx[t].inv
           l == tx[t].req.lines
<1>3. i \in Purchase /\ l \in Lines
  BY <1>2, RequestFields
<1>4. CASE cur[i].status = "gone"
  BY <1>1, <1>2, <1>3, <1>4, FailDoes DEF UpdateHeader
<1>5. CASE cur[i].status # "gone"
  <2> DEFINE b == cur[i]
  <2>1. PICK w \in Nat : w = Worth(l)
    BY <1>3, WorthNat
  <2>2. PICK st \in Status : st = ReceivedStatus(0, w)
    BY DEF ReceivedStatus, Status, Received
  <2> DEFINE v == [b EXCEPT !.status = st, !.lines = l, !.total = w, !.paid = 0]
  <2>3. DB!Write(t, i, v) /\ Become(t, [tx[t] EXCEPT !.pc = "bill", !.mine = {NewReceipt(t, i, b.sup)}])
    BY <1>5, <2>1, <2>2 DEF UpdateHeader, R
  <2>4. b \in Bill
    BY <1>1, <1>3 DEF RowsOK
  <2>5. v \in Bill
    BY <1>3, <2>4, RewrittenType
  <2>6. v.status = st /\ v.sup = b.sup /\ v.total = w /\ v.paid = 0 /\ v.credited = b.credited
    BY <2>4 DEF Bill
  <2>7. Wrote(t, i, v)
    BY <1>1, <1>3, <2>3, Effects DEF Ledger
  <2> HIDE DEF v
  <2>8. Follows(t) /\ Plans(t) /\ tx'[t].pc = "bill" /\ tx'[t].mine = {NewReceipt(t, i, b.sup)}
    BY <1>1, <2>3 DEF Types, Become, Tables, Follows, Goes, Only, Plans, TxState
  <2> QED BY <1>1, <1>2, <1>3, <2>1, <2>2, <2>5, <2>6, <2>7, <2>8
<1> QED BY <1>4, <1>5

\* What a delivery is worth is owed.
LEMMA AddPayableDoes ==
  ASSUME Types, NEW t \in Tx, AddPayable(t)
  PROVE  /\ tx[t].pc = "bill" /\ tx'[t].pc = "credit" /\ Carries(t)
         /\ LET w == Worth(tx[t].req.lines)
            IN /\ w \in Nat
               /\ IF w > 0 THEN Wrote(t, Sup(t), AddBalance(cur[Sup(t)], w)) ELSE Same
<1>1. tx[t] \in TxState /\ RowsOK /\ tx[t].pc = "bill"
  BY AtFacts DEF AddPayable, At
<1>2. Sup(t) \in Ledger /\ Worth(tx[t].req.lines) \in Nat
  BY <1>1, DeliveryFacts, WorthNat DEF Delivery, Ledger
<1>3. Goto(t, "credit")
  BY DEF AddPayable
<1>4. LET w == Worth(tx[t].req.lines)
      IN IF w > 0 THEN DB!Write(t, Sup(t), AddBalance(cur[Sup(t)], w)) ELSE Read
  BY DEF AddPayable, R
<1>5. LET w == Worth(tx[t].req.lines)
      IN IF w > 0 THEN Wrote(t, Sup(t), AddBalance(cur[Sup(t)], w)) ELSE Same
  BY <1>1, <1>2, <1>4, Effects
<1> QED BY <1>1, <1>2, <1>3, <1>5, GotoDoes

\* How much of the supplier's credit is drawn on.
LEMMA ReadCreditDoes ==
  ASSUME Types, NEW t \in Tx, ReadCredit(t)
  PROVE  LET b == See(t, tx[t].inv)
             n == Smaller(Balance(b), Credit(See(t, Sup(t)).out - b.total))
         IN /\ tx[t].pc = "credit" /\ Follows(t) /\ Plans(t) /\ Same /\ tx'[t].mine = tx[t].mine
            /\ n \in Int /\ tx'[t].left = n /\ tx'[t].pc = IF n > 0 THEN "advances" ELSE "remainder"
<1>1. tx[t] \in TxState /\ RowsOK /\ tx[t].pc = "credit"
  BY AtFacts DEF ReadCredit, At
<1> DEFINE b == See(t, tx[t].inv)
           n == Smaller(Balance(b), Credit(See(t, Sup(t)).out - b.total))
<1>2. tx[t].inv \in Purchase /\ Sup(t) \in Supplier
  BY <1>1, DeliveryFacts DEF Delivery
<1>3. b \in Bill /\ See(t, Sup(t)) \in Account
  BY <1>1, <1>2, Seen
<1>4. n \in Int
  <2>1. PICK a \in Int : a = Balance(b)
    BY <1>3, BillTypes
  <2>2. PICK c \in Int : c = See(t, Sup(t)).out - b.total
    BY <1>3 DEF Bill, Account
  <2>3. Smaller(a, Credit(c)) \in Int
    BY DEF Smaller, Larger, Credit
  <2> QED BY <2>1, <2>2, <2>3
<1>5. Become(t, [tx[t] EXCEPT !.left = n, !.pc = IF n > 0 THEN "advances" ELSE "remainder"])
  BY DEF ReadCredit
<1>6. Same
  BY <1>1, Effects DEF ReadCredit
<1> HIDE DEF n
<1>7. Follows(t) /\ Plans(t) /\ tx'[t].mine = tx[t].mine /\ tx'[t].left = n
      /\ tx'[t].pc = IF n > 0 THEN "advances" ELSE "remainder"
  BY <1>1, <1>5 DEF Types, Become, Tables, Follows, Goes, Only, Plans, TxState
<1> QED BY <1>1, <1>4, <1>6, <1>7 DEF n

\* The open purchases of a supplier are bills of its, each with something to pay.
LEMMA OpenOfFacts ==
  ASSUME Types, NEW t \in Tx, NEW s
  PROVE  \A p \in OpenOf(t, s) : /\ p.id \in Purchase /\ See(t, p.id).sup = s /\ See(t, p.id).status \in Received
                                 /\ p.n = Balance(See(t, p.id)) /\ p.n > 0
BY DEF OpenOf

\* Advances, and the value of returned goods, are drawn on.
DrawsOn(t, of, parts) ==
    LET i == tx[t].inv
        g == Given(parts)
    IN /\ parts = Cascade(Unapplied(t, of), tx[t].left)
       /\ IF parts # {} THEN \E v \in Bill : /\ Wrote(t, i, v) /\ v.sup = cur[i].sup /\ v.total = cur[i].total
                                             /\ IF of = "payment" THEN v = PaidMore(cur[i], g)
                                                ELSE /\ v.status = cur[i].status /\ v.paid = cur[i].paid
                                                     /\ v.credited = cur[i].credited + g
          ELSE Same
       /\ tx'[t].mine = tx[t].mine \cup Draws(t, of, parts)

\* A bill with one field or another changed.
LEMMA BillFields ==
  ASSUME NEW b \in Bill, NEW n \in Int
  PROVE  /\ PaidMore(b, n) \in Bill /\ PaidMore(b, n).sup = b.sup /\ PaidMore(b, n).total = b.total
         /\ PaidMore(b, n).paid = b.paid + n /\ PaidMore(b, n).credited = b.credited
         /\ PaidMore(b, n).status = (IF b.paid + n >= b.total - b.credited THEN "paid" ELSE "partial")
         /\ LET c == [b EXCEPT !.credited = @ + n]
            IN /\ c \in Bill /\ c.sup = b.sup /\ c.total = b.total /\ c.paid = b.paid /\ c.status = b.status
               /\ c.credited = b.credited + n
<1>1. PaidMore(b, n) \in Bill /\ [b EXCEPT !.credited = @ + n] \in Bill
  BY BillTypes
<1>2. b \in [status : Status, sup : Supplier, lines : Lines, total : Nat, paid : Int, credited : Int, at : Nat]
  BY DEF Bill
<1>3. PICK st : st = IF b.paid + n >= b.total - b.credited THEN "paid" ELSE "partial"
  OBVIOUS
<1>4. PICK k : k = b.paid + n
  OBVIOUS
<1>5. PaidMore(b, n) = [b EXCEPT !.paid = k, !.status = st]
  BY <1>3, <1>4 DEF PaidMore
<1>6. LET c == [b EXCEPT !.paid = k, !.status = st]
      IN c.sup = b.sup /\ c.total = b.total /\ c.paid = k /\ c.credited = b.credited /\ c.status = st
  BY <1>2
<1>7. LET c == [b EXCEPT !.credited = @ + n]
      IN /\ c.sup = b.sup /\ c.total = b.total /\ c.paid = b.paid /\ c.status = b.status
         /\ c.credited = b.credited + n
  BY <1>2
<1> QED BY <1>1, <1>3, <1>4, <1>5, <1>6, <1>7

\* What drawing on a pool does.
LEMMA DrawDoes ==
  ASSUME Types, NEW t \in Tx, DrawAdvances(t) \/ DrawReturns(t)
  PROVE  LET of == IF tx[t].pc = "advances" THEN "payment" ELSE "return"
         IN \E parts : /\ tx[t].pc \in {"advances", "credits"} /\ Follows(t) /\ Plans(t)
                       /\ tx'[t].pc = IF of = "payment" THEN "credits" ELSE "remainder"
                       /\ tx'[t].left = IF of = "payment" THEN tx[t].left - Given(parts) ELSE 0
                       /\ Given(parts) \in Nat /\ DrawsOn(t, of, parts)
<1>1. tx[t] \in TxState /\ RowsOK /\ tx[t].pc \in {"advances", "credits"}
  BY AtFacts DEF DrawAdvances, DrawReturns, At
<1> DEFINE i == tx[t].inv
<1>2. i \in Purchase /\ tx[t].left \in Int
  BY <1>1, DeliveryFacts DEF Delivery, TxState
<1>3. PICK b \in Bill : b = cur[i]
  BY <1>1, <1>2 DEF RowsOK
<1>4. CASE tx[t].pc = "advances"
  <2> DEFINE parts == Cascade(Unapplied(t, "payment"), tx[t].left)
  <2>1. PICK g \in Nat : g = Given(parts)
    BY <1>2, UnappliedTypes, CascadeTypes
  <2>2. DrawAdvances(t)
    BY <1>4 DEF DrawReturns, At
  <2>3. Become(t, [tx[t] EXCEPT !.left = @ - g, !.pc = "credits", !.mine = @ \cup Draws(t, "payment", parts)])
    BY <2>1, <2>2 DEF DrawAdvances
  <2>4. IF parts # {} THEN DB!Write(t, i, PaidMore(b, g)) ELSE Read
    BY <1>3, <2>1, <2>2 DEF DrawAdvances
  <2>5. IF parts # {} THEN Wrote(t, i, PaidMore(b, g)) ELSE Same
    BY <1>1, <1>2, <2>4, Effects DEF Ledger
  <2>6. PaidMore(b, g) \in Bill /\ PaidMore(b, g).sup = b.sup /\ PaidMore(b, g).total = b.total
    <3>1. g \in Int /\ b \in Bill
      OBVIOUS
    <3> HIDE DEF parts
    <3> QED BY ONLY <3>1, BillFields
  <2> HIDE DEF parts
  <2>7. Follows(t) /\ Plans(t) /\ tx'[t].pc = "credits" /\ tx'[t].left = tx[t].left - g
        /\ tx'[t].mine = tx[t].mine \cup Draws(t, "payment", parts)
    BY <1>1, <2>3 DEF Types, Become, Tables, Follows, Goes, Only, Plans, TxState
  <2>8. DrawsOn(t, "payment", parts)
    BY <1>3, <2>1, <2>5, <2>6, <2>7 DEF DrawsOn, parts
  <2> QED BY <1>1, <1>4, <2>1, <2>7, <2>8
<1>5. CASE tx[t].pc = "credits"
  <2> DEFINE parts == Cascade(Unapplied(t, "return"), tx[t].left)
  <2>1. PICK g \in Nat : g = Given(parts)
    BY <1>2, UnappliedTypes, CascadeTypes
  <2>2. DrawReturns(t)
    BY <1>5 DEF DrawAdvances, At
  <2>3. Become(t, [tx[t] EXCEPT !.left = 0, !.pc = "remainder", !.mine = @ \cup Draws(t, "return", parts)])
    BY <2>2 DEF DrawReturns
  <2> DEFINE c == [b EXCEPT !.credited = @ + g]
  <2>4. IF parts # {} THEN DB!Write(t, i, c) ELSE Read
    BY <1>3, <2>1, <2>2 DEF DrawReturns
  <2>5. IF parts # {} THEN Wrote(t, i, c) ELSE Same
    BY <1>1, <1>2, <2>4, Effects DEF Ledger
  <2>6. c \in Bill /\ c.sup = b.sup /\ c.total = b.total /\ c.paid = b.paid /\ c.status = b.status
        /\ c.credited = b.credited + g
    BY BillFields
  <2> HIDE DEF parts, c
  <2>7. Follows(t) /\ Plans(t) /\ tx'[t].pc = "remainder" /\ tx'[t].left = 0
        /\ tx'[t].mine = tx[t].mine \cup Draws(t, "return", parts)
    BY <1>1, <2>3 DEF Types, Become, Tables, Follows, Goes, Only, Plans, TxState
  <2>8. DrawsOn(t, "return", parts)
    BY <1>3, <2>1, <2>5, <2>6, <2>7 DEF DrawsOn, parts
  <2> QED BY <1>1, <1>5, <2>1, <2>7, <2>8
<1> QED BY <1>1, <1>4, <1>5

\* The remainder is ordered anew.
LEMMA KeepRemainderDoes ==
  ASSUME Types, NEW t \in Tx, KeepRemainder(t)
  PROVE  LET rest == RemainderLines(tx[t].want, tx[t].req.lines)
         IN /\ tx[t].pc = "remainder" /\ tx'[t].pc = "now" /\ Carries(t) /\ rest \in Lines
            /\ IF Keeps(tx[t])
                 THEN \E i \in Purchase : Fresh(i) /\ Wrote(t, i, Draft(t, Sup(t), rest))
                 ELSE Same
<1>1. tx[t] \in TxState /\ RowsOK /\ tx[t].pc = "remainder"
  BY AtFacts DEF KeepRemainder, At
<1> DEFINE rest == RemainderLines(tx[t].want, tx[t].req.lines)
<1>2. rest \in Lines
  BY <1>1, DeliveryFacts DEF Delivery, TxState, Lines, RemainderLines, Larger
<1>3. Goto(t, "now")
  BY DEF KeepRemainder
<1>4. IF Keeps(tx[t])
        THEN \E i \in Purchase : Fresh(i) /\ DB!Write(t, i, Draft(t, Sup(t), rest))
        ELSE Read
  BY DEF KeepRemainder, R, Keeps
<1>5. IF Keeps(tx[t])
        THEN \E i \in Purchase : Fresh(i) /\ Wrote(t, i, Draft(t, Sup(t), rest))
        ELSE Same
  <2>1. \A i \in Purchase : DB!Write(t, i, Draft(t, Sup(t), rest)) => Wrote(t, i, Draft(t, Sup(t), rest))
    BY <1>1, Effects DEF Ledger
  <2>2. Read => Same
    BY <1>1, Effects
  <2> HIDE DEF rest
  <2> QED BY <1>4, <2>1, <2>2
<1> QED BY <1>1, <1>2, <1>3, <1>5, GotoDoes

\* What is paid with the delivery is for its purchase.
LEMMA PayNowDoes ==
  ASSUME Types, NEW t \in Tx, PayNow(t)
  PROVE  /\ tx[t].pc = "now" /\ Same /\ Follows(t) /\ tx'[t].mine = tx[t].mine /\ tx'[t].old = tx[t].old
         /\ tx'[t].seen = tx[t].seen
         /\ \/ tx'[t].pc = "commit" /\ tx'[t].alloc = tx[t].alloc
            \/ \E n \in Nat \ {0} : /\ tx'[t].pc = "load" /\ tx'[t].rest = n
                                    /\ tx'[t].alloc = {[id |-> tx[t].inv, at |-> 0, n |-> n]}
                                    /\ n <= Balance(See(t, tx[t].inv))
<1>1. tx[t] \in TxState /\ RowsOK /\ tx[t].pc = "now"
  BY AtFacts DEF PayNow, At
<1>2. tx[t].inv \in Purchase /\ tx[t].req.pay \in Nat
  BY <1>1, DeliveryFacts DEF Delivery
<1>3. PICK a \in Int : a = Balance(See(t, tx[t].inv))
  BY <1>1, <1>2, Seen, BillTypes
<1>4. PICK n \in Nat : n = Larger(Smaller(tx[t].req.pay, a), 0)
  BY <1>2 DEF Larger, Smaller
<1>5. n > 0 => n <= a
  BY <1>2, <1>4 DEF Larger, Smaller
<1>6. Become(t, IF n > 0 THEN [tx[t] EXCEPT !.alloc = {[id |-> tx[t].inv, at |-> 0, n |-> n]},
                                            !.rest = n, !.pc = "load"]
                ELSE [tx[t] EXCEPT !.pc = "commit"])
  BY <1>3, <1>4 DEF PayNow, R
<1>7. Same
  BY <1>1, Effects DEF PayNow
<1>8. CASE n > 0
  <2> DEFINE A == {[id |-> tx[t].inv, at |-> 0, n |-> n]}
  <2>1. Become(t, [tx[t] EXCEPT !.alloc = A, !.rest = n, !.pc = "load"])
    BY <1>6, <1>8
  <2> HIDE DEF A
  <2>2. Follows(t) /\ tx'[t].mine = tx[t].mine /\ tx'[t].old = tx[t].old /\ tx'[t].seen = tx[t].seen
        /\ tx'[t].pc = "load" /\ tx'[t].rest = n /\ tx'[t].alloc = A
    BY <1>1, <2>1 DEF Types, Become, Tables, Follows, Goes, Only, TxState
  <2> QED BY <1>1, <1>3, <1>5, <1>7, <1>8, <2>2 DEF A
<1>9. CASE n = 0
  <2>1. Goto(t, "commit")
    BY <1>6, <1>9 DEF Goto
  <2> QED BY <1>1, <1>7, <2>1, GotoDoes DEF Carries, Plans
<1> QED BY <1>8, <1>9

\* One part, and the others.
LEMMA GivenTake ==
  ASSUME NEW D, DebtSet(D), NEW p \in D
  PROVE  Given(D) = p.n + Given(D \ {p}) /\ Given(D \ {p}) \in Nat
<1> DEFINE f == [x \in D |-> x.n]
           g == [x \in D \ {p} |-> x.n]
<1>1. IsFiniteSet(D) /\ \A x \in D : f[x] \in Int
  BY DEF DebtSet
<1>2. IsFiniteSet(D \ {p}) /\ \A x \in D \ {p} : f[x] = g[x]
  BY <1>1, FS_Subset
<1>3. f[p] = p.n
  OBVIOUS
<1>4. DebtSet(D \ {p})
  BY DebtSubset
<1> HIDE DEF f, g
<1>5. SumFunctionOnSet(f, D) = f[p] + SumFunctionOnSet(f, D \ {p})
  BY <1>1, SumTake
<1>6. SumFunctionOnSet(f, D \ {p}) = SumFunctionOnSet(g, D \ {p})
  BY <1>2, SumSame
<1>7. Given(D) = SumFunctionOnSet(f, D) /\ Given(D \ {p}) = SumFunctionOnSet(g, D \ {p})
  BY DEF Given, f, g
<1> QED BY <1>3, <1>4, <1>5, <1>6, <1>7, GivenNat

\* A single one.
LEMMA GivenOne ==
  ASSUME NEW i \in Int, NEW b \in Int, NEW n \in Nat \ {0}
  PROVE  Given({[id |-> i, at |-> b, n |-> n]}) = n
<1> DEFINE p == [id |-> i, at |-> b, n |-> n]
<1>1. DebtSet({p}) /\ p.n = n
  BY SmallDebts
<1> HIDE DEF p
<1>2. {p} \ {p} = {}
  OBVIOUS
<1>3. Given({}) = 0
  BY SumEmpty DEF Given
<1>4. Given({p}) = p.n + Given({p} \ {p})
  BY <1>1, GivenTake
<1> QED BY <1>1, <1>2, <1>3, <1>4 DEF p

\* Payments: what there is to pay is read ..
LEMMA OpenInvoicesDoes ==
  ASSUME Types, NEW t \in Tx, OpenInvoices(t)
  PROVE  /\ tx[t].pc = "plan" /\ tx[t].req.op = "pay" /\ tx'[t].pc = "share" /\ Same /\ Follows(t)
         /\ tx'[t].mine = tx[t].mine /\ tx'[t].alloc = OpenOf(t, tx[t].req.sup)
<1>1. tx[t] \in TxState /\ TxOK(tx[t], served) /\ RowsOK /\ tx[t].pc = "plan"
  BY AtFacts DEF OpenInvoices, At
<1>2. tx[t].req.op = "pay"
  BY <1>1 DEF TxOK, Shape
<1>3. PICK A : A = OpenOf(t, tx[t].req.sup)
  OBVIOUS
<1>4. Become(t, [tx[t] EXCEPT !.alloc = A, !.pc = "share"])
  BY <1>3 DEF OpenInvoices, R
<1>5. Same
  BY <1>1, Effects DEF OpenInvoices
<1>6. tx'[t].pc = "share" /\ Follows(t) /\ tx'[t].mine = tx[t].mine /\ tx'[t].alloc = A
  BY <1>1, <1>4 DEF Types, Become, Tables, Follows, Goes, Only, TxState
<1> QED BY <1>1, <1>2, <1>3, <1>5, <1>6

\* .. and shared out.
LEMMA SharedOut ==
  ASSUME NEW D \in SUBSET Part, DebtSet(D), NEW o \in Int, NEW a \in Nat \ {0}, NEW m
  PROVE  /\ LET d == Distribute(D, o, a, m)
            IN /\ \A p \in d.alloc : \E q \in D : q.id = p.id
               /\ d.old \in 0 .. a /\ Given(d.alloc) <= a - d.old
               /\ d.old > 0 => o > 0
         /\ LET d == Picked(D, a, m)
            IN /\ \A p \in d.alloc : \E q \in D : q.id = p.id
               /\ d.old = 0 /\ Given(d.alloc) <= a
<1>1. LET d == Distribute(D, o, a, m)
      IN /\ \A p \in d.alloc : \E q \in D : q.id = p.id
         /\ d.old \in 0 .. a /\ Given(d.alloc) <= a - d.old
         /\ d.old > 0 => o > 0
  <2>1. PICK b \in Nat : b = Smaller(Larger(o, 0), a) /\ b <= a /\ (b > 0 => o > 0)
    BY DEF Smaller, Larger
  <2>2. PICK n \in Nat : n = IF m = "old" THEN a - b ELSE a
    BY <2>1
  <2>3. PICK P : P = Cascade(D, n)
    OBVIOUS
  <2>4. DebtSet(P) /\ Given(P) = Smaller(n, Given(D)) /\ Given(D) \in Nat /\ Given(P) \in Nat
        /\ \A p \in P : \E q \in D : q.id = p.id
    BY <2>3, CascadeFacts, GivenNat
  <2>5. PICK g \in Nat : g = Given(P) /\ g <= n
    BY <2>4 DEF Smaller
  <2>6. PICK k : k = IF m = "old" THEN b ELSE Smaller(Larger(o, 0), a - g)
    OBVIOUS
  <2>7. Distribute(D, o, a, m) = [alloc |-> P, old |-> k]
    BY <2>1, <2>2, <2>3, <2>5, <2>6 DEF Distribute
  <2>8. k \in 0 .. a /\ g <= a - k /\ (k > 0 => o > 0)
    <3>1. CASE m = "old"
      BY <2>1, <2>2, <2>5, <2>6, <3>1
    <3>2. CASE m # "old"
      <4>1. g <= a /\ k = Smaller(Larger(o, 0), a - g)
        BY <2>2, <2>5, <2>6, <3>2
      <4> QED BY <4>1 DEF Smaller, Larger
    <3> QED BY <3>1, <3>2
  <2> QED BY <2>4, <2>5, <2>7, <2>8
<1>2. LET d == Picked(D, a, m)
      IN /\ \A p \in d.alloc : \E q \in D : q.id = p.id
         /\ d.old = 0 /\ Given(d.alloc) <= a
  <2> DEFINE S == {y \in D : m = "picked" /\ \A z \in D \ {y} : First(y, z)}
             C == {[x EXCEPT !.n = a] : x \in S}
  <2>1. Picked(D, a, m) = [alloc |-> C, old |-> 0]
    BY DEF Picked
  <2>2. \A p \in C : (\E q \in D : q.id = p.id) /\ p.n = a
    BY DEF Part
  <2>3. \A y, z \in S : y = z
    BY FirstOrders
  <2>4. Given(C) <= a
    <3>1. CASE S = {}
      <4>1. C = {}
        BY <3>1
      <4>2. Given({}) = 0
        BY SumEmpty DEF Given
      <4> HIDE DEF C
      <4> QED BY <4>1, <4>2
    <3>2. CASE S # {}
      <4>1. PICK y \in S : S = {y}
        BY <2>3, <3>2
      <4>2. C = {[y EXCEPT !.n = a]}
        BY <4>1
      <4>3. PICK i \in Int, b \in Int : i = y.id /\ b = y.at
        BY DEF Part, Purchase
      <4>4. [y EXCEPT !.n = a] = [id |-> i, at |-> b, n |-> a]
        BY <4>3 DEF Part
      <4> HIDE DEF C
      <4> QED BY <4>2, <4>4, GivenOne
    <3> QED BY <3>1, <3>2
  <2> HIDE DEF C
  <2> QED BY <2>1, <2>2, <2>4
<1> QED BY <1>1, <1>2

\* What is paid with one payment.
LEMMA ShareOutDoes ==
  ASSUME Types, NEW t \in Tx, ShareOut(t)
  PROVE  /\ tx[t].pc = "share" /\ tx[t].req.op = "pay" /\ tx'[t].pc \in {"source", "load"}
         /\ Same /\ Follows(t) /\ tx'[t].mine = tx[t].mine
         /\ \A p \in tx'[t].alloc : \E q \in tx[t].alloc : q.id = p.id
         /\ tx'[t].old \in Nat /\ tx'[t].rest \in Nat /\ Given(tx'[t].alloc) <= tx'[t].rest
         /\ tx'[t].old > 0 => /\ tx[t].req.mode \in {"pay", "old"} /\ See(t, tx[t].req.sup).opening > 0
<1>1. tx[t] \in TxState /\ TxOK(tx[t], served) /\ RowsOK /\ tx[t].pc = "share" /\ tx[t].alloc \in SUBSET Part
  BY AtFacts DEF ShareOut, At
<1>2. tx[t].req.op = "pay" /\ tx[t].req \in Request /\ DebtSet(tx[t].alloc)
  BY <1>1 DEF TxOK, Shape
<1>3. tx[t].req.sup \in Supplier /\ tx[t].req.amount \in Nat \ {0} /\ tx[t].req.mode \in {"pay", "old", "advance", "picked"}
  BY <1>2, RequestFields
<1>4. PICK o \in Int : o = See(t, tx[t].req.sup).opening
  BY <1>1, <1>3, Seen DEF Account
<1>5. PICK a \in Nat \ {0} : a = tx[t].req.amount
  BY <1>3
<1>6. PICK m : m = tx[t].req.mode
  OBVIOUS
<1>7. PICK d : d = IF m \in {"picked", "advance"} THEN Picked(tx[t].alloc, a, m)
                   ELSE Distribute(tx[t].alloc, o, a, m)
  OBVIOUS
<1>8. PICK A : A = d.alloc
  OBVIOUS
<1>9. PICK k : k = d.old
  OBVIOUS
<1>10. /\ k \in 0 .. a /\ Given(A) <= a - k /\ \A p \in A : \E q \in tx[t].alloc : q.id = p.id
       /\ k > 0 => m \in {"pay", "old"} /\ o > 0
  <2>1. CASE m \in {"picked", "advance"}
    BY <1>1, <1>2, <1>7, <1>8, <1>9, <2>1, SharedOut
  <2>2. CASE m \notin {"picked", "advance"}
    BY <1>1, <1>2, <1>3, <1>6, <1>7, <1>8, <1>9, <2>2, SharedOut
  <2> QED BY <2>1, <2>2
<1>11. PICK n \in Nat : n = a - k
  BY <1>10
<1>12. PICK s \in {"source", "load"} : s = IF R(t).by.desk = "counter" /\ R(t).by.from # External
                                           THEN "source" ELSE "load"
  OBVIOUS
<1>13. Become(t, [tx[t] EXCEPT !.alloc = A, !.old = k, !.rest = n, !.pc = s])
  BY <1>4, <1>5, <1>6, <1>7, <1>8, <1>9, <1>11, <1>12 DEF ShareOut, R
<1>14. Same
  BY <1>1, Effects DEF ShareOut
<1>15. /\ Follows(t) /\ tx'[t].mine = tx[t].mine /\ tx'[t].pc = s /\ tx'[t].alloc = A /\ tx'[t].old = k
       /\ tx'[t].rest = n
  BY <1>1, <1>13 DEF Types, Become, Tables, Follows, Goes, Only, TxState
<1> QED BY <1>1, <1>2, <1>4, <1>6, <1>10, <1>11, <1>12, <1>14, <1>15

\* What is next in a payment.
NextPart(x, s) ==
    \/ s = "apply"  /\ x.alloc # {}
    \/ s = "old"    /\ x.alloc = {} /\ x.old > 0
    \/ s = "settle" /\ x.alloc = {} /\ x.old = 0 /\ x.rest > 0
    \/ s \in {"move", "commit"} /\ x.alloc = {} /\ x.old = 0 /\ x.rest = 0

\* It goes on as it is.
LEMMA OnwardDoes ==
  ASSUME Types, NEW t \in Tx, NEW x \in TxState, Become(t, Onward(x)),
         x.req = tx[t].req, x.at = tx[t].at, x.inv = tx[t].inv, x.want = tx[t].want
  PROVE  /\ Follows(t) /\ NextPart(x, tx'[t].pc)
         /\ tx'[t].alloc = x.alloc /\ tx'[t].old = x.old /\ tx'[t].rest = x.rest
         /\ tx'[t].left = x.left /\ tx'[t].seen = x.seen /\ tx'[t].mine = x.mine
<1>1. PICK c \in {"move", "commit"} : c = Closing(x)
  BY DEF Closing
<1>2. PICK s : s = IF x.alloc # {} THEN "apply" ELSE IF x.old > 0 THEN "old"
                   ELSE IF x.rest > 0 THEN "settle" ELSE c
  OBVIOUS
<1>3. NextPart(x, s)
  <2>1. x.old \in Nat /\ x.rest \in Nat
    BY DEF TxState
  <2> QED BY <1>1, <1>2, <2>1 DEF NextPart
<1>4. Become(t, [x EXCEPT !.pc = s])
  BY <1>1, <1>2 DEF Onward
<1>5. /\ Follows(t) /\ tx'[t].pc = s /\ tx'[t].alloc = x.alloc /\ tx'[t].old = x.old /\ tx'[t].rest = x.rest
      /\ tx'[t].left = x.left /\ tx'[t].seen = x.seen /\ tx'[t].mine = x.mine
  BY <1>4 DEF Types, Become, Tables, Follows, Goes, Only, TxState
<1> QED BY <1>3, <1>5

\* The payment.
LEMMA LoadSupplierDoes ==
  ASSUME Types, NEW t \in Tx, LoadSupplier(t)
  PROVE  /\ tx[t].pc = "load" /\ tx[t].req.op \in {"pay", "deliver", "receive"} /\ Sup(t) \in Supplier
         /\ Same /\ Follows(t) /\ NextPart(tx[t], tx'[t].pc) /\ tx'[t].alloc = tx[t].alloc
         /\ tx'[t].old = tx[t].old /\ tx'[t].rest = tx[t].rest /\ tx'[t].seen = See(t, Sup(t)).opening
         /\ \E p \in Document : /\ p.kind = "payment" /\ p.id = tx[t].at /\ p.sup = Sup(t)
                                /\ p.amount = tx[t].old + tx[t].rest
                                /\ tx'[t].mine = tx[t].mine \cup {p}
<1>1. tx[t].pc = "load" /\ RowsOK
  BY AtFacts DEF LoadSupplier, At
<1>2. /\ tx[t] \in TxState /\ tx[t].req \in Request /\ tx[t].at \in 1 .. served
      /\ tx[t].req.op \in {"pay", "deliver", "receive"}
      /\ tx[t].req.by.from \in Place \cup {External} /\ Sup(t) \in Supplier
  BY <1>1, PayingFacts
<1>3. PICK o \in Int : o = See(t, Sup(t)).opening
  BY <1>1, <1>2, Seen DEF Account
<1>4. PICK a \in Nat : a = tx[t].old + tx[t].rest
  BY <1>2 DEF TxState
<1>5. PICK p : p = [kind |-> "payment", id |-> tx[t].at, sup |-> Sup(t), amount |-> a, from |-> R(t).by.from]
  OBVIOUS
<1>6. p \in Document /\ p.kind = "payment" /\ p.id = tx[t].at /\ p.sup = Sup(t) /\ p.amount = a
  BY <1>2, <1>5 DEF Document, R
<1> DEFINE x == [tx[t] EXCEPT !.seen = o, !.mine = @ \cup {p}]
<1>7. Become(t, Onward(x))
  BY <1>3, <1>4, <1>5 DEF LoadSupplier
<1>8. tx[t].mine \cup {p} \subseteq AnyRow
  BY <1>2, <1>6 DEF TxState, AnyRow
<1>9. /\ x \in TxState /\ x.mine = tx[t].mine \cup {p} /\ x.inv = tx[t].inv /\ x.want = tx[t].want
      /\ x.at = tx[t].at /\ x.req = tx[t].req /\ x.alloc = tx[t].alloc /\ x.old = tx[t].old
      /\ x.rest = tx[t].rest /\ x.seen = o
  BY <1>2, <1>8 DEF TxState
<1> HIDE DEF x
<1>10. /\ Follows(t) /\ NextPart(x, tx'[t].pc)
       /\ tx'[t].alloc = x.alloc /\ tx'[t].old = x.old /\ tx'[t].rest = x.rest
       /\ tx'[t].seen = x.seen /\ tx'[t].mine = x.mine
  BY <1>7, <1>9, OnwardDoes
<1>11. Same
  BY <1>1, Effects DEF LoadSupplier
<1>12. NextPart(tx[t], tx'[t].pc)
  BY <1>9, <1>10 DEF NextPart
<1> QED BY <1>1, <1>2, <1>3, <1>4, <1>6, <1>9, <1>10, <1>11, <1>12

\* One part of what is shared out.
LEMMA PartFields ==
  ASSUME Types, NEW t \in Tx, NEW p \in tx[t].alloc
  PROVE  p.id \in Purchase /\ p.n \in Nat \ {0} /\ p.at \in Nat
BY AtFacts DEF Part

\* What goes to a purchase.
UseOf(t, of, i, n) == [kind |-> "allocation", doc |-> tx[t].at, of |-> of, inv |-> i, amount |-> n,
                       by |-> tx[t].at]

\* Its fields.
LEMMA UseFields ==
  ASSUME NEW t, tx[t].at \in Nat, NEW of \in {"payment", "return"}, NEW i \in Purchase, NEW n \in Nat \ {0}
  PROVE  LET m == UseOf(t, of, i, n)
         IN /\ m \in Use /\ m \in AnyRow /\ m.kind = "allocation" /\ m.doc = tx[t].at /\ m.of = of
            /\ m.inv = i /\ m.amount = n /\ m.by = tx[t].at
BY DEF UseOf, Use, AnyRow

\* A part of a payment is paid, or there is no room for it.
LEMMA ApplyPaymentDoes ==
  ASSUME Types, NEW t \in Tx, ApplyPayment(t)
  PROVE  /\ tx[t].pc = "apply"
         /\ \/ Fails(t)
            \/ \E part \in tx[t].alloc :
                 /\ Wrote(t, part.id, PaidMore(cur[part.id], part.n))
                 /\ ~(cur[part.id].paid + part.n > cur[part.id].total - cur[part.id].credited)
                 /\ Follows(t) /\ tx'[t].alloc = tx[t].alloc \ {part} /\ tx'[t].old = tx[t].old
                 /\ tx'[t].rest = tx[t].rest /\ tx'[t].seen = tx[t].seen
                 /\ tx'[t].mine = tx[t].mine \cup {UseOf(t, "payment", part.id, part.n)}
                 /\ \E x : NextPart(x, tx'[t].pc) /\ x.alloc = tx'[t].alloc /\ x.old = tx'[t].old
                           /\ x.rest = tx'[t].rest
<1>1. tx[t].pc = "apply" /\ tx[t].pc \in Paying /\ RowsOK
  BY AtFacts DEF ApplyPayment, At, Paying
<1>2. tx[t] \in TxState /\ tx[t].at \in Nat /\ tx[t].alloc \in SUBSET Part
  BY AtFacts
<1>3. PICK part \in tx[t].alloc :
         IF cur[part.id].paid + part.n > cur[part.id].total - cur[part.id].credited
           THEN DB!Available(t, part.id) /\ Fail(t)
           ELSE /\ DB!Write(t, part.id, PaidMore(cur[part.id], part.n))
                /\ Become(t, Onward([tx[t] EXCEPT !.alloc = @ \ {part}, !.mine = @ \cup
                       {[kind |-> "allocation", doc |-> tx[t].at, of |-> "payment", inv |-> part.id,
                         amount |-> part.n, by |-> tx[t].at]}]))
  BY DEF ApplyPayment
<1>4. part.id \in Purchase /\ part.n \in Nat \ {0}
  BY PartFields
<1>5. CASE cur[part.id].paid + part.n > cur[part.id].total - cur[part.id].credited
  BY <1>1, <1>3, <1>5, FailDoes
<1>6. CASE ~(cur[part.id].paid + part.n > cur[part.id].total - cur[part.id].credited)
  <2>1. PICK m : m = UseOf(t, "payment", part.id, part.n)
    OBVIOUS
  <2>2. m \in AnyRow
    BY <1>2, <1>4, <2>1, UseFields
  <2>3. PICK A : A = tx[t].alloc \ {part}
    OBVIOUS
  <2> DEFINE x == [tx[t] EXCEPT !.alloc = A, !.mine = @ \cup {m}]
  <2>4. Become(t, Onward(x)) /\ DB!Write(t, part.id, PaidMore(cur[part.id], part.n))
    BY <1>3, <1>6, <2>1, <2>3 DEF UseOf
  <2>5. tx[t].mine \cup {m} \subseteq AnyRow
    BY <1>2, <2>2 DEF TxState
  <2>6. /\ x \in TxState /\ x.mine = tx[t].mine \cup {m} /\ x.inv = tx[t].inv /\ x.want = tx[t].want
        /\ x.at = tx[t].at /\ x.req = tx[t].req /\ x.alloc = A /\ x.old = tx[t].old /\ x.rest = tx[t].rest
        /\ x.seen = tx[t].seen
    BY <1>2, <2>3, <2>5 DEF TxState
  <2> HIDE DEF x
  <2>7. /\ Follows(t) /\ NextPart(x, tx'[t].pc)
        /\ tx'[t].alloc = x.alloc /\ tx'[t].old = x.old /\ tx'[t].rest = x.rest
        /\ tx'[t].seen = x.seen /\ tx'[t].mine = x.mine
    BY <2>4, <2>6, OnwardDoes
  <2>8. Wrote(t, part.id, PaidMore(cur[part.id], part.n))
    BY <1>1, <1>4, <2>4, Effects DEF Ledger
  <2> QED BY <1>1, <1>6, <2>1, <2>3, <2>6, <2>7, <2>8
<1> QED BY <1>5, <1>6

\* The old debt is paid, as it was read.
LEMMA PayOldDebtDoes ==
  ASSUME Types, NEW t \in Tx, PayOldDebt(t)
  PROVE  /\ tx[t].pc = "old" /\ Sup(t) \in Supplier
         /\ \/ Fails(t)
            \/ /\ tx[t].old <= tx[t].seen /\ Wrote(t, Sup(t), PayOpening(cur[Sup(t)], tx[t].old))
               /\ Follows(t) /\ tx'[t].alloc = tx[t].alloc /\ tx'[t].old = 0
               /\ tx'[t].rest = tx[t].rest /\ tx'[t].seen = tx[t].seen /\ tx'[t].mine = tx[t].mine
               /\ \E x : NextPart(x, tx'[t].pc) /\ x.alloc = tx'[t].alloc /\ x.old = tx'[t].old
                         /\ x.rest = tx'[t].rest
<1>1. tx[t].pc = "old" /\ tx[t].pc \in Paying /\ RowsOK
  BY AtFacts DEF PayOldDebt, At, Paying
<1>2. tx[t] \in TxState /\ Sup(t) \in Supplier
  BY <1>1, PayingFacts
<1>3. CASE tx[t].old > tx[t].seen
  BY <1>1, <1>2, <1>3, FailDoes DEF PayOldDebt
<1>4. CASE ~(tx[t].old > tx[t].seen)
  <2>1. PICK z \in Nat : z = 0
    OBVIOUS
  <2> DEFINE x == [tx[t] EXCEPT !.old = z]
  <2>2. Become(t, Onward(x)) /\ DB!Write(t, Sup(t), PayOpening(cur[Sup(t)], tx[t].old))
    BY <1>4, <2>1 DEF PayOldDebt
  <2>3. /\ x \in TxState /\ x.mine = tx[t].mine /\ x.inv = tx[t].inv /\ x.want = tx[t].want
        /\ x.at = tx[t].at /\ x.req = tx[t].req /\ x.alloc = tx[t].alloc /\ x.old = z /\ x.rest = tx[t].rest
        /\ x.seen = tx[t].seen
    BY <1>2 DEF TxState
  <2> HIDE DEF x
  <2>4. /\ Follows(t) /\ NextPart(x, tx'[t].pc)
        /\ tx'[t].alloc = x.alloc /\ tx'[t].old = x.old /\ tx'[t].rest = x.rest
        /\ tx'[t].seen = x.seen /\ tx'[t].mine = x.mine
    BY <2>2, <2>3, OnwardDoes
  <2>5. Wrote(t, Sup(t), PayOpening(cur[Sup(t)], tx[t].old))
    BY <1>1, <1>2, <2>2, Effects DEF Ledger
  <2>6. tx[t].old <= tx[t].seen
    BY <1>2, <1>4 DEF TxState
  <2> QED BY <1>1, <1>2, <2>1, <2>3, <2>4, <2>5, <2>6
<1> QED BY <1>3, <1>4

\* The rest comes off what is owed.
LEMMA SettleRestDoes ==
  ASSUME Types, NEW t \in Tx, SettleRest(t)
  PROVE  /\ tx[t].pc = "settle" /\ Sup(t) \in Supplier /\ Carries(t) /\ tx'[t].pc \in {"move", "commit"}
         /\ Wrote(t, Sup(t), AddBalance(cur[Sup(t)], -tx[t].rest))
<1>1. tx[t].pc = "settle" /\ tx[t].pc \in Paying /\ RowsOK
  BY AtFacts DEF SettleRest, At, Paying
<1>2. Sup(t) \in Supplier
  BY <1>1, PayingFacts
<1>3. PICK c \in {"move", "commit"} : c = Closing(tx[t])
  BY DEF Closing
<1>4. Goto(t, c) /\ DB!Write(t, Sup(t), AddBalance(cur[Sup(t)], -tx[t].rest))
  BY <1>3 DEF SettleRest
<1>5. Wrote(t, Sup(t), AddBalance(cur[Sup(t)], -tx[t].rest))
  BY <1>1, <1>2, <1>4, Effects DEF Ledger
<1> QED BY <1>1, <1>2, <1>4, <1>5, GotoDoes

\* A counter's place is found, or nothing is done.
LEMMA CounterSourceDoes ==
  ASSUME Types, NEW t \in Tx, CounterSource(t)
  PROVE  /\ tx[t].pc = "source" /\ tx[t].req.op \in {"deliver", "receive", "pay", "refund"}
         /\ \/ Fails(t)
            \/ /\ Carries(t) /\ Same /\ tx'[t].pc \in {"insert", "find", "load", "ask"}
               /\ tx'[t].pc = "load" => tx[t].req.op = "pay"
<1>1. tx[t] \in TxState /\ TxOK(tx[t], served) /\ tx[t].pc = "source" /\ RowsOK
  BY AtFacts DEF CounterSource, At
<1>2. tx[t].req.op \in {"deliver", "receive", "pay", "refund"}
  BY <1>1 DEF TxOK, Shape
<1>3. CASE tx[t].req.by.from \notin Offered(t)
  BY <1>1, <1>2, <1>3, FailDoes DEF CounterSource, R
<1>4. CASE tx[t].req.by.from \in Offered(t)
  <2>1. PICK s \in {"insert", "find", "load", "ask"} :
             Goto(t, s) /\ (s = "load" => tx[t].req.op = "pay")
    <3>1. CASE tx[t].req.op = "deliver"
      BY <1>4, <3>1 DEF CounterSource, R
    <3>2. CASE tx[t].req.op = "receive"
      BY <1>4, <3>2 DEF CounterSource, R
    <3>3. CASE tx[t].req.op = "pay"
      BY <1>4, <3>3 DEF CounterSource, R
    <3>4. CASE tx[t].req.op = "refund"
      BY <1>4, <3>4 DEF CounterSource, R
    <3> QED BY <1>2, <3>1, <3>2, <3>3, <3>4
  <2>2. Read
    BY <1>4 DEF CounterSource, R
  <2>3. Same
    BY <1>1, <2>2, Effects
  <2> QED BY <1>1, <1>2, <2>1, <2>3, GotoDoes
<1> QED BY <1>3, <1>4

\* An expense.
LEMMA InsertExpenseDoes ==
  ASSUME Types, NEW t \in Tx, InsertExpense(t)
  PROVE  /\ tx[t].pc = "expense" /\ tx[t].req.op = "expense" /\ tx'[t].pc = "move" /\ Same
         /\ Follows(t) /\ Plans(t) /\ \A m \in tx'[t].mine : m.kind = "expense"
<1>1. tx[t] \in TxState /\ TxOK(tx[t], served) /\ tx[t].pc = "expense" /\ RowsOK
  BY AtFacts DEF InsertExpense, At
<1>2. tx[t].req.op = "expense"
  BY <1>1 DEF TxOK, Shape
<1>3. PICK M : M = {[kind |-> "expense", id |-> tx[t].at, amount |-> tx[t].req.amount]}
  OBVIOUS
<1>4. Become(t, [tx[t] EXCEPT !.pc = "move", !.mine = M])
  BY <1>3 DEF InsertExpense, R
<1>5. Same
  BY <1>1, Effects DEF InsertExpense
<1>6. tx'[t].pc = "move" /\ tx'[t].mine = M /\ Follows(t) /\ Plans(t)
  BY <1>1, <1>4 DEF Types, Become, Tables, Follows, Goes, Only, Plans, TxState
<1> QED BY <1>1, <1>2, <1>3, <1>5, <1>6

\* Money is moved, which no supplier and no purchase knows of.
LEMMA MoveTxDoes ==
  ASSUME Types, NEW t \in Tx, MoveTx(t)
  PROVE  /\ tx[t].pc = "move"
         /\ \/ Fails(t)
            \/ /\ Follows(t) /\ Plans(t) /\ Same /\ tx'[t].pc = "commit"
               /\ \E m : m.kind = "move" /\ tx'[t].mine = tx[t].mine \cup {m}
<1>1. tx[t] \in TxState /\ TxOK(tx[t], served) /\ tx[t].pc = "move" /\ RowsOK
  BY AtFacts DEF MoveTx, At
<1>2. tx[t].req \in Request /\ tx[t].req.op \in {"pay", "deliver", "receive", "refund", "expense"}
      /\ (tx[t].req.op = "expense" => tx[t].req.by.from # External) /\ tx[t].req.by.from # External
  BY <1>1 DEF TxOK, Shape, CashOK
<1>3. tx[t].req.by.from \in Place
  BY <1>2, RequestFields
<1>4. CASE Fail(t)
  BY <1>1, <1>4, FailDoes
<1>5. CASE ~Fail(t)
  <2>1. PICK m, p : /\ m.kind = "move" /\ p = tx[t].req.by.from /\ DB!LockRow(t, p)
                    /\ Become(t, [tx[t] EXCEPT !.pc = "commit", !.mine = @ \cup {m}])
    <3>1. PICK d : d = CHOOSE x \in tx[t].mine : x.kind \in {"payment", "refund", "expense"}
      OBVIOUS
    <3>2. PICK n : n = IF d.kind = "refund" THEN d.amount ELSE -d.amount
      OBVIOUS
    <3>3. PICK m : m = [kind |-> "move", doc |-> tx[t].at, place |-> tx[t].req.by.from, amount |-> n]
      OBVIOUS
    <3>4. /\ DB!LockRow(t, tx[t].req.by.from)
          /\ Become(t, [tx[t] EXCEPT !.pc = "commit", !.mine = @ \cup {m}])
      BY <1>5, <3>1, <3>2, <3>3 DEF MoveTx, R
    <3>5. m.kind = "move"
      BY <3>3
    <3> QED BY <3>4, <3>5
  <2>2. Same
    BY <1>1, <1>3, <2>1, Effects DEF DB!LockRow
  <2>3. Follows(t) /\ Plans(t) /\ tx'[t].pc = "commit" /\ tx'[t].mine = tx[t].mine \cup {m}
    BY <1>1, <2>1 DEF Types, Become, Tables, Follows, Goes, Only, Plans, TxState
  <2> QED BY <1>1, <2>1, <2>2, <2>3
<1> QED BY <1>4, <1>5

\* A return: its credit note, first.
LEMMA DebitNoteDoes ==
  ASSUME Types, NEW t \in Tx, DebitNote(t)
  PROVE  /\ tx[t].pc = "debit" /\ tx[t].req.op = "return" /\ tx[t].req.sup \in Supplier
         /\ tx'[t].pc = "open" /\ Follows(t) /\ Plans(t)
         /\ Wrote(t, tx[t].req.sup, AddBalance(cur[tx[t].req.sup], -tx[t].req.amount))
         /\ \E d \in Document : /\ tx'[t].mine = {d} /\ d.kind = "return" /\ d.id = tx[t].at
                                /\ d.sup = tx[t].req.sup /\ d.amount = tx[t].req.amount
<1>1. tx[t].pc = "debit" /\ RowsOK /\ tx[t] \in TxState
  BY AtFacts DEF DebitNote, At
<1>2. tx[t].req.op = "return" /\ tx[t].req.sup \in Supplier
  BY <1>1, BackFacts
<1>3. PICK d : d = Doc(t, "return", External)
  OBVIOUS
<1>4. d \in Document /\ d.kind = "return" /\ d.id = tx[t].at /\ d.sup = tx[t].req.sup /\ d.amount = tx[t].req.amount
  BY <1>1, <1>3, DocType
<1>5. Become(t, [tx[t] EXCEPT !.mine = {d}, !.pc = "open"])
      /\ DB!Write(t, tx[t].req.sup, AddBalance(cur[tx[t].req.sup], -tx[t].req.amount))
  BY <1>3 DEF DebitNote, R
<1>6. Wrote(t, tx[t].req.sup, AddBalance(cur[tx[t].req.sup], -tx[t].req.amount))
  BY <1>1, <1>2, <1>5, Effects DEF Ledger
<1>7. tx'[t].pc = "open" /\ tx'[t].mine = {d} /\ Follows(t) /\ Plans(t)
  BY <1>1, <1>5 DEF Types, Become, Tables, Follows, Goes, Only, Plans, TxState
<1> QED BY <1>1, <1>2, <1>4, <1>6, <1>7

\* What it may go to.
LEMMA ListOpenDoes ==
  ASSUME Types, NEW t \in Tx, ListOpen(t)
  PROVE  /\ tx[t].pc = "open" /\ tx[t].req.op = "return" /\ Same /\ Follows(t) /\ tx'[t].mine = tx[t].mine
         /\ tx'[t].alloc = OpenOf(t, tx[t].req.sup) /\ tx'[t].left = tx[t].req.amount
         /\ tx[t].req.amount \in Nat
         /\ tx'[t].pc = IF tx'[t].alloc = {} THEN "commit" ELSE "spend"
<1>1. tx[t].pc = "open" /\ RowsOK /\ tx[t] \in TxState
  BY AtFacts DEF ListOpen, At
<1>2. tx[t].req.op = "return" /\ tx[t].req.amount \in Nat
  BY <1>1, BackFacts
<1>3. PICK A : A = OpenOf(t, tx[t].req.sup)
  OBVIOUS
<1>4. PICK s : s = IF A = {} THEN "commit" ELSE "spend"
  OBVIOUS
<1>5. Become(t, [tx[t] EXCEPT !.alloc = A, !.left = tx[t].req.amount, !.pc = s])
  BY <1>3, <1>4 DEF ListOpen, R
<1>6. Same
  BY <1>1, Effects DEF ListOpen
<1>7. Follows(t) /\ tx'[t].mine = tx[t].mine /\ tx'[t].alloc = A /\ tx'[t].left = tx[t].req.amount /\ tx'[t].pc = s
  BY <1>1, <1>5 DEF Types, Become, Tables, Follows, Goes, Only, TxState
<1> QED BY <1>1, <1>2, <1>3, <1>4, <1>6, <1>7

\* Some of it goes to the next purchase.
LEMMA ApplyCreditDoes ==
  ASSUME Types, NEW t \in Tx, ApplyCredit(t)
  PROVE  /\ tx[t].pc = "spend" /\ tx[t].req.op = "return"
         /\ \E part \in tx[t].alloc : \E n \in Int : \E v \in Bill :
              /\ n = Smaller(tx[t].left, Larger(Balance(cur[part.id]), 0))
              /\ Wrote(t, part.id, v) /\ v.sup = cur[part.id].sup /\ v.total = cur[part.id].total
              /\ v.paid = cur[part.id].paid /\ v.status = cur[part.id].status
              /\ v.credited = cur[part.id].credited + n
              /\ Follows(t) /\ tx'[t].alloc = tx[t].alloc \ {part} /\ tx'[t].left = tx[t].left - n
              /\ tx'[t].mine = tx[t].mine \cup (IF n > 0 THEN {UseOf(t, "return", part.id, n)} ELSE {})
              /\ tx'[t].pc \in {"commit", "spend"}
<1>1. tx[t].pc = "spend" /\ RowsOK /\ tx[t] \in TxState /\ tx[t].left \in Int
  BY AtFacts DEF ApplyCredit, At
<1>2. tx[t].req.op = "return"
  BY <1>1, BackFacts
<1>3. PICK part \in tx[t].alloc :
         LET i == part.id
             n == Smaller(tx[t].left, Larger(Balance(cur[i]), 0))
             x == [tx[t] EXCEPT !.alloc = @ \ {part}, !.left = @ - n, !.mine = @ \cup
                      (IF n > 0 THEN {[kind |-> "allocation", doc |-> tx[t].at, of |-> "return",
                                       inv |-> i, amount |-> n, by |-> tx[t].at]} ELSE {})]
         IN /\ DB!Write(t, i, [cur[i] EXCEPT !.credited = @ + n])
            /\ Become(t, [x EXCEPT !.pc = IF x.left = 0 \/ x.alloc = {} THEN "commit" ELSE "spend"])
  BY DEF ApplyCredit
<1>4. PICK i \in Purchase : i = part.id
  BY PartFields
<1>5. PICK b \in Bill : b = cur[i]
  BY <1>1 DEF RowsOK
<1>6. PICK n \in Int : n = Smaller(tx[t].left, Larger(Balance(cur[i]), 0))
  <2>1. Balance(b) \in Int
    BY BillTypes
  <2> QED BY <1>1, <1>5, <2>1 DEF Smaller, Larger
<1>7. PICK l \in Int : l = tx[t].left - n
  BY <1>1
<1>8. PICK A : A = tx[t].alloc \ {part}
  OBVIOUS
<1>9. PICK U : U = IF n > 0 THEN {UseOf(t, "return", i, n)} ELSE {}
  OBVIOUS
<1> DEFINE y == [tx[t] EXCEPT !.alloc = A, !.left = l, !.mine = @ \cup U]
<1>10. PICK s \in {"commit", "spend"} : s = IF y.left = 0 \/ y.alloc = {} THEN "commit" ELSE "spend"
  OBVIOUS
<1> DEFINE x == [tx[t] EXCEPT !.alloc = A, !.left = l, !.mine = @ \cup U, !.pc = s]
           v == [b EXCEPT !.credited = @ + n]
<1>11. x = [y EXCEPT !.pc = s]
  OBVIOUS
<1>12. Become(t, [y EXCEPT !.pc = s]) /\ DB!Write(t, i, v)
  BY <1>3, <1>4, <1>5, <1>6, <1>7, <1>8, <1>9, <1>10 DEF UseOf
<1>13. v \in Bill /\ v.sup = b.sup /\ v.total = b.total /\ v.paid = b.paid /\ v.status = b.status
       /\ v.credited = b.credited + n
  BY BillFields
<1>14. Wrote(t, i, v)
  BY <1>1, <1>12, Effects DEF Ledger
<1>15. Become(t, x)
  BY <1>11, <1>12
<1> HIDE DEF y, v
<1>16. /\ Follows(t) /\ tx'[t].alloc = A /\ tx'[t].left = l /\ tx'[t].mine = tx[t].mine \cup U
       /\ tx'[t].pc = s
  BY <1>1, <1>15 DEF Types, Become, Tables, Follows, Goes, Only, TxState
<1> HIDE DEF x
<1> QED BY <1>1, <1>2, <1>4, <1>5, <1>6, <1>7, <1>8, <1>9, <1>10, <1>13, <1>14, <1>16

\* A refund: what the supplier owes is read ..
LEMMA ReadOwedDoes ==
  ASSUME Types, NEW t \in Tx, ReadOwed(t)
  PROVE  /\ tx[t].pc = "ask" /\ tx[t].req.op = "refund"
         /\ Fails(t) \/ (Carries(t) /\ Same /\ tx'[t].pc = "refund")
<1>1. tx[t].pc = "ask" /\ RowsOK
  BY AtFacts DEF ReadOwed, At
<1>2. tx[t].req.op = "refund"
  BY <1>1, BackFacts
<1>3. Fail(t) => Fails(t)
  BY FailDoes
<1>4. Goto(t, "refund") /\ Read => Carries(t) /\ Same /\ tx'[t].pc = "refund"
  BY <1>1, GotoDoes, Effects
<1> QED BY <1>1, <1>2, <1>3, <1>4 DEF ReadOwed

\* .. and taken.
LEMMA TakeRefundDoes ==
  ASSUME Types, NEW t \in Tx, TakeRefund(t)
  PROVE  /\ tx[t].pc = "refund" /\ tx[t].req.op = "refund" /\ tx[t].req.sup \in Supplier
         /\ tx'[t].pc \in {"move", "commit"} /\ Follows(t) /\ Plans(t)
         /\ Wrote(t, tx[t].req.sup, AddBalance(cur[tx[t].req.sup], tx[t].req.amount))
         /\ \E d \in Document : /\ tx'[t].mine = {d} /\ d.kind = "refund" /\ d.id = tx[t].at
                                /\ d.sup = tx[t].req.sup /\ d.amount = tx[t].req.amount
<1>1. tx[t].pc = "refund" /\ RowsOK /\ tx[t] \in TxState
  BY AtFacts DEF TakeRefund, At
<1>2. tx[t].req.op = "refund" /\ tx[t].req.sup \in Supplier /\ tx[t].req.by.from \in Place \cup {External}
  BY <1>1, BackFacts
<1>3. PICK d : d = Doc(t, "refund", R(t).by.from)
  OBVIOUS
<1>4. d \in Document /\ d.kind = "refund" /\ d.id = tx[t].at /\ d.sup = tx[t].req.sup /\ d.amount = tx[t].req.amount
  BY <1>1, <1>2, <1>3, DocType DEF R
<1> DEFINE y == [tx[t] EXCEPT !.mine = {d}]
<1>5. PICK s \in {"move", "commit"} : s = Closing(y)
  BY DEF Closing
<1>6. Become(t, [y EXCEPT !.pc = s])
      /\ DB!Write(t, tx[t].req.sup, AddBalance(cur[tx[t].req.sup], tx[t].req.amount))
  BY <1>3, <1>5 DEF TakeRefund, R
<1>7. Wrote(t, tx[t].req.sup, AddBalance(cur[tx[t].req.sup], tx[t].req.amount))
  BY <1>1, <1>2, <1>6, Effects DEF Ledger
<1>8. tx'[t].pc = s /\ tx'[t].mine = {d} /\ Follows(t) /\ Plans(t)
  BY <1>1, <1>6 DEF Types, Become, Tables, Follows, Goes, Only, Plans, TxState
<1> QED BY <1>1, <1>2, <1>4, <1>5, <1>7, <1>8

\* An opening debt is corrected.
LEMMA AdjustDoes ==
  ASSUME Types, NEW t \in Tx, Adjust(t)
  PROVE  /\ tx[t].pc = "adjust" /\ tx[t].req.op = "adjust" /\ tx[t].req.sup \in Supplier
         /\ tx[t].req \in Request /\ tx[t].req.amount \in Int
         /\ Ends(t) /\ Changes(tx[t].req.sup, AdjustOpening(com[tx[t].req.sup], tx[t].req.amount))
<1>1. tx[t] \in TxState /\ TxOK(tx[t], served) /\ RowsOK /\ tx[t].pc = "adjust"
  BY AtFacts DEF Adjust, At
<1>2. tx[t].req \in Request /\ tx[t].req.op = "adjust"
  BY <1>1 DEF TxOK, Shape
<1>3. tx[t].req.sup \in Supplier /\ tx[t].req.amount \in Int
  BY <1>2, RequestFields
<1>4. DB!Update(tx[t].req.sup, AdjustOpening(com[tx[t].req.sup], tx[t].req.amount)) /\ Become(t, Idle)
  BY DEF Adjust, R
<1>5. Changes(tx[t].req.sup, AdjustOpening(com[tx[t].req.sup], tx[t].req.amount))
  BY <1>1, <1>3, <1>4, Effects DEF Ledger
<1>6. Ends(t)
  BY <1>4 DEF Types, Become, Tables, Ends, Only
<1> QED BY <1>1, <1>2, <1>3, <1>5, <1>6

\* Everything is made known at once.
Files(t) == /\ tx[t].pc = "commit" /\ Published(t) /\ book' = book \cup tx[t].mine /\ served' = served
            /\ tx'[t] = Idle /\ \A u \in Tx : u # t => tx'[u] = tx[u]

\* That is how a transaction ends.
LEMMA CommitDoes ==
  ASSUME Types, NEW t \in Tx, Commit(t)
  PROVE  Files(t)
<1>1. RowsOK /\ tx \in [Tx -> TxState]
  BY DEF Types
<1>2. Published(t)
  BY <1>1, Effects DEF Commit
<1> QED BY <1>1, <1>2 DEF Commit, At, Rows, Files

\* A request begins: nothing is read or written yet.
Begins(t) ==
    /\ tx[t].pc = "idle" /\ Same /\ book' = book /\ served' = served + 1
    /\ \A u \in Tx : u # t => tx'[u] = tx[u]
    /\ tx'[t].req \in Desk[t] /\ tx'[t].at = served + 1 /\ tx'[t].mine = {} /\ tx'[t].alloc = {}
    /\ tx'[t].old = 0 /\ tx'[t].rest = 0
    /\ tx'[t].pc \in {"draft", "find", "drop", "insert", "source", "plan", "debit", "ask", "adjust", "expense"}

\* A handler asks.
LEMMA AskDoes ==
  ASSUME Types, NEW t \in Tx, NEW r \in Desk[t], NEW i, NEW s, Ask(t, r, i, s),
         s \in {"draft", "find", "drop", "insert", "source", "plan", "debit", "ask", "adjust", "expense"}
  PROVE  Begins(t)
<1>1. served' = served + 1 /\ served \in Nat /\ tx[t].pc = "idle" /\ UNCHANGED <<rowVars, book>> /\ RowsOK
  BY AtFacts DEF Ask, Serve, At
<1>2. PICK n : n = served'
  OBVIOUS
<1> DEFINE x == [Idle EXCEPT !.pc = s, !.req = r, !.at = n, !.inv = i]
<1>3. tx' = [tx EXCEPT ![t] = x]
  BY <1>2 DEF Ask
<1>4. Idle.mine = {} /\ Idle.alloc = {} /\ Idle.old = 0 /\ Idle.rest = 0
  BY DEF Idle
<1>5. /\ x.pc = s /\ x.req = r /\ x.at = n /\ x.mine = {} /\ x.alloc = {} /\ x.old = 0 /\ x.rest = 0
  BY <1>4 DEF Idle
<1>6. Same
  BY <1>1, Effects DEF Read
<1> HIDE DEF x
<1>7. tx'[t] = x /\ \A u \in Tx : u # t => tx'[u] = tx[u]
  BY <1>3 DEF Types
<1> QED BY <1>1, <1>2, <1>5, <1>6, <1>7 DEF Begins

\* A request that is one statement, about an expense or a locker.
Alone(t) == /\ tx[t].pc = "idle" /\ Same /\ tx' = tx
            /\ \A x \in book \ book' : x.kind = "expense"
            /\ \A x \in book' \ book : x.kind = "expense"

\* What a handler does.
LEMMA HandlerDoes ==
  ASSUME Types, NEW t \in Tx, Handle(t)
  PROVE  Begins(t) \/ Alone(t)
<1>1. \A o : \A r \in Asked(t, o) : r \in Desk[t]
  BY DEF Asked
<1>2. OrderCreate(t) \/ PurchaseDraftCreate(t) => Begins(t)
  BY <1>1, AskDoes DEF OrderCreate, PurchaseDraftCreate
<1>3. PurchaseDraftUpdate(t) \/ PurchaseDraftDelete(t) => Begins(t)
  BY <1>1, AskDoes DEF PurchaseDraftUpdate, PurchaseDraftDelete
<1>4. PurchaseReceiveNow(t) => Begins(t)
  BY <1>1, AskDoes DEF PurchaseReceiveNow
<1>5. ReceiveWalkIn(t) => Begins(t)
  <2> SUFFICES ASSUME ReceiveWalkIn(t) PROVE Begins(t)
    OBVIOUS
  <2>1. PICK r \in Asked(t, "deliver"), s \in {"insert", "source"} : Ask(t, r, 0, s)
    BY DEF ReceiveWalkIn, ToCounter
  <2> QED BY <1>1, <2>1, AskDoes
<1>6. PurchaseReceive(t) => Begins(t)
  BY <1>1, AskDoes DEF PurchaseReceive
<1>7. ReceiveAgainstOrder(t) => Begins(t)
  <2> SUFFICES ASSUME ReceiveAgainstOrder(t) PROVE Begins(t)
    OBVIOUS
  <2>1. PICK r \in Asked(t, "receive"), s \in {"find", "source"} : Ask(t, r, r.inv, s)
    BY DEF ReceiveAgainstOrder, ToCounter
  <2> QED BY <1>1, <2>1, AskDoes
<1>8. SupplierPay(t) \/ SupplierPayAtCounter(t) \/ PurchaseReturnCreate(t) => Begins(t)
  BY <1>1, AskDoes DEF SupplierPay, SupplierPayAtCounter, PurchaseReturnCreate
<1>9. SupplierRefund(t) => Begins(t)
  BY <1>1, AskDoes DEF SupplierRefund
<1>10. SupplierRefundAtCounter(t) => Begins(t)
  <2> SUFFICES ASSUME SupplierRefundAtCounter(t) PROVE Begins(t)
    OBVIOUS
  <2>1. PICK r \in Asked(t, "refund"), s \in {"ask", "source"} : Ask(t, r, 0, s)
    BY DEF SupplierRefundAtCounter
  <2> QED BY <1>1, <2>1, AskDoes
<1>11. SupplierOpeningAdjust(t) \/ ExpenseCreate(t) => Begins(t)
  BY <1>1, AskDoes DEF SupplierOpeningAdjust, ExpenseCreate
<1>12. ExpenseUpdate(t) \/ ExpenseDelete(t) => Alone(t)
  <2> SUFFICES ASSUME ExpenseUpdate(t) \/ ExpenseDelete(t) PROVE Alone(t)
    OBVIOUS
  <2>1. tx[t].pc = "idle" /\ UNCHANGED <<rowVars, tx>> /\ RowsOK
    BY AtFacts DEF ExpenseUpdate, ExpenseDelete, At
  <2>2. Same
    BY <2>1, Effects DEF Read
  <2>3. (\A x \in book \ book' : x.kind = "expense") /\ (\A x \in book' \ book : x.kind = "expense")
    <3>1. CASE ExpenseUpdate(t)
      <4>1. PICK r \in Asked(t, "correct"), x \in {y \in book : y.kind = "expense"} :
                   book' = (book \ {x}) \cup {[x EXCEPT !.amount = r.amount]}
        BY <3>1 DEF ExpenseUpdate
      <4>2. PICK y : y = [x EXCEPT !.amount = r.amount]
        OBVIOUS
      <4>3. x \in AnyRow /\ x.kind = "expense"
        BY <4>1 DEF Types
      <4>4. x \in Expense
        BY <4>3, RowKinds
      <4>5. y.kind = "expense"
        BY <4>2, <4>4 DEF Expense
      <4> QED BY <4>1, <4>2, <4>3, <4>5
    <3>2. CASE ExpenseDelete(t)
      BY <3>2 DEF ExpenseDelete
    <3> QED BY <3>1, <3>2
  <2> QED BY <2>1, <2>2, <2>3 DEF Alone
<1>13. LockerUpdate(t) => Alone(t)
  <2> SUFFICES ASSUME LockerUpdate(t) PROVE Alone(t)
    OBVIOUS
  <2>1. PICK r \in Asked(t, "locker") : DB!Update(r.place, r.flags)
    BY DEF LockerUpdate
  <2>2. r \in Request /\ r.op = "locker"
    BY <2>1, PayablesAssumption DEF Asked
  <2>3. r.place \in Place
    BY <2>2, RequestFields DEF Place
  <2>4. Same
    BY <2>1, <2>3, Effects, AtFacts
  <2> QED BY <2>4 DEF LockerUpdate, At, Alone
<1> QED BY <1>2, <1>3, <1>4, <1>5, <1>6, <1>7, <1>8, <1>9, <1>10, <1>11, <1>12, <1>13 DEF Handle

-----------------------------------------------------------------------------
(***************************************************************************)
(* Every statement keeps them.                                             *)
(***************************************************************************)
\* How a statement of t may change rows.
Legal(t) == \/ Same
            \/ \E r \in Ledger : \E v : Wrote(t, r, v)
            \/ Undone(t)
            \/ Published(t) /\ Busy(t)
            \/ \E s \in Supplier : \E v : Changes(s, v)
            \/ \E i \in Purchase : \E v : /\ Changes(i, v) /\ Busy(t) /\ R(t).op = "drop" /\ R(t).inv = i
                                          /\ com[i].status \in Received => v.status \in Received

\* What t does leaves the purchases of others alone.
LEMMA OthersKept ==
  ASSUME Types, AtDesk, DraftsApart, Purchases, NEW t \in Tx, Legal(t), NEW u \in Tx, u # t, tx'[u] = tx[u]
  PROVE  PurchaseOK(u)'
<1>1. /\ PurchaseOK(u) /\ PurchaseOK(t) /\ BillsKept
      /\ tx[u].inv \in Purchase \cup {0} /\ \A p \in tx[u].alloc : p.id \in Purchase
      /\ tx[u].pc \in {"edit", "receive"} => tx[u].inv \in Purchase
  BY BusyFacts DEF Purchases
<1>2. Purchase \subseteq Ledger /\ Supplier \subseteq Ledger /\ Supplier \cap Purchase = {} /\ NoTx \notin Tx
  BY PayablesAssumption DEF Ledger
<1>3. tx[u].pc \in {"edit", "receive"} =>
         /\ Busy(u) /\ R(u).op \in {"edit", "receive"} /\ tx[u].inv = R(u).inv /\ com[tx[u].inv].status = "draft"
  <2>1. Shape(tx[u], served)
    BY AtFacts DEF TxOK
  <2> QED BY <1>1, <2>1 DEF Shape, Busy, R, PurchaseOK, DraftFound
<1>4. \A q \in Purchase : com[q].status \in Received => cur[q].status \in Received
  BY <1>1 DEF BillsKept
<1>5. /\ \A r \in Ledger : lock'[r] = u <=> lock[r] = u
      /\ \A r \in Ledger : lock[r] = u => cur'[r] = cur[r] /\ com'[r] = com[r]
      /\ \A i \in Purchase : com[i].status \in Received => com'[i].status \in Received
      /\ tx[u].pc \in {"edit", "receive"} => com'[tx[u].inv] = com[tx[u].inv]
  <2>1. CASE Same
    BY <1>1, <1>2, <2>1 DEF Same
  <2>2. CASE \E r \in Ledger : \E v : Wrote(t, r, v)
    BY <1>1, <1>2, <2>2 DEF Wrote
  <2>3. CASE Undone(t)
    BY <1>1, <1>2, <2>3 DEF Undone
  <2>4. CASE Published(t) /\ Busy(t)
    <3>1. ASSUME tx[u].pc \in {"edit", "receive"} PROVE lock[tx[u].inv] # t
      <4> SUFFICES ASSUME lock[tx[u].inv] = t PROVE FALSE
        OBVIOUS
      <4>1. R(t).op \in {"edit", "receive"} /\ R(t).inv = tx[u].inv
        BY <1>1, <1>3, <3>1 DEF PurchaseOK, DraftHeld
      <4>2. R(t) \in Desk[t] /\ R(u) \in Desk[u]
        BY <1>3, <2>4, <3>1 DEF AtDesk
      <4> QED BY <1>3, <3>1, <4>1, <4>2 DEF DraftsApart
    <3> QED BY <1>1, <1>2, <1>4, <2>4, <3>1 DEF Published
  <2>5. CASE \E s \in Supplier : \E v : Changes(s, v)
    BY <1>1, <1>2, <2>5 DEF Changes
  <2>6. CASE \E i \in Purchase : \E v : /\ Changes(i, v) /\ Busy(t) /\ R(t).op = "drop" /\ R(t).inv = i
                                        /\ com[i].status \in Received => v.status \in Received
    <3>1. PICK i, v : /\ i \in Purchase /\ Changes(i, v) /\ Busy(t) /\ R(t).op = "drop" /\ R(t).inv = i
                      /\ com[i].status \in Received => v.status \in Received
      BY <2>6
    <3>2. ASSUME tx[u].pc \in {"edit", "receive"} PROVE tx[u].inv # i
      <4>1. R(t) \in Desk[t] /\ R(u) \in Desk[u]
        BY <1>3, <3>1, <3>2 DEF AtDesk
      <4> QED BY <1>3, <3>1, <3>2, <4>1 DEF DraftsApart
    <3> QED BY <1>1, <1>2, <3>1, <3>2 DEF Changes
  <2> QED BY <2>1, <2>2, <2>3, <2>4, <2>5, <2>6 DEF Legal
<1>6. tx[u].pc # "idle" => tx[u].inv \in Purchase \cup {0}
  BY <1>1
<1> QED BY <1>1, <1>5, <1>6, OthersPurchases

\* So do they all, if t keeps its own.
LEMMA AllKept ==
  ASSUME Types, AtDesk, DraftsApart, Purchases, NEW t \in Tx, Legal(t),
         \A u \in Tx : u # t => tx'[u] = tx[u], BillsKept', PurchaseOK(t)'
  PROVE  Purchases'
BY OthersKept DEF Purchases

\* A transaction that is over has no purchase.
LEMMA OverOK ==
  ASSUME NEW t \in Tx, tx'[t] = Idle, \A r \in Ledger : lock'[r] # t
  PROVE  PurchaseOK(t)'
<1>1. /\ tx'[t].pc = "idle" /\ ~Taking(tx'[t]) /\ tx'[t].alloc = {} /\ tx'[t].mine = {}
  BY DEF Idle, Taking, Delivery, Paying
<1>2. HoldsNothing(t)' /\ DraftFound(t)' /\ TakesIn(t)'
  BY <1>1 DEF HoldsNothing, DraftFound, TakesIn
<1>3. TakenOnly(t)' /\ DraftHeld(t)'
  BY DEF TakenOnly, DraftHeld, Ledger
<1>4. ShareOK(t)' /\ ReceiptOK(t)'
  BY <1>1 DEF ShareOK, ReceiptOK
<1> QED BY <1>2, <1>3, <1>4 DEF PurchaseOK

\* A purchase that was one stays one, with its supplier; one taken in keeps its total.
Smooth(i, v) == /\ com[i].status # "none" => v.status # "none" /\ v.sup = com[i].sup
                /\ com[i].status \in Received => v.status \in Received /\ v.total = com[i].total

\* Writing a supplier, or a purchase so, keeps every purchase that there is.
LEMMA BillsStay ==
  ASSUME BillsKept, NEW t \in Tx
  PROVE  /\ Same \/ Undone(t) \/ Published(t) => BillsKept'
         /\ \A s \in Supplier : \A v : Wrote(t, s, v) \/ Changes(s, v) => BillsKept'
         /\ \A i \in Purchase : \A v : Smooth(i, v) /\ (Wrote(t, i, v) \/ Changes(i, v)) => BillsKept'
<1>1. Purchase \subseteq Ledger /\ Supplier \cap Purchase = {} /\ "none" \notin Received
  BY PayablesAssumption DEF Ledger, Received
<1>2. Same => BillsKept'
  BY <1>1 DEF Same, BillsKept
<1>3. Undone(t) => BillsKept'
  BY <1>1 DEF Undone, BillsKept
<1>4. Published(t) => BillsKept'
  BY <1>1 DEF Published, BillsKept
<1>5. \A s \in Supplier : \A v : Wrote(t, s, v) => BillsKept'
  BY <1>1 DEF Wrote, BillsKept
<1>6. \A s \in Supplier : \A v : Changes(s, v) => BillsKept'
  BY <1>1 DEF Changes, BillsKept
<1>7. \A i \in Purchase : \A v : Smooth(i, v) /\ Wrote(t, i, v) => BillsKept'
  BY <1>1 DEF Wrote, BillsKept, Smooth
<1>8. \A i \in Purchase : \A v : Smooth(i, v) /\ Changes(i, v) => BillsKept'
  BY <1>1 DEF Changes, BillsKept, Smooth
<1> QED BY <1>2, <1>3, <1>4, <1>5, <1>6, <1>7, <1>8

\* A statement that leaves the purchases, or pays and credits one.
Leaves  == \A i \in Purchase : com'[i] = com[i] /\ cur'[i] = cur[i] /\ lock'[i] = lock[i]
Pays(t, i, v) == /\ Wrote(t, i, v) /\ cur[i].status \in Received /\ v.status \in Received
                 /\ v.total = cur[i].total /\ v.sup = cur[i].sup
                 /\ IF Taking(tx[t]) THEN i = tx[t].inv ELSE com[i].status \in Received

\* Which do.
LEMMA LeavesFacts ==
  ASSUME NEW t \in Tx
  PROVE  /\ Same => Leaves
         /\ \A s \in Supplier : \A v : Wrote(t, s, v) => Leaves
<1>1. Purchase \subseteq Ledger /\ Supplier \cap Purchase = {}
  BY PayablesAssumption DEF Ledger
<1> QED BY <1>1 DEF Same, Wrote, Leaves

\* One that goes on so.
LEMMA GoesOnOK ==
  ASSUME NEW t \in Tx, PurchaseOK(t), Follows(t),
         Leaves \/ \E i \in Purchase : \E v : Pays(t, i, v),
         tx'[t].pc \in Early => tx[t].pc \in Early /\ Same,
         tx'[t].pc \notin {"edit", "receive"},
         Taking(tx'[t]) <=> Taking(tx[t]),
         Taking(tx[t]) /\ Keeps(tx[t]) => (Before(tx'[t]) <=> Before(tx[t])),
         \A p \in tx'[t].alloc : p.id \in Purchase /\
            (IF R(t).op \in {"deliver", "receive"} THEN Taking(tx[t]) /\ p.id = tx[t].inv
             ELSE com[p.id].status \in Received),
         \A m \in tx'[t].mine : m.kind = "receipt" => m \in tx[t].mine
  PROVE  PurchaseOK(t)'
<1> DEFINE k == tx[t].inv
<1>1. Purchase \subseteq Ledger /\ "draft" \notin Received /\ "none" \notin Received
  BY DEF Ledger, Received
<1>2. tx'[t].req = tx[t].req /\ tx'[t].inv = tx[t].inv /\ tx'[t].want = tx[t].want
  BY DEF Follows, Goes
<1>3. \A i \in Purchase : com'[i] = com[i]
  BY <1>1 DEF Leaves, Pays, Wrote
<1>4. Taking(tx[t]) => /\ k \in Purchase /\ lock[k] = t /\ cur[k].status \in Received
                       /\ cur[k].total = Worth(tx[t].req.lines)
                       /\ tx[t].req.op = "deliver" => com[k].status = "none" /\ cur[k].sup = tx[t].req.sup
                       /\ tx[t].req.op = "receive" => com[k].status = "draft" /\ tx[t].want = com[k].lines
                       /\ Remains(t)
  BY DEF PurchaseOK, TakesIn
<1>5. Taking(tx[t]) => \A j \in Purchase : /\ lock'[j] = lock[j] /\ (j # k => cur'[j] = cur[j])
                                           /\ cur'[k].status \in Received /\ cur'[k].total = cur[k].total
                                           /\ cur'[k].sup = cur[k].sup
  BY <1>1, <1>4 DEF Leaves, Pays, Wrote
<1>6. HoldsNothing(t)'
  BY DEF PurchaseOK, HoldsNothing, Same
<1>7. DraftFound(t)'
  BY DEF DraftFound
<1>8. TakesIn(t)'
  <2> SUFFICES ASSUME Taking(tx[t]) PROVE TakesIn(t)'
    BY DEF TakesIn
  <2>1. Keeps(tx'[t]) <=> Keeps(tx[t])
    BY <1>2 DEF Keeps
  <2>2. Remains(t)'
    <3>1. CASE Keeps(tx[t]) /\ ~Before(tx[t])
      <4>1. PICK d \in Purchase : /\ d # k /\ lock[d] = t /\ com[d].status = "none" /\ cur[d].status = "draft"
                                  /\ cur[d].lines = RemainderLines(tx[t].want, tx[t].req.lines)
                                  /\ \A j \in Purchase : lock[j] = t => j \in {k, d}
        BY <1>4, <3>1 DEF Remains
      <4> QED BY <1>2, <1>3, <1>5, <2>1, <3>1, <4>1 DEF Remains
    <3>2. CASE ~(Keeps(tx[t]) /\ ~Before(tx[t]))
      BY <1>2, <1>3, <1>4, <1>5, <2>1, <3>2 DEF Remains
    <3> QED BY <3>1, <3>2
  <2> QED BY <1>2, <1>3, <1>4, <1>5, <2>2 DEF TakesIn
<1>9. TakenOnly(t)' /\ DraftHeld(t)'
  <2>1. CASE Leaves
    BY <1>2, <2>1 DEF PurchaseOK, TakenOnly, DraftHeld, Leaves, R
  <2>2. CASE \E i \in Purchase : \E v : Pays(t, i, v)
    <3>1. PICK i, v : i \in Purchase /\ Pays(t, i, v)
      BY <2>2
    <3>2. \A j \in Purchase : j # i => lock'[j] = lock[j] /\ cur'[j] = cur[j]
      BY <1>1, <3>1 DEF Pays, Wrote
    <3>3. IF Taking(tx[t]) THEN i = k /\ lock[i] = t ELSE com[i].status \in Received
      BY <1>4, <3>1 DEF Pays
    <3>4. TakenOnly(t)'
      BY <1>2, <1>3, <3>2, <3>3 DEF PurchaseOK, TakenOnly
    <3>5. DraftHeld(t)'
      BY <1>1, <1>2, <1>3, <3>2, <3>3 DEF PurchaseOK, DraftHeld, R
    <3> QED BY <3>4, <3>5
  <2> QED BY <2>1, <2>2
<1>10. ShareOK(t)'
  BY <1>2, <1>3 DEF ShareOK, R
<1>11. ReceiptOK(t)'
  BY <1>2 DEF PurchaseOK, ReceiptOK, R
<1> QED BY <1>6, <1>7, <1>8, <1>9, <1>10, <1>11 DEF PurchaseOK

\* One that fails.
LEMMA FailsOK ==
  ASSUME Types, AtDesk, DraftsApart, Purchases, NEW t \in Tx, Fails(t)
  PROVE  Purchases'
<1>1. \A r \in Ledger : lock'[r] # t
  BY PayablesAssumption DEF Fails, Undone
<1>2. PurchaseOK(t)'
  BY <1>1, OverOK DEF Fails, Ends
<1>3. BillsKept'
  BY BillsStay DEF Fails, Purchases
<1> QED BY <1>2, <1>3, AllKept DEF Fails, Ends, Only, Legal

\* One that goes on.
LEMMA QuietOK ==
  ASSUME Types, AtDesk, DraftsApart, Purchases, NEW t \in Tx, Follows(t),
         Same \/ (\E s \in Supplier : \E v : Wrote(t, s, v)) \/ (\E i \in Purchase : \E v : Pays(t, i, v)),
         tx'[t].pc \in Early => tx[t].pc \in Early /\ Same,
         tx'[t].pc \notin {"edit", "receive"},
         Taking(tx'[t]) <=> Taking(tx[t]),
         Taking(tx[t]) /\ Keeps(tx[t]) => (Before(tx'[t]) <=> Before(tx[t])),
         \A p \in tx'[t].alloc : p.id \in Purchase /\
            (IF R(t).op \in {"deliver", "receive"} THEN Taking(tx[t]) /\ p.id = tx[t].inv
             ELSE com[p.id].status \in Received),
         \A m \in tx'[t].mine : m.kind = "receipt" => m \in tx[t].mine
  PROVE  Purchases'
<1>1. Leaves \/ \E i \in Purchase : \E v : Pays(t, i, v)
  <2>1. CASE Same
    BY <2>1, LeavesFacts
  <2>2. CASE \E s \in Supplier : \E v : Wrote(t, s, v)
    BY <2>2, LeavesFacts
  <2> QED BY <2>1, <2>2
<1>2. PurchaseOK(t)'
  BY <1>1, GoesOnOK DEF Purchases
<1>3. \A i \in Purchase : \A v : Pays(t, i, v) => Smooth(i, v)
  BY DEF Pays, Smooth, Purchases, BillsKept, Received
<1>4. BillsKept'
  BY <1>3, BillsStay DEF Purchases, Pays
<1>5. Legal(t)
  <2>1. Purchase \subseteq Ledger /\ Supplier \subseteq Ledger
    BY DEF Ledger
  <2> QED BY <2>1 DEF Legal, Pays
<1>6. \A u \in Tx : u # t => tx'[u] = tx[u]
  BY DEF Follows, Goes, Only
<1> QED BY <1>2, <1>4, <1>5, <1>6, AllKept

\* .. with what it shared out, at a statement of the same kind.
LEMMA AllocKept ==
  ASSUME Types, Purchases, NEW t \in Tx
  PROVE  \A p \in tx[t].alloc : p.id \in Purchase /\
            (IF R(t).op \in {"deliver", "receive"} THEN Taking(tx[t]) /\ p.id = tx[t].inv
             ELSE com[p.id].status \in Received)
BY BusyFacts DEF Purchases, PurchaseOK, ShareOK

\* Orders.
LEMMA InsertDraftOK ==
  ASSUME Types, AtDesk, DraftsApart, Purchases, NEW t \in Tx, InsertDraft(t)
  PROVE  Purchases'
<1>1. /\ tx[t].pc = "draft" /\ tx[t].req.op = "order" /\ tx'[t].pc \in {"draft", "commit"}
      /\ Follows(t) /\ Plans(t) /\ tx'[t].mine = tx[t].mine
  BY InsertDraftDoes
<1>2. PICK i \in Purchase, s \in Supplier, l \in Lines : Fresh(i) /\ Wrote(t, i, Draft(t, s, l))
  BY InsertDraftDoes
<1>3. PICK v : v = Draft(t, s, l)
  OBVIOUS
<1>4. v.status = "draft"
  BY <1>3 DEF Draft, NoBill
<1>5. i \in Ledger /\ Purchase \subseteq Ledger /\ "draft" \notin Received /\ "none" \notin Received
  BY DEF Ledger, Received
<1>6. cur[i].status = "none" /\ com[i].status = "none"
  BY <1>2, <1>5 DEF Fresh, Types, RowsOK, Row, Ledger
<1>7. ~Taking(tx[t]) /\ ~Taking(tx'[t]) /\ tx'[t].req = tx[t].req
  BY <1>1 DEF Taking, Follows, Goes
<1>8. PurchaseOK(t)'
  <2>1. PurchaseOK(t)
    BY DEF Purchases
  <2>2. HoldsNothing(t)' /\ DraftFound(t)' /\ TakesIn(t)'
    BY <1>1, <1>7 DEF HoldsNothing, DraftFound, TakesIn, Early
  <2>3. TakenOnly(t)'
    BY <1>2, <1>3, <1>4, <1>5, <1>7, <2>1 DEF PurchaseOK, TakenOnly, Wrote
  <2>4. DraftHeld(t)'
    BY <1>2, <1>5, <1>6, <1>7, <2>1 DEF PurchaseOK, DraftHeld, Wrote, R
  <2>5. ShareOK(t)' /\ ReceiptOK(t)'
    <3>1. \A q \in Purchase : com'[q] = com[q]
      BY <1>2, <1>5 DEF Wrote
    <3> QED BY <1>1, <1>7, <2>1, <3>1, AllocKept DEF PurchaseOK, ShareOK, ReceiptOK, R, Plans
  <2> QED BY <2>2, <2>3, <2>4, <2>5 DEF PurchaseOK
<1>9. BillsKept'
  <2>1. Smooth(i, v)
    BY <1>5, <1>6 DEF Smooth
  <2> QED BY <1>2, <1>3, <2>1, BillsStay DEF Purchases
<1>10. Legal(t) /\ \A u \in Tx : u # t => tx'[u] = tx[u]
  BY <1>1, <1>2, <1>5 DEF Legal, Follows, Goes, Only
<1> QED BY <1>8, <1>9, <1>10, AllKept

\* A draft is looked up.
LEMMA FindOrderOK ==
  ASSUME Types, AtDesk, DraftsApart, Purchases, NEW t \in Tx, FindOrder(t)
  PROVE  Purchases'
<1>1. /\ tx[t].pc = "find" /\ tx[t].req.op \in {"edit", "receive"} /\ tx[t].inv = tx[t].req.inv
      /\ tx[t].inv \in Purchase
  BY FindOrderDoes
<1>2. CASE Fails(t)
  BY <1>2, FailsOK
<1>3. CASE ~Fails(t)
  <2>1. /\ Same /\ tx'[t].pc = tx[t].req.op /\ See(t, tx[t].inv).status = "draft"
        /\ Goes(t) /\ Plans(t) /\ tx'[t].inv = tx[t].inv /\ tx'[t].mine = tx[t].mine
        /\ tx'[t].want = See(t, tx[t].inv).lines
    BY <1>3, FindOrderDoes
  <2>2. PurchaseOK(t) /\ Purchase \subseteq Ledger
    BY DEF Purchases, Ledger
  <2>3. \A r \in Ledger : lock[r] # t
    BY <1>1, <2>2 DEF PurchaseOK, HoldsNothing, Early
  <2>4. See(t, tx[t].inv) = com[tx[t].inv]
    BY <1>1, <2>2, <2>3 DEF See, DB!Visible
  <2>5. ~Taking(tx[t]) /\ ~Taking(tx'[t]) /\ tx'[t].req = tx[t].req
    BY <1>1, <2>1 DEF Taking, Goes, Delivery, Paying
  <2>6. \A r \in Ledger : com'[r] = com[r] /\ lock'[r] # t
    BY <2>1, <2>3 DEF Same
  <2>7. PurchaseOK(t)'
    <3>1. HoldsNothing(t)' /\ TakesIn(t)'
      BY <2>5, <2>6 DEF HoldsNothing, TakesIn
    <3>2. DraftFound(t)'
      BY <1>1, <2>1, <2>2, <2>4, <2>6 DEF DraftFound
    <3>3. TakenOnly(t)' /\ DraftHeld(t)'
      BY <2>2, <2>6 DEF TakenOnly, DraftHeld
    <3>4. ShareOK(t)' /\ ReceiptOK(t)'
      BY <2>1, <2>2, <2>5, <2>6, AllocKept DEF PurchaseOK, ShareOK, ReceiptOK, R, Plans
    <3> QED BY <3>1, <3>2, <3>3, <3>4 DEF PurchaseOK
  <2>8. BillsKept'
    BY <2>1, BillsStay DEF Purchases
  <2> QED BY <2>1, <2>7, <2>8, AllKept DEF Legal, Goes, Only
<1> QED BY <1>2, <1>3

\* A draft is rewritten: it still is one.
LEMMA RewriteDraftOK ==
  ASSUME Types, AtDesk, DraftsApart, Purchases, NEW t \in Tx, RewriteDraft(t)
  PROVE  Purchases'
<1> DEFINE i == tx[t].inv
<1>1. /\ tx[t].pc = "edit" /\ tx[t].req.op = "edit" /\ i = tx[t].req.inv /\ i \in Purchase
  BY RewriteDraftDoes
<1>2. CASE Fails(t)
  BY <1>2, FailsOK
<1>3. CASE ~Fails(t)
  <2>1. Carries(t) /\ tx'[t].pc = "commit"
    BY <1>3, RewriteDraftDoes
  <2>2. PICK v \in Bill : Wrote(t, i, v) /\ v.status = "draft" /\ v.sup = cur[i].sup
    BY <1>3, RewriteDraftDoes
  <2>3. PurchaseOK(t) /\ BillsKept /\ Purchase \subseteq Ledger /\ "draft" \notin Received
    BY DEF Purchases, Ledger, Received
  <2>4. \A r \in Ledger : lock[r] # t
    BY <1>1, <2>3 DEF PurchaseOK, HoldsNothing, Early
  <2>5. com[i].status = "draft" /\ cur[i].sup = com[i].sup
    BY <1>1, <2>3 DEF PurchaseOK, DraftFound, BillsKept
  <2>6. ~Taking(tx'[t]) /\ tx'[t].req = tx[t].req
    BY <1>1, <2>1 DEF Taking, Carries, Follows, Goes
  <2>7. \A r \in Ledger : com'[r] = com[r] /\ (lock'[r] = t => r = i) /\ cur'[i] = v
    BY <1>1, <2>2, <2>3, <2>4 DEF Wrote
  <2>8. PurchaseOK(t)'
    <3>1. HoldsNothing(t)' /\ TakesIn(t)' /\ DraftFound(t)'
      BY <2>1, <2>6 DEF HoldsNothing, TakesIn, DraftFound, Early
    <3>2. TakenOnly(t)'
      BY <2>2, <2>3, <2>7 DEF TakenOnly
    <3>3. DraftHeld(t)'
      BY <1>1, <2>3, <2>6, <2>7 DEF DraftHeld, R
    <3>4. ShareOK(t)' /\ ReceiptOK(t)'
      <4>1. ~Taking(tx[t])
        BY <1>1 DEF Taking
      <4> QED BY <1>1, <2>1, <2>3, <2>6, <2>7, <4>1, AllocKept DEF PurchaseOK, ShareOK, ReceiptOK, R, Plans, Carries
    <3> QED BY <3>1, <3>2, <3>3, <3>4 DEF PurchaseOK
  <2>9. BillsKept'
    <3>1. Smooth(i, v)
      BY <2>2, <2>3, <2>5 DEF Smooth
    <3> QED BY <1>1, <2>2, <2>3, <3>1, BillsStay
  <2> QED BY <1>1, <2>1, <2>2, <2>3, <2>8, <2>9, AllKept DEF Legal, Carries, Follows, Goes, Only
<1> QED BY <1>2, <1>3

\* One is deleted.
LEMMA DeleteDraftOK ==
  ASSUME Types, AtDesk, DraftsApart, Purchases, NEW t \in Tx, DeleteDraft(t)
  PROVE  Purchases'
<1>1. /\ tx[t].pc = "drop" /\ tx[t].req.op = "drop" /\ tx[t].inv = tx[t].req.inv /\ tx[t].inv \in Purchase
      /\ Ends(t)
  BY DeleteDraftDoes
<1>2. PICK i \in Purchase : i = tx[t].inv
  BY <1>1
<1>3. PICK v \in Bill : /\ Changes(i, v)
                        /\ v = com[i] \/ (com[i].status = "draft" /\ v.status = "gone")
                        /\ v.sup = com[i].sup
  BY <1>2, DeleteDraftDoes
<1>4. PurchaseOK(t) /\ BillsKept /\ "draft" \notin Received /\ Purchase \subseteq Ledger
  BY DEF Purchases, Received, Ledger
<1>5. \A q \in Ledger : lock'[q] # t
  <2>1. \A q \in Ledger : lock[q] # t
    BY <1>1, <1>4 DEF PurchaseOK, HoldsNothing, Early
  <2>2. \A q \in Ledger : lock'[q] = lock[q]
    BY <1>3 DEF Changes
  <2> QED BY <2>1, <2>2
<1>6. PurchaseOK(t)'
  BY <1>1, <1>5, OverOK DEF Ends
<1>7. Smooth(i, v)
  BY <1>3, <1>4 DEF Smooth
<1>8. BillsKept'
  BY <1>3, <1>4, <1>7, BillsStay
<1>9. Legal(t)
  <2>1. com[i].status \in Received => v.status \in Received
    BY <1>3, <1>4
  <2>2. Busy(t) /\ R(t).op = "drop" /\ R(t).inv = i
    BY <1>1, <1>2 DEF Busy, R
  <2> QED BY <1>3, <2>1, <2>2 DEF Legal
<1> QED BY <1>1, <1>6, <1>8, <1>9, AllKept DEF Ends, Only

\* A delivery's purchase is taken in: nothing is held beside it.
LEMMA TakesInOK ==
  ASSUME Types, AtDesk, DraftsApart, Purchases, NEW t \in Tx, NEW i \in Purchase, NEW v \in Bill,
         tx[t].pc \in {"insert", "receive"}, tx[t].req.op = IF tx[t].pc = "insert" THEN "deliver" ELSE "receive",
         Goes(t), Plans(t), tx'[t].want = tx[t].want, tx'[t].pc = "bill", tx'[t].inv = i,
         Wrote(t, i, v), v.status \in Received, v.total = Worth(tx[t].req.lines),
         tx[t].pc = "insert" => com[i].status = "none" /\ v.sup = tx[t].req.sup,
         tx[t].pc = "receive" => /\ tx[t].inv = i /\ tx[t].req.inv = i /\ v.sup = com[i].sup,
         NEW s, tx'[t].mine = {NewReceipt(t, i, s)}
  PROVE  Purchases'
<1>1. PurchaseOK(t) /\ BillsKept /\ Purchase \subseteq Ledger /\ i \in Ledger
      /\ "draft" \notin Received /\ "none" \notin Received
  BY DEF Purchases, Received, Ledger
<1>2. \A q \in Ledger : lock[q] # t
  BY <1>1 DEF PurchaseOK, HoldsNothing, Early
<1>3. tx[t].pc = "receive" => com[i].status = "draft" /\ tx[t].want = com[i].lines
  BY <1>1 DEF PurchaseOK, DraftFound
<1>4. /\ lock'[i] = t /\ cur'[i] = v /\ \A q \in Purchase : com'[q] = com[q] /\ (lock'[q] = t => q = i)
  BY <1>1, <1>2 DEF Wrote
<1>5. tx'[t].req = tx[t].req /\ ~Taking(tx[t]) /\ Taking(tx'[t]) /\ Before(tx'[t])
  BY DEF Goes, Taking, Before, Delivery, Paying
<1>6. tx[t].alloc = {} /\ tx'[t].alloc = {}
  BY <1>1, <1>5 DEF PurchaseOK, ShareOK, Plans, R
<1>7. PurchaseOK(t)'
  <2>1. HoldsNothing(t)' /\ DraftFound(t)'
    BY DEF HoldsNothing, DraftFound, Early
  <2>2. TakesIn(t)'
    <3>1. Remains(t)'
      BY <1>4, <1>5 DEF Remains
    <3> QED BY <1>3, <1>4, <1>5, <3>1 DEF TakesIn
  <2>3. TakenOnly(t)'
    BY <1>4, <1>5 DEF TakenOnly
  <2>4. DraftHeld(t)'
    BY <1>1, <1>4, <1>5 DEF DraftHeld, R
  <2>5. ShareOK(t)'
    BY <1>6 DEF ShareOK
  <2>6. ReceiptOK(t)'
    <3>1. PICK k : k = (tx[t].req.op = "receive" /\ tx[t].req.keep)
      OBVIOUS
    <3>2. PICK l : l = tx[t].req.lines
      OBVIOUS
    <3>3. NewReceipt(t, i, s) = [kind |-> "receipt", inv |-> i, sup |-> s, lines |-> l, by |-> tx[t].at, keep |-> k]
      BY <3>1, <3>2, Zenon DEF NewReceipt, R
    <3>4. \A m \in tx'[t].mine : m.lines = l /\ m.keep = k
      BY <3>3
    <3> QED BY <1>5, <3>1, <3>2, <3>4, Zenon DEF ReceiptOK, R
  <2> QED BY <2>1, <2>2, <2>3, <2>4, <2>5, <2>6 DEF PurchaseOK
<1>8. BillsKept'
  <2>1. Smooth(i, v)
    BY <1>1, <1>3 DEF Smooth
  <2> QED BY <1>1, <2>1, BillsStay
<1>9. Legal(t) /\ \A u \in Tx : u # t => tx'[u] = tx[u]
  BY <1>1 DEF Legal, Goes, Only
<1> QED BY <1>7, <1>8, <1>9, AllKept

\* Goods without an order.
LEMMA InsertPurchaseOK ==
  ASSUME Types, AtDesk, DraftsApart, Purchases, NEW t \in Tx, InsertPurchase(t)
  PROVE  Purchases'
<1>1. PICK i \in Purchase, v \in Bill :
         /\ tx'[t].inv = i /\ Fresh(i) /\ Wrote(t, i, v) /\ tx'[t].mine = {NewReceipt(t, i, tx[t].req.sup)}
         /\ v.status = ReceivedStatus(0, v.total) /\ v.sup = tx[t].req.sup
         /\ v.total = Worth(tx[t].req.lines)
  BY InsertPurchaseDoes
<1>2. v.status \in Received
  BY <1>1 DEF ReceivedStatus, Received
<1>3. com[i].status = "none"
  BY <1>1 DEF Fresh, Types, RowsOK, Row
<1> QED BY <1>1, <1>2, <1>3, InsertPurchaseDoes, TakesInOK

\* The goods of a draft.
LEMMA UpdateHeaderOK ==
  ASSUME Types, AtDesk, DraftsApart, Purchases, NEW t \in Tx, UpdateHeader(t)
  PROVE  Purchases'
<1>1. /\ tx[t].pc = "receive" /\ tx[t].req.op = "receive" /\ tx[t].inv = tx[t].req.inv /\ tx[t].inv \in Purchase
  BY UpdateHeaderDoes
<1>2. PICK i \in Purchase : i = tx[t].inv
  BY <1>1
<1>3. CASE Fails(t)
  BY <1>3, FailsOK
<1>4. CASE ~Fails(t)
  <2>1. /\ Follows(t) /\ Plans(t) /\ tx'[t].pc = "bill" /\ tx'[t].mine = {NewReceipt(t, i, cur[i].sup)}
    BY <1>2, <1>4, UpdateHeaderDoes
  <2>2. PICK v \in Bill : /\ Wrote(t, i, v) /\ v.status = ReceivedStatus(0, v.total)
                          /\ v.sup = cur[i].sup /\ v.total = Worth(tx[t].req.lines)
    BY <1>2, <1>4, UpdateHeaderDoes
  <2>3. v.status \in Received
    BY <2>2 DEF ReceivedStatus, Received
  <2>4. cur[i].sup = com[i].sup
    BY <1>1, <1>2 DEF Purchases, PurchaseOK, DraftFound, BillsKept
  <2>5. Goes(t) /\ tx'[t].want = tx[t].want /\ tx'[t].inv = i
    BY <1>2, <2>1 DEF Follows
  <2> QED BY <1>1, <1>2, <2>1, <2>2, <2>3, <2>4, <2>5, TakesInOK
<1> QED BY <1>3, <1>4

\* The remainder's draft is held beside it.
LEMMA KeepRemainderOK ==
  ASSUME Types, AtDesk, DraftsApart, Purchases, NEW t \in Tx, KeepRemainder(t)
  PROVE  Purchases'
<1> DEFINE rest == RemainderLines(tx[t].want, tx[t].req.lines)
<1>1. tx[t].pc = "remainder" /\ tx'[t].pc = "now" /\ Carries(t) /\ rest \in Lines
  BY KeepRemainderDoes
<1>2. /\ tx'[t].req = tx[t].req /\ tx'[t].inv = tx[t].inv /\ tx'[t].want = tx[t].want
      /\ tx'[t].alloc = tx[t].alloc /\ tx'[t].mine = tx[t].mine
  BY <1>1 DEF Carries, Follows, Goes, Plans
<1>3. PurchaseOK(t) /\ BillsKept /\ Purchase \subseteq Ledger
      /\ "draft" \notin Received /\ "none" \notin Received
  BY DEF Purchases, Received, Ledger
<1>4. /\ Taking(tx[t]) <=> tx[t].req.op \in {"deliver", "receive"}
      /\ Taking(tx'[t]) <=> tx[t].req.op \in {"deliver", "receive"}
      /\ Before(tx[t]) /\ ~Before(tx'[t]) /\ (Keeps(tx'[t]) <=> Keeps(tx[t]))
  BY <1>1, <1>2 DEF Taking, Before, Delivery, Keeps
<1>5. CASE Keeps(tx[t])
  <2> DEFINE k == tx[t].inv
  <2>1. PICK d \in Purchase : Fresh(d) /\ Wrote(t, d, Draft(t, Sup(t), rest))
    BY <1>5, KeepRemainderDoes
  <2>2. PICK v : v = Draft(t, Sup(t), rest)
    OBVIOUS
  <2>3. v.status = "draft" /\ v.lines = rest
    BY <2>2 DEF Draft, NoBill
  <2>4. cur[d].status = "none" /\ com[d].status = "none" /\ lock[d] = NoTx
    BY <2>1 DEF Fresh, Types, RowsOK, Row
  <2>5. Taking(tx[t]) /\ tx[t].req.op = "receive"
    BY <1>4, <1>5 DEF Keeps
  <2>6. /\ k \in Purchase /\ lock[k] = t /\ cur[k].status \in Received
        /\ cur[k].total = Worth(tx[t].req.lines) /\ com[k].status = "draft" /\ tx[t].want = com[k].lines
        /\ \A j \in Purchase : lock[j] = t => j = k
    BY <1>3, <1>4, <2>5 DEF PurchaseOK, TakesIn, Remains
  <2>7. d # k
    BY <2>4, <2>6
  <2>8. /\ lock'[d] = t /\ cur'[d] = v /\ \A q \in Purchase : com'[q] = com[q]
        /\ \A q \in Purchase : q # d => cur'[q] = cur[q] /\ lock'[q] = lock[q]
    BY <1>3, <2>1, <2>2 DEF Wrote
  <2>9. PurchaseOK(t)'
    <3>1. HoldsNothing(t)' /\ DraftFound(t)'
      BY <1>1 DEF HoldsNothing, DraftFound, Early
    <3>2. Remains(t)'
      BY <1>2, <1>4, <1>5, <2>3, <2>4, <2>6, <2>7, <2>8 DEF Remains
    <3>3. TakesIn(t)'
      BY <1>2, <1>4, <2>5, <2>6, <2>7, <2>8, <3>2 DEF TakesIn
    <3>4. TakenOnly(t)'
      BY <1>2, <1>3, <1>4, <2>3, <2>5, <2>6, <2>8 DEF TakenOnly
    <3>5. DraftHeld(t)'
      BY <1>2, <1>3, <2>4, <2>8 DEF PurchaseOK, DraftHeld, R
    <3>6. ShareOK(t)' /\ ReceiptOK(t)'
      BY <1>2, <1>3, <1>4, <2>5, <2>8 DEF PurchaseOK, ShareOK, ReceiptOK, R
    <3> QED BY <3>1, <3>2, <3>3, <3>4, <3>5, <3>6 DEF PurchaseOK
  <2>10. BillsKept'
    <3>1. Smooth(d, v)
      BY <1>3, <2>4 DEF Smooth
    <3> QED BY <1>3, <2>1, <2>2, <3>1, BillsStay
  <2>11. Legal(t) /\ \A u \in Tx : u # t => tx'[u] = tx[u]
    BY <1>1, <1>3, <2>1 DEF Legal, Carries, Follows, Goes, Only
  <2> QED BY <2>9, <2>10, <2>11, AllKept
<1>6. CASE ~Keeps(tx[t])
  <2>1. Same
    BY <1>6, KeepRemainderDoes
  <2>2. tx'[t].pc \notin Early /\ tx'[t].pc \notin {"edit", "receive"} /\ (Taking(tx'[t]) <=> Taking(tx[t]))
    BY <1>1, <1>4 DEF Early
  <2>3. Follows(t)
    BY <1>1 DEF Carries
  <2> QED BY <1>2, <1>6, <2>1, <2>2, <2>3, AllocKept, QuietOK
<1> QED BY <1>5, <1>6

\* The statements after the first row is written.
Later == Delivery \cup Paying \cup {"load", "move", "commit"}

\* One of them after another.
LEMMA LaterOK ==
  ASSUME Types, AtDesk, DraftsApart, Purchases, NEW t \in Tx, Follows(t),
         tx[t].pc \in Later, tx'[t].pc \in Later, Before(tx'[t]) <=> Before(tx[t]),
         Same \/ (\E s \in Supplier : \E v : Wrote(t, s, v)) \/ (\E i \in Purchase : \E v : Pays(t, i, v)),
         \A p \in tx'[t].alloc : \E q \in tx[t].alloc : q.id = p.id,
         \A m \in tx'[t].mine : m.kind = "receipt" => m \in tx[t].mine
  PROVE  Purchases'
<1>1. tx'[t].req = tx[t].req
  BY DEF Follows, Goes
<1>2. tx'[t].pc \notin Early /\ tx'[t].pc \notin {"edit", "receive"}
  BY DEF Later, Early, Delivery, Paying
<1>3. Taking(tx'[t]) <=> Taking(tx[t])
  BY <1>1 DEF Taking, Later
<1>4. \A p \in tx'[t].alloc : p.id \in Purchase /\
            (IF R(t).op \in {"deliver", "receive"} THEN Taking(tx[t]) /\ p.id = tx[t].inv
             ELSE com[p.id].status \in Received)
  BY AllocKept
<1> QED BY <1>2, <1>3, <1>4, QuietOK

\* One that is not about a purchase taken in.
LEMMA OtherOK ==
  ASSUME Types, AtDesk, DraftsApart, Purchases, NEW t \in Tx, Follows(t),
         tx[t].req.op \notin {"deliver", "receive"} \/ (tx[t].pc \notin Later /\ tx'[t].pc \notin Later),
         Same \/ (\E s \in Supplier : \E v : Wrote(t, s, v)) \/ (\E i \in Purchase : \E v : Pays(t, i, v)),
         tx'[t].pc \in Early => tx[t].pc \in Early /\ Same,
         tx'[t].pc \notin {"edit", "receive"},
         \/ \A p \in tx'[t].alloc : \E q \in tx[t].alloc : q.id = p.id
         \/ tx[t].req.op \notin {"deliver", "receive"} /\
               \A p \in tx'[t].alloc : p.id \in Purchase /\ com[p.id].status \in Received,
         \A m \in tx'[t].mine : m.kind = "receipt" => m \in tx[t].mine
  PROVE  Purchases'
<1>1. tx'[t].req = tx[t].req
  BY DEF Follows, Goes
<1>2. ~Taking(tx'[t]) /\ ~Taking(tx[t])
  BY <1>1 DEF Taking, Later
<1>3. \A p \in tx'[t].alloc : p.id \in Purchase /\
            (IF R(t).op \in {"deliver", "receive"} THEN Taking(tx[t]) /\ p.id = tx[t].inv
             ELSE com[p.id].status \in Received)
  BY AllocKept DEF R
<1> QED BY <1>2, <1>3, QuietOK

\* An open purchase is taken in for good, if t takes none in itself.
LEMMA OpenBooked ==
  ASSUME Types, Purchases, NEW t \in Tx, ~Taking(tx[t]), NEW s
  PROVE  \A p \in OpenOf(t, s) : p.id \in Purchase /\ com[p.id].status \in Received
<1> SUFFICES ASSUME NEW p \in OpenOf(t, s) PROVE p.id \in Purchase /\ com[p.id].status \in Received
  OBVIOUS
<1>1. p.id \in Purchase /\ See(t, p.id).status \in Received
  BY OpenOfFacts
<1>2. CASE lock[p.id] = t
  BY <1>1, <1>2 DEF See, DB!Visible, Purchases, PurchaseOK, TakenOnly
<1>3. CASE lock[p.id] # t
  BY <1>1, <1>3 DEF See, DB!Visible
<1> QED BY <1>1, <1>2, <1>3

\* The statements of a delivery once its purchase is written.
LEMMA DeliveryOK ==
  ASSUME Types, AtDesk, DraftsApart, Purchases, NEW t \in Tx,
         AddPayable(t) \/ ReadCredit(t) \/ DrawAdvances(t) \/ DrawReturns(t) \/ PayNow(t)
  PROVE  Purchases'
<1>1. TxOK(tx[t], served) /\ RowsOK
  BY AtFacts
<1>2. CASE AddPayable(t)
  <2>1. tx[t].pc = "bill" /\ tx'[t].pc = "credit" /\ Carries(t)
    BY <1>2, AddPayableDoes
  <2>2. Sup(t) \in Supplier
    <3>1. tx[t].req \in Request /\ tx[t].req.op \in {"deliver", "receive"} /\ tx[t].inv \in Purchase
      BY <1>1, <2>1 DEF TxOK, Shape, Delivery
    <3> QED BY <3>1, SupplierOf
  <2>3. Same \/ \E s \in Supplier : \E v : Wrote(t, s, v)
    BY <1>2, <2>2, AddPayableDoes
  <2> QED BY <2>1, <2>3, LaterOK DEF Carries, Plans, Later, Before, Delivery
<1>3. CASE ReadCredit(t)
  <2>1. /\ tx[t].pc = "credit" /\ Follows(t) /\ Plans(t) /\ Same /\ tx'[t].mine = tx[t].mine
        /\ tx'[t].pc \in {"advances", "remainder"}
    BY <1>3, ReadCreditDoes
  <2> QED BY <2>1, LaterOK DEF Plans, Later, Before, Delivery
<1>4. CASE DrawAdvances(t) \/ DrawReturns(t)
  <2> DEFINE i == tx[t].inv
  <2>1. PICK of : of = IF tx[t].pc = "advances" THEN "payment" ELSE "return"
    OBVIOUS
  <2>2. PICK parts : /\ tx[t].pc \in {"advances", "credits"} /\ Follows(t) /\ Plans(t)
                     /\ tx'[t].pc = IF of = "payment" THEN "credits" ELSE "remainder"
                     /\ Given(parts) \in Nat /\ DrawsOn(t, of, parts)
    BY <1>4, <2>1, DrawDoes
  <2>3. tx[t].req.op \in {"deliver", "receive"} /\ i \in Purchase
    BY <1>1, <2>2 DEF TxOK, Shape, Delivery
  <2>4. Taking(tx[t])
    BY <2>2, <2>3 DEF Taking, Delivery
  <2>5. cur[i].status \in Received /\ cur[i] \in Bill
    BY <1>1, <2>3, <2>4 DEF RowsOK, Purchases, PurchaseOK, TakesIn
  <2>6. Same \/ \E v : Pays(t, i, v)
    <3>1. CASE parts = {}
      BY <2>2, <3>1 DEF DrawsOn
    <3>2. CASE parts # {}
      <4>1. PICK v \in Bill : /\ Wrote(t, i, v) /\ v.sup = cur[i].sup /\ v.total = cur[i].total
                              /\ IF of = "payment" THEN v = PaidMore(cur[i], Given(parts))
                                 ELSE v.status = cur[i].status
        BY <2>2, <3>2 DEF DrawsOn
      <4>2. v.status \in Received
        <5>1. PICK g \in Int, b \in Bill : g = Given(parts) /\ b = cur[i]
          BY <2>2, <2>5
        <5>2. PaidMore(b, g).status \in Received
          BY BillFields DEF Received
        <5> QED BY <2>5, <4>1, <5>1, <5>2
      <4> QED BY <2>4, <2>5, <4>1, <4>2 DEF Pays
    <3> QED BY <3>1, <3>2
  <2>7. \A m \in tx'[t].mine : m.kind = "receipt" => m \in tx[t].mine
    <3>1. \A m \in Draws(t, of, parts) : m.kind = "allocation"
      BY DEF Draws
    <3> QED BY <2>2, <3>1 DEF DrawsOn
  <2> QED BY <2>2, <2>3, <2>6, <2>7, LaterOK DEF Plans, Later, Before, Delivery
<1>5. CASE PayNow(t)
  <2>1. /\ tx[t].pc = "now" /\ Same /\ Follows(t) /\ tx'[t].mine = tx[t].mine
        /\ \/ tx'[t].pc = "commit" /\ tx'[t].alloc = tx[t].alloc
           \/ \E n \in Nat \ {0} : tx'[t].pc = "load" /\ tx'[t].alloc = {[id |-> tx[t].inv, at |-> 0, n |-> n]}
    BY <1>5, PayNowDoes
  <2>2. tx[t].req.op \in {"deliver", "receive"} /\ tx[t].inv \in Purchase
    BY <1>1, <2>1 DEF TxOK, Shape, Delivery
  <2>3. Taking(tx[t]) /\ ~Before(tx[t])
    BY <2>1, <2>2 DEF Taking, Delivery, Before
  <2>4. Taking(tx'[t]) /\ ~Before(tx'[t]) /\ tx'[t].pc \notin Early /\ tx'[t].pc \notin {"edit", "receive"}
    BY <2>1, <2>2 DEF Taking, Before, Delivery, Follows, Goes, Early
  <2>5. \A p \in tx'[t].alloc : p.id \in Purchase /\
            (IF R(t).op \in {"deliver", "receive"} THEN Taking(tx[t]) /\ p.id = tx[t].inv
             ELSE com[p.id].status \in Received)
    BY <2>1, <2>2, <2>3, AllocKept DEF R
  <2> QED BY <2>1, <2>3, <2>4, <2>5, QuietOK
<1> QED BY <1>2, <1>3, <1>4, <1>5

\* Payments.
LEMMA PaymentOK ==
  ASSUME Types, AtDesk, DraftsApart, Purchases, NEW t \in Tx,
         OpenInvoices(t) \/ ShareOut(t) \/ LoadSupplier(t) \/ ApplyPayment(t) \/ PayOldDebt(t) \/ SettleRest(t)
  PROVE  Purchases'
<1>1. TxOK(tx[t], served) /\ RowsOK
  BY AtFacts
<1>2. CASE OpenInvoices(t)
  <2>1. /\ tx[t].pc = "plan" /\ tx[t].req.op = "pay" /\ tx'[t].pc = "share" /\ Same /\ Follows(t)
        /\ tx'[t].mine = tx[t].mine /\ tx'[t].alloc = OpenOf(t, tx[t].req.sup)
    BY <1>2, OpenInvoicesDoes
  <2>2. \A p \in tx'[t].alloc : p.id \in Purchase /\ com[p.id].status \in Received
    BY <2>1, OpenBooked DEF Taking
  <2> QED BY <2>1, <2>2, OtherOK DEF Early
<1>3. CASE ShareOut(t)
  <2>1. /\ tx[t].pc = "share" /\ tx[t].req.op = "pay" /\ tx'[t].pc \in {"source", "load"}
        /\ Same /\ Follows(t) /\ tx'[t].mine = tx[t].mine
        /\ \A p \in tx'[t].alloc : \E q \in tx[t].alloc : q.id = p.id
    BY <1>3, ShareOutDoes
  <2> QED BY <2>1, OtherOK DEF Early
<1>4. CASE LoadSupplier(t)
  <2>1. /\ tx[t].pc = "load" /\ Same /\ Follows(t) /\ tx'[t].alloc = tx[t].alloc
        /\ \E x : NextPart(x, tx'[t].pc)
        /\ \E d \in Document : d.kind = "payment" /\ tx'[t].mine = tx[t].mine \cup {d}
    BY <1>4, LoadSupplierDoes
  <2>2. tx'[t].pc \in Later /\ ~Before(tx'[t]) /\ tx[t].pc \in Later /\ ~Before(tx[t])
    BY <2>1 DEF NextPart, Later, Before, Delivery, Paying
  <2>3. \A m \in tx'[t].mine : m.kind = "receipt" => m \in tx[t].mine
    BY <2>1
  <2> QED BY <2>1, <2>2, <2>3, LaterOK
<1>5. CASE ApplyPayment(t)
  <2>1. CASE Fails(t)
    BY <2>1, FailsOK
  <2>2. CASE ~Fails(t)
    <3>1. tx[t].pc = "apply"
      BY <1>5, ApplyPaymentDoes
    <3>2. PICK p \in tx[t].alloc :
                 /\ Wrote(t, p.id, PaidMore(cur[p.id], p.n))
                 /\ Follows(t) /\ tx'[t].alloc = tx[t].alloc \ {p}
                 /\ tx'[t].mine = tx[t].mine \cup {UseOf(t, "payment", p.id, p.n)}
                 /\ \E x : NextPart(x, tx'[t].pc)
      BY <1>5, <2>2, ApplyPaymentDoes
    <3>3. tx'[t].pc \in Later /\ ~Before(tx'[t]) /\ tx[t].pc \in Later /\ ~Before(tx[t])
      BY <3>1, <3>2 DEF NextPart, Later, Before, Delivery, Paying
    <3>4. PICK i \in Purchase, n \in Int, b \in Bill : i = p.id /\ n = p.n /\ b = cur[i]
      BY <1>1, PartFields DEF RowsOK
    <3>5. /\ PaidMore(b, n).status \in Received /\ PaidMore(b, n).total = b.total /\ PaidMore(b, n).sup = b.sup
      BY BillFields DEF Received
    <3>6. IF Taking(tx[t]) THEN i = tx[t].inv ELSE com[i].status \in Received
      BY <3>2, <3>4, AllocKept DEF Taking, R
    <3>7. cur[i].status \in Received
      BY <3>6 DEF Purchases, PurchaseOK, TakesIn, BillsKept
    <3>8. Pays(t, i, PaidMore(b, n))
      BY <3>2, <3>4, <3>5, <3>6, <3>7 DEF Pays
    <3>9. \A m \in tx'[t].mine : m.kind = "receipt" => m \in tx[t].mine
      <4>1. UseOf(t, "payment", p.id, p.n).kind = "allocation"
        BY DEF UseOf
      <4> QED BY <3>2, <4>1
    <3> QED BY <3>2, <3>3, <3>8, <3>9, LaterOK
  <2> QED BY <2>1, <2>2
<1>6. CASE PayOldDebt(t)
  <2>1. CASE Fails(t)
    BY <2>1, FailsOK
  <2>2. CASE ~Fails(t)
    <3>1. /\ tx[t].pc = "old" /\ Sup(t) \in Supplier /\ Wrote(t, Sup(t), PayOpening(cur[Sup(t)], tx[t].old))
          /\ Follows(t) /\ tx'[t].alloc = tx[t].alloc /\ tx'[t].mine = tx[t].mine
          /\ \E x : NextPart(x, tx'[t].pc)
      BY <1>6, <2>2, PayOldDebtDoes
    <3>2. tx'[t].pc \in Later /\ ~Before(tx'[t]) /\ tx[t].pc \in Later /\ ~Before(tx[t])
      BY <3>1 DEF NextPart, Later, Before, Delivery, Paying
    <3> QED BY <3>1, <3>2, LaterOK
  <2> QED BY <2>1, <2>2
<1>7. CASE SettleRest(t)
  <2>1. /\ tx[t].pc = "settle" /\ Sup(t) \in Supplier /\ Carries(t) /\ tx'[t].pc \in {"move", "commit"}
        /\ Wrote(t, Sup(t), AddBalance(cur[Sup(t)], -tx[t].rest))
    BY <1>7, SettleRestDoes
  <2>2. tx'[t].pc \in Later /\ ~Before(tx'[t]) /\ tx[t].pc \in Later /\ ~Before(tx[t])
    BY <2>1 DEF Later, Before, Delivery, Paying
  <2> QED BY <2>1, <2>2, LaterOK DEF Carries, Plans
<1> QED BY <1>2, <1>3, <1>4, <1>5, <1>6, <1>7

\* Money, returns and refunds.
LEMMA MoneyOK ==
  ASSUME Types, AtDesk, DraftsApart, Purchases, NEW t \in Tx,
         \/ CounterSource(t) \/ InsertExpense(t) \/ MoveTx(t) \/ DebitNote(t) \/ ListOpen(t)
         \/ ApplyCredit(t) \/ ReadOwed(t) \/ TakeRefund(t)
  PROVE  Purchases'
<1>1. TxOK(tx[t], served) /\ RowsOK
  BY AtFacts
<1>2. Fails(t) => Purchases'
  BY FailsOK
<1>3. CASE CounterSource(t)
  <2>1. /\ tx[t].pc = "source" /\ tx[t].req.op \in {"deliver", "receive", "pay", "refund"}
        /\ \/ Fails(t)
           \/ /\ Carries(t) /\ Same /\ tx'[t].pc \in {"insert", "find", "load", "ask"}
              /\ tx'[t].pc = "load" => tx[t].req.op = "pay"
    BY <1>3, CounterSourceDoes
  <2> QED BY <1>2, <2>1, OtherOK DEF Carries, Plans, Early, Later, Delivery, Paying
<1>4. CASE InsertExpense(t)
  <2>1. /\ tx[t].pc = "expense" /\ tx[t].req.op = "expense" /\ tx'[t].pc = "move" /\ Same
        /\ Follows(t) /\ Plans(t) /\ \A m \in tx'[t].mine : m.kind = "expense"
    BY <1>4, InsertExpenseDoes
  <2> QED BY <2>1, OtherOK DEF Plans, Early
<1>5. CASE MoveTx(t)
  <2>1. CASE Fails(t)
    BY <1>2, <2>1
  <2>2. CASE ~Fails(t)
    <3>1. tx[t].pc = "move" /\ Follows(t) /\ Plans(t) /\ Same /\ tx'[t].pc = "commit"
      BY <1>5, <2>2, MoveTxDoes
    <3>2. PICK m : m.kind = "move" /\ tx'[t].mine = tx[t].mine \cup {m}
      BY <1>5, <2>2, MoveTxDoes
    <3>3. \A q \in tx'[t].mine : q.kind = "receipt" => q \in tx[t].mine
      BY <3>2
    <3> QED BY <3>1, <3>3, LaterOK DEF Plans, Later, Before, Delivery
  <2> QED BY <2>1, <2>2
<1>6. CASE DebitNote(t)
  <2>1. /\ tx[t].pc = "debit" /\ tx[t].req.op = "return" /\ tx[t].req.sup \in Supplier
        /\ tx'[t].pc = "open" /\ Follows(t) /\ Plans(t)
        /\ Wrote(t, tx[t].req.sup, AddBalance(cur[tx[t].req.sup], -tx[t].req.amount))
        /\ \E d \in Document : tx'[t].mine = {d} /\ d.kind = "return"
    BY <1>6, DebitNoteDoes
  <2>2. \A m \in tx'[t].mine : m.kind # "receipt"
    BY <2>1
  <2> QED BY <2>1, <2>2, OtherOK DEF Plans, Early
<1>7. CASE ListOpen(t)
  <2>1. /\ tx[t].pc = "open" /\ tx[t].req.op = "return" /\ Same /\ Follows(t) /\ tx'[t].mine = tx[t].mine
        /\ tx'[t].alloc = OpenOf(t, tx[t].req.sup) /\ tx'[t].pc \in {"commit", "spend"}
    BY <1>7, ListOpenDoes
  <2>2. \A p \in tx'[t].alloc : p.id \in Purchase /\ com[p.id].status \in Received
    BY <2>1, OpenBooked DEF Taking
  <2> QED BY <2>1, <2>2, OtherOK DEF Early
<1>8. CASE ApplyCredit(t)
  <2>1. tx[t].pc = "spend" /\ tx[t].req.op = "return"
    BY <1>8, ApplyCreditDoes
  <2>2. PICK part \in tx[t].alloc, n \in Int, v \in Bill :
              /\ Wrote(t, part.id, v) /\ v.sup = cur[part.id].sup /\ v.total = cur[part.id].total
              /\ v.status = cur[part.id].status
              /\ Follows(t) /\ tx'[t].alloc = tx[t].alloc \ {part}
              /\ tx'[t].mine = tx[t].mine \cup (IF n > 0 THEN {UseOf(t, "return", part.id, n)} ELSE {})
              /\ tx'[t].pc \in {"commit", "spend"}
    BY <1>8, ApplyCreditDoes
  <2>3. PICK i \in Purchase : i = part.id
    BY PartFields
  <2>4. com[i].status \in Received /\ ~Taking(tx[t])
    BY <2>1, <2>2, <2>3, AllocKept DEF R, Taking
  <2>5. cur[i].status \in Received
    BY <2>4 DEF Purchases, BillsKept
  <2>6. Pays(t, i, v)
    BY <2>2, <2>3, <2>4, <2>5 DEF Pays
  <2>7. \A m \in tx'[t].mine : m.kind = "receipt" => m \in tx[t].mine
    <3>1. UseOf(t, "return", part.id, n).kind = "allocation"
      BY DEF UseOf
    <3> QED BY <2>2, <3>1
  <2> QED BY <2>1, <2>2, <2>6, <2>7, OtherOK DEF Early
<1>9. CASE ReadOwed(t)
  <2>1. /\ tx[t].pc = "ask" /\ tx[t].req.op = "refund"
        /\ Fails(t) \/ (Carries(t) /\ Same /\ tx'[t].pc = "refund")
    BY <1>9, ReadOwedDoes
  <2> QED BY <1>2, <2>1, OtherOK DEF Carries, Plans, Early
<1>10. CASE TakeRefund(t)
  <2>1. /\ tx[t].pc = "refund" /\ tx[t].req.op = "refund" /\ tx[t].req.sup \in Supplier
        /\ tx'[t].pc \in {"move", "commit"} /\ Follows(t) /\ Plans(t)
        /\ Wrote(t, tx[t].req.sup, AddBalance(cur[tx[t].req.sup], tx[t].req.amount))
        /\ \E d \in Document : tx'[t].mine = {d} /\ d.kind = "refund"
    BY <1>10, TakeRefundDoes
  <2>2. \A m \in tx'[t].mine : m.kind # "receipt"
    BY <2>1
  <2> QED BY <2>1, <2>2, OtherOK DEF Plans, Early
<1> QED BY <1>3, <1>4, <1>5, <1>6, <1>7, <1>8, <1>9, <1>10

\* How a transaction goes on or ends.
LEMMA GoesOrEnds ==
  ASSUME Types, NEW t \in Tx, Step(t) \/ Cancel(t)
  PROVE  Goes(t) \/ Ends(t) \/ Files(t)
<1>1. Cancel(t) \/ Adjust(t) \/ DeleteDraft(t) => Ends(t)
  BY FailDoes, AdjustDoes, DeleteDraftDoes DEF Cancel, Fails
<1>2. InsertDraft(t) \/ FindOrder(t) \/ RewriteDraft(t) \/ InsertPurchase(t) \/ UpdateHeader(t) => Goes(t) \/ Ends(t)
  BY InsertDraftDoes, FindOrderDoes, RewriteDraftDoes, InsertPurchaseDoes, UpdateHeaderDoes
  DEF Carries, Follows, Fails
<1>3. AddPayable(t) \/ ReadCredit(t) \/ KeepRemainder(t) \/ PayNow(t) => Goes(t)
  BY AddPayableDoes, ReadCreditDoes, KeepRemainderDoes, PayNowDoes DEF Carries, Follows
<1>4. DrawAdvances(t) \/ DrawReturns(t) => Goes(t)
  BY DrawDoes DEF Follows
<1>5. OpenInvoices(t) \/ ShareOut(t) \/ LoadSupplier(t) \/ ApplyPayment(t) => Goes(t) \/ Ends(t)
  BY OpenInvoicesDoes, ShareOutDoes, LoadSupplierDoes, ApplyPaymentDoes DEF Follows, Fails
<1>6. PayOldDebt(t) \/ SettleRest(t) \/ CounterSource(t) \/ InsertExpense(t) \/ MoveTx(t) => Goes(t) \/ Ends(t)
  BY PayOldDebtDoes, SettleRestDoes, CounterSourceDoes, InsertExpenseDoes, MoveTxDoes
  DEF Carries, Follows, Fails
<1>7. DebitNote(t) \/ ListOpen(t) \/ ApplyCredit(t) \/ ReadOwed(t) \/ TakeRefund(t) => Goes(t) \/ Ends(t)
  BY DebitNoteDoes, ListOpenDoes, ApplyCreditDoes, ReadOwedDoes, TakeRefundDoes DEF Carries, Follows, Fails
<1>8. Commit(t) => Files(t)
  BY CommitDoes
<1> QED BY <1>1, <1>2, <1>3, <1>4, <1>5, <1>6, <1>7, <1>8 DEF Step

\* An opening debt is corrected: no purchase changes.
LEMMA AdjustOK ==
  ASSUME Types, AtDesk, DraftsApart, Purchases, NEW t \in Tx, Adjust(t)
  PROVE  Purchases'
<1>1. tx[t].pc = "adjust" /\ tx[t].req.sup \in Supplier /\ Ends(t)
  BY AdjustDoes
<1>2. PICK s, v : s \in Supplier /\ Changes(s, v)
  BY <1>1, AdjustDoes
<1>3. \A q \in Ledger : lock'[q] # t
  <2>1. \A q \in Ledger : lock[q] # t
    BY <1>1 DEF Purchases, PurchaseOK, HoldsNothing, Early
  <2>2. \A q \in Ledger : lock'[q] = lock[q]
    BY <1>2 DEF Changes
  <2> QED BY <2>1, <2>2
<1>4. PurchaseOK(t)'
  BY <1>1, <1>3, OverOK DEF Ends
<1>5. BillsKept'
  BY <1>2, BillsStay DEF Purchases
<1> QED BY <1>1, <1>2, <1>4, <1>5, AllKept DEF Legal, Ends, Only

\* A commit.
LEMMA CommitOK ==
  ASSUME Types, AtDesk, DraftsApart, Purchases, NEW t \in Tx, Commit(t)
  PROVE  Purchases'
<1>1. Files(t)
  BY CommitDoes
<1>2. \A q \in Ledger : lock'[q] # t
  BY <1>1, PayablesAssumption DEF Files, Published
<1>3. PurchaseOK(t)'
  BY <1>1, <1>2, OverOK DEF Files
<1>4. BillsKept'
  BY <1>1, BillsStay DEF Purchases, Files
<1>5. Legal(t)
  BY <1>1 DEF Legal, Files, Busy
<1> QED BY <1>1, <1>3, <1>4, <1>5, AllKept DEF Files

\* A request that begins.
LEMMA BeginsOK ==
  ASSUME Types, AtDesk, DraftsApart, Purchases, NEW t \in Tx, Begins(t)
  PROVE  Purchases'
<1>1. tx'[t].pc \notin {"edit", "receive"} /\ ~Taking(tx'[t])
  BY DEF Begins, Taking, Delivery, Paying
<1>2. \A q \in Ledger : lock'[q] # t
  <2>1. \A q \in Ledger : lock[q] # t
    BY DEF Begins, Purchases, PurchaseOK, HoldsNothing, Early
  <2>2. \A q \in Ledger : lock'[q] = lock[q]
    BY DEF Begins, Same
  <2> QED BY <2>1, <2>2
<1>3. PurchaseOK(t)'
  <2>1. HoldsNothing(t)' /\ DraftFound(t)' /\ TakesIn(t)'
    BY <1>1, <1>2 DEF HoldsNothing, DraftFound, TakesIn
  <2>2. TakenOnly(t)' /\ DraftHeld(t)'
    BY <1>2 DEF TakenOnly, DraftHeld, Ledger
  <2>3. ShareOK(t)' /\ ReceiptOK(t)'
    BY DEF Begins, ShareOK, ReceiptOK
  <2> QED BY <2>1, <2>2, <2>3 DEF PurchaseOK
<1>4. BillsKept'
  BY BillsStay DEF Purchases, Begins
<1> QED BY <1>3, <1>4, AllKept DEF Legal, Begins

\* Nothing happens to purchases.
LEMMA StillOK ==
  ASSUME Types, AtDesk, DraftsApart, Purchases, Same, tx' = tx
  PROVE  Purchases'
<1>1. ASSUME NEW t \in Tx PROVE PurchaseOK(t)'
  <2>1. \A r \in Ledger : lock'[r] = lock[r] /\ cur'[r] = cur[r] /\ com'[r] = com[r]
    BY DEF Same
  <2>2. /\ PurchaseOK(t) /\ tx[t].inv \in Purchase \cup {0} /\ \A p \in tx[t].alloc : p.id \in Purchase
        /\ tx[t].pc \in {"edit", "receive"} => tx[t].inv \in Purchase
    BY BusyFacts DEF Purchases
  <2>3. Purchase \subseteq Ledger
    BY DEF Ledger
  <2>4. tx[t].pc \in {"edit", "receive"} => com'[tx[t].inv] = com[tx[t].inv]
    BY <2>1, <2>2, <2>3
  <2> QED BY <2>1, <2>2, <2>3, <2>4, OthersPurchases
<1>2. BillsKept'
  <2>1. \A i \in Purchase : cur'[i] = cur[i] /\ com'[i] = com[i]
    BY DEF Same, Ledger
  <2> QED BY <2>1 DEF Purchases, BillsKept
<1> QED BY <1>1, <1>2 DEF Purchases

\* What becomes of the purchases.
LEMMA PurchasesStep ==
  ASSUME Types, AtDesk, DraftsApart, Purchases, [Next]_vars
  PROVE  AtDesk' /\ Purchases'
<1>1. ASSUME NEW t \in Tx, Handle(t) PROVE AtDesk' /\ Purchases'
  <2>1. CASE Begins(t)
    <3>1. AtDesk'
      BY <2>1 DEF Begins, AtDesk, Busy, R
    <3> QED BY <2>1, <3>1, BeginsOK
  <2>2. CASE Alone(t)
    <3>1. AtDesk'
      BY <2>2 DEF Alone, AtDesk, Busy, R
    <3> QED BY <2>2, <3>1, StillOK DEF Alone
  <2> QED BY <1>1, <2>1, <2>2, HandlerDoes
<1>2. ASSUME NEW t \in Tx, Step(t) \/ Cancel(t) PROVE AtDesk' /\ Purchases'
  <2>1. AtDesk'
    <3>1. Busy(t)
      BY <1>2, StepBusy DEF Cancel, At, Busy
    <3>2. \A u \in Tx : u # t => tx'[u] = tx[u]
      BY <1>2, GoesOrEnds DEF Goes, Ends, Files, Only
    <3>3. tx'[t] = Idle \/ tx'[t].req = tx[t].req
      BY <1>2, GoesOrEnds DEF Goes, Ends, Files
    <3> QED BY <3>1, <3>2, <3>3, IdleFacts DEF AtDesk, Busy, R
  <2>2. Cancel(t) => Purchases'
    BY FailDoes, FailsOK DEF Cancel
  <2>3. InsertDraft(t) \/ FindOrder(t) \/ RewriteDraft(t) \/ DeleteDraft(t) => Purchases'
    BY InsertDraftOK, FindOrderOK, RewriteDraftOK, DeleteDraftOK
  <2>4. InsertPurchase(t) \/ UpdateHeader(t) \/ KeepRemainder(t) => Purchases'
    BY InsertPurchaseOK, UpdateHeaderOK, KeepRemainderOK
  <2>5. AddPayable(t) \/ ReadCredit(t) \/ DrawAdvances(t) \/ DrawReturns(t) \/ PayNow(t) => Purchases'
    BY DeliveryOK
  <2>6. OpenInvoices(t) \/ ShareOut(t) \/ LoadSupplier(t) \/ ApplyPayment(t) \/ PayOldDebt(t) \/ SettleRest(t)
        => Purchases'
    BY PaymentOK
  <2>7. \/ CounterSource(t) \/ InsertExpense(t) \/ MoveTx(t) \/ DebitNote(t) \/ ListOpen(t)
        \/ ApplyCredit(t) \/ ReadOwed(t) \/ TakeRefund(t)
        => Purchases'
    BY MoneyOK
  <2>8. Adjust(t) \/ Commit(t) => Purchases'
    BY AdjustOK, CommitOK
  <2> QED BY <1>2, <2>1, <2>2, <2>3, <2>4, <2>5, <2>6, <2>7, <2>8 DEF Step
<1>3. CASE UNCHANGED vars
  <2>1. Same /\ tx' = tx
    BY <1>3 DEF vars, rowVars, Same
  <2>2. AtDesk'
    BY <2>1 DEF AtDesk, Busy, R
  <2> QED BY <2>1, <2>2, StillOK
<1>4. Next => (\E t \in Tx : Handle(t) \/ Step(t) \/ Cancel(t)) \/ UNCHANGED vars
  BY DEF Next, Closed
<1> QED BY <1>1, <1>2, <1>3, <1>4

\* At first nothing is held.
LEMMA InitPurchases ==
  ASSUME Init
  PROVE  AtDesk /\ Purchases
<1>1. /\ tx = [t \in Tx |-> Idle] /\ \A r \in Ledger : lock[r] = NoTx
      /\ \A i \in Purchase : com[i] = InitPurchase[i] /\ cur[i] = InitPurchase[i]
  <2>1. \A i \in Purchase : i \in Row /\ i \notin Supplier
    BY PayablesAssumption DEF Row
  <2>2. \A r \in Ledger : r \in Row
    BY DEF Row, Ledger
  <2> HIDE DEF Place, Row, Purchase, Ledger
  <2> QED BY <2>1, <2>2 DEF Init, DB!DBInit
<1>2. \A t \in Tx : tx[t].pc = "idle" /\ tx[t].mine = {} /\ tx[t].alloc = {}
  BY <1>1 DEF Idle
<1>3. AtDesk
  BY <1>2 DEF AtDesk, Busy
<1>4. BillsKept
  BY <1>1 DEF BillsKept
<1>5. ASSUME NEW t \in Tx PROVE PurchaseOK(t)
  <2>1. \A r \in Ledger : lock[r] # t
    BY <1>1, PayablesAssumption
  <2>2. HoldsNothing(t) /\ DraftFound(t) /\ TakesIn(t)
    BY <1>2, <2>1 DEF HoldsNothing, DraftFound, TakesIn, Taking, Delivery, Paying
  <2>3. TakenOnly(t) /\ DraftHeld(t)
    BY <2>1 DEF TakenOnly, DraftHeld, Ledger
  <2>4. ShareOK(t) /\ ReceiptOK(t)
    BY <1>2 DEF ShareOK, ReceiptOK
  <2> QED BY <2>2, <2>3, <2>4 DEF PurchaseOK
<1> QED BY <1>3, <1>4, <1>5 DEF Purchases

-----------------------------------------------------------------------------
(***************************************************************************)
(* What did not come stays on order.                                       *)
(***************************************************************************)
\* What is on order is a sum over the purchases.
Ordered(s, p) == [i \in Purchase |-> IF s[i].status = "draft" THEN s[i].lines[p] ELSE 0]

\* It adds up to that.
LEMMA OnOrderIs ==
  ASSUME NEW s, \A i \in Purchase : s[i] \in Bill, NEW p \in Product
  PROVE  /\ OnOrder(s, p) = SumFunctionOnSet(Ordered(s, p), Purchase)
         /\ \A i \in Purchase : Ordered(s, p)[i] \in Nat
<1> DEFINE D == {i \in Purchase : s[i].status = "draft"}
           f == [i \in D |-> s[i].lines[p]]
           g == [i \in Purchase |-> IF i \in D THEN f[i] ELSE 0]
<1>1. \A i \in Purchase : s[i].lines[p] \in Nat
  <2> SUFFICES ASSUME NEW i \in Purchase PROVE s[i].lines[p] \in Nat
    OBVIOUS
  <2>1. PICK l : l = s[i].lines
    OBVIOUS
  <2>2. l \in [Product -> Nat]
    BY <2>1 DEF Bill, Lines
  <2> QED BY <2>1, <2>2
<1>2. IsFiniteSet(Purchase) /\ D \subseteq Purchase
  BY PayablesAssumption, FS_Interval DEF Purchase
<1>3. \A i \in D : f[i] \in Int
  BY <1>1
<1>4. Ordered(s, p) = g
  BY DEF Ordered
<1>5. OnOrder(s, p) = SumFunctionOnSet(f, D)
  BY DEF OnOrder
<1>6. \A i \in Purchase : Ordered(s, p)[i] \in Nat
  BY <1>1 DEF Ordered
<1> HIDE DEF D, f
<1>7. SumFunctionOnSet(f, D) = SumFunctionOnSet(g, Purchase)
  BY <1>2, <1>3, SumWhere
<1> QED BY <1>4, <1>5, <1>6, <1>7

\* A delivery that keeps the remainder, at its commit.
LEMMA RestKept ==
  ASSUME Types, Types', Purchases, NEW t \in Tx, Files(t),
         NEW x \in tx[t].mine, x.kind = "receipt", x.keep, NEW p \in Product
  PROVE  OnOrder(com', p) + x.lines[p] >= OnOrder(com, p)
<1> DEFINE k == tx[t].inv
<1>1. PurchaseOK(t) /\ BillsKept /\ Purchase \subseteq Ledger /\ "draft" \notin Received
  BY DEF Purchases, Ledger, Received
<1>2. Taking(tx[t]) /\ x.lines = tx[t].req.lines /\ tx[t].req.op = "receive" /\ tx[t].req.keep /\ tx[t].pc = "commit"
  BY <1>1 DEF PurchaseOK, ReceiptOK, R, Files
<1>3. /\ k \in Purchase /\ lock[k] = t /\ cur[k].status \in Received
      /\ com[k].status = "draft" /\ tx[t].want = com[k].lines /\ Remains(t) /\ ~Before(tx[t])
  BY <1>1, <1>2 DEF PurchaseOK, TakesIn, Before, Delivery
<1>4. \A j \in Purchase : com'[j] = IF lock[j] = t THEN cur[j] ELSE com[j]
  BY <1>1 DEF Files, Published
<1>5. (\A i \in Purchase : com[i] \in Bill) /\ (\A i \in Purchase : com'[i] \in Bill)
  BY DEF Types, RowsOK
<1> DEFINE f == Ordered(com, p)
           g == Ordered(com', p)
           h == [i \in Purchase |-> IF i = k THEN 0 ELSE f[i]]
<1>6. /\ OnOrder(com, p) = SumFunctionOnSet(f, Purchase) /\ \A i \in Purchase : f[i] \in Nat
      /\ OnOrder(com', p) = SumFunctionOnSet(g, Purchase) /\ \A i \in Purchase : g[i] \in Nat
  BY <1>5, OnOrderIs
<1>7. IsFiniteSet(Purchase)
  BY PayablesAssumption, FS_Interval DEF Purchase
<1>8. PICK w \in Nat : w = com[k].lines[p]
  <2>1. f[k] = com[k].lines[p]
    BY <1>3 DEF Ordered
  <2> QED BY <1>3, <1>6, <2>1
<1>9. PICK l \in Nat : l = x.lines[p]
  <2>1. tx[t].req \in Request
    BY <1>2, AtFacts
  <2>2. PICK a : a = tx[t].req.lines
    OBVIOUS
  <2>3. a \in [Product -> Nat]
    BY <1>2, <2>1, <2>2, RequestFields DEF Lines
  <2> QED BY <1>2, <2>2, <2>3
<1>10. f[k] = w
  BY <1>3, <1>8 DEF Ordered
<1>11. RemainderLines(tx[t].want, tx[t].req.lines)[p] = Larger(w - l, 0)
  BY <1>2, <1>3, <1>8, <1>9 DEF RemainderLines
<1>12. SumFunctionOnSet(h, Purchase) = SumFunctionOnSet(f, Purchase) + (0 - w)
  <2>1. h[k] = 0 /\ \A i \in Purchase : h[i] \in Int /\ f[i] \in Int /\ (i # k => h[i] = f[i])
    BY <1>3, <1>6
  <2> HIDE DEF f, h
  <2> QED BY <1>3, <1>7, <1>10, <2>1, SumChange
<1>13. CASE Keeps(tx[t])
  <2>1. PICK d \in Purchase : /\ d # k /\ lock[d] = t /\ com[d].status = "none"
                              /\ cur[d].status = "draft"
                              /\ cur[d].lines = RemainderLines(tx[t].want, tx[t].req.lines)
                              /\ \A j \in Purchase : lock[j] = t => j \in {k, d}
    BY <1>3, <1>13 DEF Remains
  <2>2. f[d] = 0
    BY <2>1 DEF Ordered
  <2>3. g[k] = 0
    BY <1>1, <1>3, <1>4 DEF Ordered
  <2>4. g[d] = Larger(w - l, 0)
    BY <1>4, <1>11, <2>1 DEF Ordered
  <2>5. \A i \in Purchase : i \notin {k, d} => g[i] = f[i]
    BY <1>4, <2>1 DEF Ordered
  <2>6. h[d] = 0 /\ \A i \in Purchase : h[i] \in Int /\ (i # d => g[i] = h[i])
    BY <1>3, <1>6, <2>1, <2>2, <2>3, <2>5
  <2>7. SumFunctionOnSet(g, Purchase) = SumFunctionOnSet(h, Purchase) + (g[d] - 0)
    <3> HIDE DEF f, g, h
    <3> QED BY <1>6, <1>7, <2>6, SumChange
  <2>8. PICK a \in Int, b \in Int, c \in Int : /\ a = SumFunctionOnSet(f, Purchase)
                                               /\ b = SumFunctionOnSet(h, Purchase)
                                               /\ c = SumFunctionOnSet(g, Purchase)
    <3>1. \A i \in Purchase : f[i] \in Int /\ g[i] \in Int /\ h[i] \in Int
      BY <1>6, <2>6
    <3> HIDE DEF f, g, h
    <3> QED BY <1>7, <3>1, SumInt
  <2>9. c = a + (0 - w) + (Larger(w - l, 0) - 0)
    BY <1>12, <2>4, <2>7, <2>8
  <2>10. c + l >= a
    BY <2>9 DEF Larger
  <2> QED BY <1>6, <1>9, <2>8, <2>10
<1>14. CASE ~Keeps(tx[t])
  <2>1. \A j \in Purchase : lock[j] = t => j = k
    BY <1>3, <1>14 DEF Remains
  <2>2. w - l <= 0
    <3>1. ~(Larger(w - l, 0) > 0)
      BY <1>2, <1>11, <1>14 DEF Keeps
    <3> QED BY <3>1 DEF Larger
  <2>3. \A i \in Purchase : g[i] = h[i]
    BY <1>1, <1>3, <1>4, <2>1 DEF Ordered
  <2>4. SumFunctionOnSet(g, Purchase) = SumFunctionOnSet(h, Purchase)
    <3> HIDE DEF f, g, h
    <3> QED BY <1>7, <2>3, SumSame
  <2>5. PICK a \in Int, c \in Int : a = SumFunctionOnSet(f, Purchase) /\ c = SumFunctionOnSet(g, Purchase)
    <3>1. \A i \in Purchase : f[i] \in Int /\ g[i] \in Int
      BY <1>6
    <3> HIDE DEF f, g
    <3> QED BY <1>7, <3>1, SumInt
  <2>6. c = a + (0 - w)
    BY <1>12, <2>4, <2>5
  <2> QED BY <1>6, <1>9, <2>2, <2>5, <2>6
<1> QED BY <1>13, <1>14

\* "An item ordered but delivered in no quantity at all": if a draft is edited, deleted
\* and received at one terminal, a delivery that keeps the remainder takes off the order
\* what came and no more (UpdateHeader and KeepRemainder, made known by one Commit).
THEOREM RemainderStaysOnOrder ==
  ASSUME DraftsApart
  PROVE  Spec => RestStaysOnOrder
<1>1. Init => Types /\ AtDesk /\ Purchases
  BY InitTypes, InitPurchases
<1>2. (Types /\ AtDesk /\ Purchases) /\ [Next]_vars => (Types /\ AtDesk /\ Purchases)'
  BY TypesStep, PurchasesStep
<1>3. Types /\ Types' /\ Purchases /\ [Next]_vars
      => [\A x \in book' \ book : x.kind = "receipt" /\ x.keep =>
            \A p \in Product : OnOrder(com', p) + x.lines[p] >= OnOrder(com, p)]_vars
  <2> SUFFICES ASSUME Types, Types', Purchases, [Next]_vars, NEW x \in book' \ book, x.kind = "receipt", x.keep,
                      NEW p \in Product
               PROVE  OnOrder(com', p) + x.lines[p] >= OnOrder(com, p)
    OBVIOUS
  <2>1. CASE UNCHANGED vars
    BY <2>1 DEF vars
  <2>2. ASSUME NEW t \in Tx, Handle(t) PROVE FALSE
    BY <2>2, HandlerDoes DEF Begins, Alone
  <2>3. ASSUME NEW t \in Tx, Step(t) \/ Cancel(t) PROVE OnOrder(com', p) + x.lines[p] >= OnOrder(com, p)
    <3>1. Files(t)
      BY <2>3, GoesOrEnds DEF Goes, Ends, Only
    <3> QED BY <3>1, RestKept DEF Files
  <2>4. Next => (\E t \in Tx : Handle(t) \/ Step(t) \/ Cancel(t)) \/ UNCHANGED vars
    BY DEF Next, Closed
  <2> QED BY <2>1, <2>2, <2>3, <2>4
<1> QED BY <1>1, <1>2, <1>3, PTL DEF Spec, RestStaysOnOrder
=============================================================================
