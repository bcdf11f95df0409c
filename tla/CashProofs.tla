----------------------------- MODULE CashProofs -----------------------------
(***************************************************************************)
(* That no move overdraws the place it takes from and none lands in a       *)
(* closed drawer, for every set of cashiers, lockers and requests and any   *)
(* number of them at the same time.                                        *)
(*                                                                         *)
(* Balances are sums of rows, so what a request has checked stays true only  *)
(* because everybody who may add a row against it has to take a lock that    *)
(* conflicts with the one it holds.  The invariant therefore says, of every  *)
(* request in progress, which rows it has locked for what it has read and    *)
(* for what it has written, and that no two requests hold locks that         *)
(* conflict; the guard it passed then still holds when it commits.          *)
(***************************************************************************)
EXTENDS Cash, SumLaws

-----------------------------------------------------------------------------
(***************************************************************************)
(* The invariant.                                                          *)
(***************************************************************************)
Row == Time \cup Locker

Sessions == UNION {[D -> Session] : D \in SUBSET Time}

Steps == {"idle", "look", "book", "leg", "from", "to", "guard", "legs", "commit", "allow"}

TxState == [pc : Steps, req : Request \cup {Idle.req}, at : Time, sess : Time, expected : Int,
            locks : SUBSET (Row \X Mode), mine : Sessions,
            moves : SUBSET Movement, ledger : SUBSET Entry, sold : SUBSET CashSale]

Tables == /\ sess \in Sessions
          /\ moves \in SUBSET Movement /\ IsFiniteSet(moves)
          /\ ledger \in SUBSET Entry /\ IsFiniteSet(ledger)
          /\ sold \in SUBSET CashSale /\ IsFiniteSet(sold)
          /\ allowNeg \in SUBSET Locker
          /\ clock \in Time
          /\ DOMAIN sess \subseteq 1 .. clock

Holds(t, row, m) == <<row, m>> \in tx[t].locks

\* Which requests may be at each step, and what they have written by then.
Shape(t) ==
  /\ IsFiniteSet(tx[t].moves) /\ IsFiniteSet(tx[t].ledger) /\ IsFiniteSet(tx[t].sold)
  /\ At(t, "idle") => tx[t] = Idle
  /\ ~At(t, "idle") => R(t) \in Request /\ tx[t].at \in 1 .. clock /\ tx[t].at \notin DOMAIN sess
  /\ tx[t].pc \notin {"leg", "commit"} => tx[t].mine = <<>> /\ tx[t].moves = {}
  /\ tx[t].pc # "commit" => tx[t].ledger = {}
  /\ tx[t].pc \in {"from", "to", "guard", "legs"} => R(t).op = "move"
  /\ tx[t].pc \in {"look", "book", "leg"} => R(t).op \in {"open", "close", "withdraw", "payin"}
  /\ At(t, "leg") => Counter(R(t)) \in Locker
  /\ At(t, "look") => R(t).op # "open"
  /\ At(t, "book") /\ R(t).op # "open" => tx[t].sess \in DOMAIN sess
  /\ At(t, "allow") => R(t).op = "allow"

\* A session is opened for a cashier who has none open, and closed under its lock.
MineOK(t) == \A q \in DOMAIN tx[t].mine :
  \/ tx[t].mine[q].open /\ q = tx[t].at /\ FindOpen(tx[t].mine[q].user) = {}
  \/ ~tx[t].mine[q].open /\ q \in DOMAIN sess /\ Holds(t, q, "nokey")

\* Whoever writes a movement that counts in a drawer has locked its session, and
\* whoever writes in a locker's ledger its row.
MovesOK(t) == \A m \in tx[t].moves : m.type = "adjust" => \E n \in Mode : Holds(t, m.session, n)

LedgerOK(t) ==
  /\ \A e \in tx[t].ledger : /\ \E n \in Mode : Holds(t, e.locker, n)
                             /\ e.delta < 0 => Holds(t, e.locker, "update") /\ Covered(e.locker, -e.delta)
  /\ \A e, f \in tx[t].ledger : e.locker = f.locker => e = f

\* t has locked the one open session of place p, if p is a drawer.
TillHeld(t, p) == p \in Cashier => \E s \in DOMAIN sess : FindOpen(p) = {s} /\ Holds(t, s, "update")

\* What the place that a move takes from holds, under the move's lock.
SourceOK(t) ==
  /\ \A s \in FindOpen(R(t).from) : R(t).amount <= Available(s)
  /\ R(t).from \in Locker => Holds(t, R(t).from, "update")
  /\ R(t).from \in Locker /\ At(t, "legs") => Covered(R(t).from, R(t).amount)

MoveRow(t, m) ==
  /\ m.type = "adjust" /\ m.at = tx[t].at
  /\ \/ R(t).from \in Cashier /\ m.session \in FindOpen(R(t).from) /\ m.amount = -R(t).amount
     \/ R(t).to \in Cashier /\ m.session \in FindOpen(R(t).to) /\ m.amount = R(t).amount

MoveOK(t) ==
  R(t).op = "move" => /\ tx[t].mine = <<>> /\ tx[t].sold = {}
                      /\ tx[t].pc \in {"to", "guard", "legs", "commit"} => TillHeld(t, R(t).from)
                      /\ tx[t].pc \in {"guard", "legs", "commit"} => TillHeld(t, R(t).to)
                      /\ tx[t].pc \in {"legs", "commit"} => SourceOK(t)
                      /\ \A m \in tx[t].moves : MoveRow(t, m)

Own(t) == Shape(t) /\ MineOK(t) /\ MovesOK(t) /\ LedgerOK(t) /\ MoveOK(t)

\* Two requests hold no locks that conflict, are not of the same date, and do not
\* both open a session for one cashier.
LocksApart(t, u) == \A row \in Row, m, n \in Mode : Holds(t, row, m) /\ Holds(u, row, n) => ~Conflict(m, n)

OpensApart(t, u) == \A s \in DOMAIN tx[t].mine, q \in DOMAIN tx[u].mine :
  tx[t].mine[s].open /\ tx[u].mine[q].open => tx[t].mine[s].user # tx[u].mine[q].user

Apart(t, u) == /\ LocksApart(t, u)
               /\ At(t, "idle") \/ At(u, "idle") \/ tx[t].at # tx[u].at
               /\ OpensApart(t, u)

OneOpen == \A s, q \in DOMAIN sess : sess[s].open /\ sess[q].open /\ sess[s].user = sess[q].user => s = q

CashInv == /\ Tables
           /\ tx \in [Tx -> TxState]
           /\ OneOpen
           /\ \A t \in Tx : Own(t)
           /\ \A t, u \in Tx : t # u => Apart(t, u)

-----------------------------------------------------------------------------
(***************************************************************************)
(* Sums over the tables.                                                   *)
(***************************************************************************)
Bal(L, k) == SumFunctionOnSet([e \in L |-> e.delta], {e \in L : e.locker = k})

Adj(M, s) == SumFunctionOnSet(Amount(M), {m \in M : m.session = s /\ m.type = "adjust"})

Coll(S, u, a) == SumFunctionOnSet(Amount(S), {x \in S : x.user = u /\ x.at >= a})

\* One more element, if it is one more, adds its value.
LEMMA SumOneMore ==
  ASSUME NEW f, NEW g, NEW S, NEW T, IsFiniteSet(S), S \subseteq T, NEW x, T \ S \subseteq {x},
         \A i \in T : g[i] \in Int, \A i \in S : f[i] = g[i]
  PROVE  SumFunctionOnSet(g, T) = SumFunctionOnSet(f, S) \/ (x \in T /\ SumFunctionOnSet(g, T) = SumFunctionOnSet(f, S) + g[x])
<1>1. SumFunctionOnSet(f, S) = SumFunctionOnSet(g, S)
  BY SumSame
<1>2. CASE T = S
  BY <1>1, <1>2
<1>3. CASE T # S
  <2>1. x \in T /\ x \notin S /\ T = S \cup {x}
    BY <1>3
  <2>2. SumFunctionOnSet(g, S \cup {x}) = SumFunctionOnSet(g, S) + g[x]
    BY <2>1, SumAdd
  <2> QED BY <1>1, <2>1, <2>2
<1> QED BY <1>2, <1>3

\* More elements whose values are nowhere negative never make a sum smaller.
LEMMA SumGrow ==
  ASSUME NEW f, NEW g, NEW S, NEW T, IsFiniteSet(T), S \subseteq T,
         \A i \in T : g[i] \in Nat, \A i \in S : f[i] = g[i]
  PROVE  /\ SumFunctionOnSet(f, S) \in Nat /\ SumFunctionOnSet(g, T) \in Nat
         /\ SumFunctionOnSet(f, S) <= SumFunctionOnSet(g, T)
<1> DEFINE a == [i \in T |-> IF i \in S THEN g[i] ELSE 0]
           b == [i \in T |-> IF i \in S THEN 0 ELSE g[i]]
<1>1. IsFiniteSet(S) /\ SumFunctionOnSet(f, S) = SumFunctionOnSet(g, S)
  BY FS_Subset, SumSame
<1>2. /\ \A i \in T : a[i] \in Int /\ b[i] \in Int /\ g[i] = a[i] + b[i] /\ b[i] \in Nat
      /\ \A i \in S : g[i] \in Int /\ g[i] \in Nat
  OBVIOUS
<1>3. SumFunctionOnSet(g, S) = SumFunctionOnSet(a, T)
  BY <1>2, SumWhere
<1> HIDE DEF a, b
<1>4. SumFunctionOnSet(g, T) = SumFunctionOnSet(a, T) + SumFunctionOnSet(b, T)
  BY <1>2, SumPlus
<1>5. SumFunctionOnSet(b, T) \in Nat
  BY <1>2, SumNat
<1>6. SumFunctionOnSet(g, S) \in Nat
  BY <1>1, <1>2, SumNat
<1> QED BY <1>1, <1>3, <1>4, <1>5, <1>6

\* What a locker holds is changed only by entries of its own.
LEMMA BalanceLaw ==
  ASSUME NEW A \in SUBSET Entry, NEW B \in SUBSET Entry, IsFiniteSet(A), NEW k
  PROVE  /\ Bal(A, k) \in Int
         /\ (\A e \in B : e.locker # k) => Bal(A \cup B, k) = Bal(A, k)
         /\ \A e \in B : e.locker = k /\ (\A f \in B : f.locker = k => f = e)
              => Bal(A \cup B, k) = Bal(A, k) \/ Bal(A \cup B, k) = Bal(A, k) + e.delta
<1> DEFINE f == [e \in A |-> e.delta]
           g == [e \in A \cup B |-> e.delta]
           S == {e \in A : e.locker = k}
           T == {e \in A \cup B : e.locker = k}
<1>1. /\ \A i \in S : f[i] \in Int /\ f[i] = g[i]
      /\ \A i \in T : g[i] \in Int
      /\ IsFiniteSet(S)
  <2>1. S \subseteq A
    OBVIOUS
  <2>2. IsFiniteSet(S)
    BY <2>1, FS_Subset
  <2> QED BY <2>2 DEF Entry
<1>2. ASSUME \A e \in B : e.locker # k PROVE S = T
  BY <1>2
<1>3. ASSUME NEW e \in B, e.locker = k, \A h \in B : h.locker = k => h = e
      PROVE  S \subseteq T /\ T \ S \subseteq {e} /\ g[e] = e.delta
  BY <1>3
<1>4. SumFunctionOnSet(f, S) = Bal(A, k) /\ SumFunctionOnSet(g, T) = Bal(A \cup B, k)
  BY DEF Bal
<1> HIDE DEF f, g, S, T
<1>5. SumFunctionOnSet(f, S) \in Int
  BY <1>1, SumInt
<1>6. ASSUME \A e \in B : e.locker # k PROVE SumFunctionOnSet(g, T) = SumFunctionOnSet(f, S)
  BY <1>1, <1>2, <1>6, SumSame
<1>7. ASSUME NEW e \in B, e.locker = k, \A h \in B : h.locker = k => h = e
      PROVE  SumFunctionOnSet(g, T) = SumFunctionOnSet(f, S) \/ SumFunctionOnSet(g, T) = SumFunctionOnSet(f, S) + e.delta
  <2>1. S \subseteq T /\ T \ S \subseteq {e} /\ g[e] = e.delta
    BY <1>3, <1>7
  <2> QED BY <1>1, <2>1, SumOneMore
<1> QED BY <1>4, <1>5, <1>6, <1>7

\* And the movements of a session only by adjustments of its own.
LEMMA AdjustLaw ==
  ASSUME NEW A \in SUBSET Movement, NEW B \in SUBSET Movement, IsFiniteSet(A), NEW s
  PROVE  /\ Adj(A, s) \in Int
         /\ (\A m \in B : m.type = "adjust" => m.session # s) => Adj(A \cup B, s) = Adj(A, s)
         /\ \A m \in B : (\A n \in B : n.type = "adjust" /\ n.session = s => n = m)
              => Adj(A \cup B, s) = Adj(A, s) \/ Adj(A \cup B, s) = Adj(A, s) + m.amount
<1> DEFINE f == Amount(A)
           g == Amount(A \cup B)
           S == {m \in A : m.session = s /\ m.type = "adjust"}
           T == {m \in A \cup B : m.session = s /\ m.type = "adjust"}
<1>1. /\ \A i \in S : f[i] \in Int /\ f[i] = g[i]
      /\ \A i \in T : g[i] \in Int
      /\ IsFiniteSet(S)
  <2>1. S \subseteq A
    OBVIOUS
  <2>2. IsFiniteSet(S)
    BY <2>1, FS_Subset
  <2> QED BY <2>2 DEF Movement, Amount
<1>2. ASSUME \A m \in B : m.type = "adjust" => m.session # s PROVE S = T
  BY <1>2
<1>3. ASSUME NEW m \in B, \A n \in B : n.type = "adjust" /\ n.session = s => n = m
      PROVE  S \subseteq T /\ T \ S \subseteq {m} /\ g[m] = m.amount
  BY <1>3 DEF Amount
<1>4. SumFunctionOnSet(f, S) = Adj(A, s) /\ SumFunctionOnSet(g, T) = Adj(A \cup B, s)
  BY DEF Adj
<1> HIDE DEF f, g, S, T
<1>5. SumFunctionOnSet(f, S) \in Int
  BY <1>1, SumInt
<1>6. ASSUME \A m \in B : m.type = "adjust" => m.session # s PROVE SumFunctionOnSet(g, T) = SumFunctionOnSet(f, S)
  BY <1>1, <1>2, <1>6, SumSame
<1>7. ASSUME NEW m \in B, \A n \in B : n.type = "adjust" /\ n.session = s => n = m
      PROVE  SumFunctionOnSet(g, T) = SumFunctionOnSet(f, S) \/ SumFunctionOnSet(g, T) = SumFunctionOnSet(f, S) + m.amount
  <2>1. S \subseteq T /\ T \ S \subseteq {m} /\ g[m] = m.amount
    BY <1>3, <1>7
  <2> QED BY <1>1, <2>1, SumOneMore
<1> QED BY <1>4, <1>5, <1>6, <1>7

\* Sales only bring cash in.
LEMMA CollectedLaw ==
  ASSUME NEW A \in SUBSET CashSale, NEW B \in SUBSET CashSale, IsFiniteSet(A), IsFiniteSet(B), NEW u, NEW a
  PROVE  Coll(A, u, a) \in Nat /\ Coll(A \cup B, u, a) \in Nat /\ Coll(A, u, a) <= Coll(A \cup B, u, a)
<1> DEFINE f == Amount(A)
           g == Amount(A \cup B)
           S == {x \in A : x.user = u /\ x.at >= a}
           T == {x \in A \cup B : x.user = u /\ x.at >= a}
<1>1. /\ \A i \in S : f[i] = g[i]
      /\ \A i \in T : g[i] \in Nat
      /\ S \subseteq T
      /\ IsFiniteSet(T)
  <2>1. T \subseteq A \cup B /\ IsFiniteSet(A \cup B)
    BY FS_Union
  <2>2. IsFiniteSet(T)
    BY <2>1, FS_Subset
  <2> QED BY <2>2 DEF CashSale, Amount
<1>2. SumFunctionOnSet(f, S) = Coll(A, u, a) /\ SumFunctionOnSet(g, T) = Coll(A \cup B, u, a)
  BY DEF Coll
<1> HIDE DEF f, g, S, T
<1> QED BY <1>1, <1>2, SumGrow

\* The three sums that the module's balances are.
LEMMA SumsAre ==
  ASSUME NEW k, NEW u, NEW a
  PROVE  /\ Balance(k) = Bal(ledger, k) /\ AdjustmentTotal(k) = Adj(moves, k)
         /\ CashCollectedSince(u, a) = Coll(sold, u, a)
BY DEF Balance, AdjustmentTotal, CashCollectedSince, Bal, Adj, Coll

-----------------------------------------------------------------------------
(***************************************************************************)
(* Steps that leave the tables as they are.                                *)
(***************************************************************************)
\* What the type of a request in progress says of its fields.
LEMMA TxFacts ==
  ASSUME NEW w \in TxState
  PROVE  /\ w.pc \in Steps /\ w.at \in Time /\ w.sess \in Time /\ w.expected \in Int
         /\ w.locks \in SUBSET (Row \X Mode)
         /\ w.mine \in Sessions
         /\ w.moves \in SUBSET Movement /\ w.ledger \in SUBSET Entry /\ w.sold \in SUBSET CashSale
BY DEF TxState

\* A function into the sessions.
LEMMA SessionsAre ==
  ASSUME NEW f \in Sessions
  PROVE  DOMAIN f \subseteq Time /\ f = [s \in DOMAIN f |-> f[s]] /\ \A s \in DOMAIN f : f[s] \in Session
<1>1. PICK D \in SUBSET Time : f \in [D -> Session]
  BY DEF Sessions
<1> QED BY <1>1

LEMMA SessionsMade ==
  ASSUME NEW D \in SUBSET Time, NEW f \in [D -> Session]
  PROVE  f \in Sessions
BY DEF Sessions

LEMMA IdleState == Idle \in TxState /\ Idle.pc = "idle" /\ Idle.locks = {} /\ Idle.mine = <<>> /\ DOMAIN Idle.mine = {}
                   /\ Idle.moves = {} /\ Idle.ledger = {} /\ Idle.sold = {}
<1>1. <<>> \in Sessions
  <2>1. <<>> \in [{} -> Session]
    OBVIOUS
  <2> QED BY <2>1, SessionsMade
<1>2. 0 \in Time
  BY CashAssumption DEF Time
<1> HIDE DEF Time, Sessions
<1> QED BY <1>1, <1>2 DEF Idle, TxState, Steps

\* Locks conflict both ways, and whoever holds one for update holds it alone.
LEMMA Conflicts ==
  ASSUME NEW m \in Mode, NEW n \in Mode
  PROVE  /\ Conflict(m, n) <=> Conflict(n, m)
         /\ m = "update" => Conflict(m, n)
         /\ m = "nokey" /\ n = "nokey" => Conflict(m, n)
BY DEF Mode, Conflict

LEMMA ApartSym ==
  ASSUME NEW t \in Tx, NEW u \in Tx, Apart(t, u)
  PROVE  Apart(u, t)
<1>1. LocksApart(u, t)
  BY Conflicts DEF Apart, LocksApart
<1> QED BY <1>1 DEF Apart, OpensApart

\* A request that is over holds and has written nothing.
LEMMA IdleOwn ==
  ASSUME NEW t \in Tx, tx[t] = Idle
  PROVE  /\ Own(t)
         /\ \A u \in Tx : Apart(t, u)
<1>1. Shape(t)
  BY IdleState, FS_EmptySet DEF Shape, At
<1>2. MineOK(t) /\ MovesOK(t) /\ LedgerOK(t) /\ MoveOK(t)
  BY IdleState DEF MineOK, MovesOK, LedgerOK, MoveOK
<1>3. ASSUME NEW u \in Tx PROVE Apart(t, u)
  BY IdleState DEF Apart, LocksApart, OpensApart, Holds, At
<1> QED BY <1>1, <1>2, <1>3 DEF Own

\* When only t's own state changes, what is said of the others stays true.
LEMMA QuietStep ==
  ASSUME CashInv, NEW t \in Tx, UNCHANGED <<sess, moves, ledger, sold, allowNeg>>,
         clock' \in Time, clock' >= clock,
         tx' \in [Tx -> TxState], \A u \in Tx \ {t} : tx'[u] = tx[u],
         Own(t)', \A u \in Tx \ {t} : Apart(t, u)'
  PROVE  CashInv'
<1>0. clock \in Int /\ clock' \in Int
  BY CashAssumption DEF CashInv, Tables, Time
<1>1. Tables'
  BY <1>0 DEF CashInv, Tables
<1>2. ASSUME NEW u \in Tx \ {t} PROVE Own(u)'
  <2>1. Own(u) /\ tx'[u] = tx[u]
    BY DEF CashInv
  <2>2. Shape(u)'
    <3>1. tx[u].at \in 1 .. clock => tx[u].at \in 1 .. clock'
      BY <1>0
    <3> QED BY <2>1, <3>1 DEF Own, Shape, At, R
  <2>3. MineOK(u)'
    BY <2>1 DEF Own, MineOK, Holds, FindOpen
  <2>4. MovesOK(u)'
    BY <2>1 DEF Own, MovesOK, Holds
  <2>5. LedgerOK(u)'
    BY <2>1 DEF Own, LedgerOK, Holds, Covered, Balance
  <2>6. MoveOK(u)'
    <3>1. /\ TillHeld(u, R(u).from)' = TillHeld(u, R(u).from)
          /\ TillHeld(u, R(u).to)' = TillHeld(u, R(u).to)
      BY <2>1 DEF TillHeld, Holds, FindOpen, R
    <3>2. SourceOK(u)' = SourceOK(u)
      BY <2>1 DEF SourceOK, Holds, FindOpen, R, At, Covered, Balance, Available, CashCollectedSince, AdjustmentTotal
    <3>3. \A m \in tx[u].moves : MoveRow(u, m)' = MoveRow(u, m)
      BY <2>1 DEF MoveRow, FindOpen, R
    <3> QED BY <2>1, <3>1, <3>2, <3>3 DEF Own, MoveOK, R
  <2> QED BY <2>2, <2>3, <2>4, <2>5, <2>6 DEF Own
<1>3. ASSUME NEW u \in Tx \ {t}, NEW v \in Tx \ {t}, u # v PROVE Apart(u, v)'
  <2>1. Apart(u, v) /\ tx'[u] = tx[u] /\ tx'[v] = tx[v]
    BY <1>3 DEF CashInv
  <2> QED BY <2>1 DEF Apart, LocksApart, OpensApart, Holds, At
<1>4. ASSUME NEW u \in Tx \ {t} PROVE Apart(t, u)' /\ Apart(u, t)'
  <2>1. LocksApart(u, t)'
    <3>1. LocksApart(t, u)'
      BY DEF Apart
    <3> QED BY <3>1, Conflicts DEF LocksApart
  <2> QED BY <2>1 DEF Apart, OpensApart
<1>5. OneOpen'
  BY DEF CashInv, OneOpen
<1> QED BY <1>1, <1>2, <1>3, <1>4, <1>5 DEF CashInv

\* A request is refused or gives up.
LEMMA EndStep ==
  ASSUME CashInv, NEW t \in Tx, End(t)
  PROVE  CashInv'
<1>1. tx'[t] = Idle /\ tx' \in [Tx -> TxState] /\ \A u \in Tx \ {t} : tx'[u] = tx[u]
  BY IdleState DEF CashInv, End
<1>2. UNCHANGED <<sess, moves, ledger, sold, allowNeg>> /\ clock' = clock /\ clock \in Time /\ clock \in Int
  BY CashAssumption DEF End, Stored, CashInv, Tables, Time
<1>3. Own(t)' /\ \A u \in Tx : Apart(t, u)'
  <2>1. Shape(t)'
    BY <1>1, IdleState, FS_EmptySet DEF Shape, At
  <2>2. MineOK(t)' /\ MovesOK(t)' /\ LedgerOK(t)' /\ MoveOK(t)'
    BY <1>1, IdleState DEF MineOK, MovesOK, LedgerOK, MoveOK
  <2>3. ASSUME NEW u \in Tx PROVE Apart(t, u)'
    BY <1>1, IdleState DEF Apart, LocksApart, OpensApart, Holds, At
  <2> QED BY <2>1, <2>2, <2>3 DEF Own
<1>4. clock' \in Time /\ clock' >= clock
  BY <1>2
<1> QED BY <1>1, <1>2, <1>3, <1>4, QuietStep

\* New locks conflict with nobody's when they were free.
LEMMA LocksFree ==
  ASSUME CashInv, NEW t \in Tx, NEW row \in Row, NEW m \in Mode, Free(t, row, m),
         tx'[t].locks \subseteq tx[t].locks \cup {<<row, m>>},
         NEW u \in Tx \ {t}, tx'[u] = tx[u]
  PROVE  LocksApart(t, u)'
<1>1. LocksApart(t, u)
  BY DEF CashInv, Apart
<1>2. ASSUME NEW r \in Row, NEW a \in Mode, NEW b \in Mode, Holds(t, r, a)', Holds(u, r, b)' PROVE ~Conflict(a, b)
  <2>1. Holds(u, r, b) /\ (Holds(t, r, a) \/ (r = row /\ a = m))
    BY <1>2 DEF Holds
  <2>2. CASE Holds(t, r, a)
    BY <2>1, <2>2, <1>1 DEF LocksApart
  <2>3. CASE r = row /\ a = m
    BY <2>1, <2>3 DEF Free, Holds
  <2> QED BY <2>1, <2>2, <2>3
<1> QED BY <1>2 DEF LocksApart

LEMMA LocksKept ==
  ASSUME CashInv, NEW t \in Tx, tx'[t].locks \subseteq tx[t].locks, NEW u \in Tx \ {t}, tx'[u] = tx[u]
  PROVE  LocksApart(t, u)'
<1>1. LocksApart(t, u)
  BY DEF CashInv, Apart
<1> QED BY <1>1 DEF LocksApart, Holds

\* A step that opens no session and keeps its date only has its locks to answer for.
LEMMA KeptApart ==
  ASSUME CashInv, NEW t \in Tx, ~At(t, "idle"), tx'[t].at = tx[t].at,
         \A s \in DOMAIN tx'[t].mine : tx'[t].mine[s].open => s \in DOMAIN tx[t].mine /\ tx'[t].mine[s] = tx[t].mine[s],
         NEW u \in Tx \ {t}, tx'[u] = tx[u], LocksApart(t, u)'
  PROVE  Apart(t, u)'
<1>1. Apart(t, u)
  BY DEF CashInv
<1>2. OpensApart(t, u)'
  BY <1>1 DEF Apart, OpensApart
<1> QED BY <1>1, <1>2 DEF Apart, At

\* Facts about a request that is not idle.
LEMMA ActiveFacts ==
  ASSUME CashInv, NEW t \in Tx, ~At(t, "idle")
  PROVE  /\ R(t) \in Request /\ R(t).op \in Ops /\ R(t).from \in Place /\ R(t).to \in Place /\ R(t).amount \in Nat
         /\ tx[t] \in TxState /\ tx[t].at \in 1 .. clock /\ tx[t].at \in Time /\ tx[t].at \notin DOMAIN sess
         /\ clock \in Time /\ clock \in Int /\ clock >= clock
         /\ Own(t)
         /\ R(t).op = "move" => R(t).from # R(t).to /\ R(t).amount > 0
         /\ R(t).op \in {"open", "payin", "sale"} => R(t).to \in Cashier /\ R(t).from \notin Cashier
         /\ R(t).op \in {"close", "withdraw"} => R(t).from \in Cashier /\ R(t).to \notin Cashier
         /\ R(t).op = "allow" => R(t).to \in Locker
<1>1. R(t) \in Request /\ tx[t].at \in 1 .. clock /\ tx[t].at \notin DOMAIN sess /\ tx[t] \in TxState /\ Own(t)
      /\ clock \in Time
  BY DEF CashInv, Own, Shape, Tables
<1>2. R(t) \in [op : Ops, from : Place, to : Place, amount : Nat, neg : BOOLEAN]
  BY <1>1, CashAssumption
<1>3. clock \in Int
  BY <1>1, CashAssumption DEF Time
<1>4. tx[t].at \in Time
  BY <1>1, TxFacts
<1>5. /\ R(t).op = "move" => R(t).from # R(t).to /\ R(t).amount > 0
      /\ R(t).op \in {"open", "payin", "sale"} => R(t).to \in Cashier /\ R(t).from \notin Cashier
      /\ R(t).op \in {"close", "withdraw"} => R(t).from \in Cashier /\ R(t).to \notin Cashier
      /\ R(t).op = "allow" => R(t).to \in Locker
  BY <1>1, CashAssumption
<1> QED BY <1>1, <1>2, <1>3, <1>4, <1>5

LEMMA InitHolds == Init => CashInv
<1> SUFFICES ASSUME Init PROVE CashInv
  OBVIOUS
<1>1. Tables
  <2>1. sess \in Sessions /\ DOMAIN sess = {}
    <3>1. <<>> \in [{} -> Session]
      OBVIOUS
    <3> QED BY <3>1, SessionsMade DEF Init
  <2>2. 0 \in Time
    BY CashAssumption DEF Time
  <2>3. ledger \in SUBSET Entry
    BY <2>2, CashAssumption DEF Init, Entry
  <2>4. IsFiniteSet(ledger)
    <3> DEFINE E == [k \in Locker |-> [locker |-> k, delta |-> InitBalance[k], at |-> 0]]
    <3>1. ledger = {E[k] : k \in Locker}
      BY DEF Init
    <3>2. E \in Surjection(Locker, ledger)
      <4>1. E \in [Locker -> ledger] /\ \A e \in ledger : \E k \in Locker : E[k] = e
        BY <3>1 DEF E
      <4> HIDE DEF E
      <4> QED BY <4>1 DEF Surjection
    <3> QED BY <3>2, CashAssumption, FS_Surjection
  <2> QED BY <2>1, <2>2, <2>3, <2>4, CashAssumption, FS_EmptySet DEF Init, Tables
<1>2. tx \in [Tx -> TxState] /\ \A t \in Tx : tx[t] = Idle
  BY IdleState DEF Init
<1>3. OneOpen
  BY DEF Init, OneOpen
<1> QED BY <1>1, <1>2, <1>3, IdleOwn DEF CashInv

LEMMA BeginStep ==
  ASSUME CashInv, NEW t \in Tx, NEW r \in Request, Begin(t, r)
  PROVE  CashInv'
<1> DEFINE S == IF r.op = "sale" THEN {[user |-> r.to, amount |-> r.amount, at |-> clock']} ELSE {}
           w == [Idle EXCEPT !.pc = Start(r), !.req = r, !.at = clock', !.sold = S]
<1>1. /\ r.op \in Ops /\ r.from \in Place /\ r.to \in Place /\ r.amount \in Nat
      /\ r.op = "sale" => r.to \in Cashier
  <2>1. r \in [op : Ops, from : Place, to : Place, amount : Nat, neg : BOOLEAN]
    BY CashAssumption
  <2>2. r.op = "sale" => r.to \in Cashier
    BY CashAssumption
  <2> QED BY <2>1, <2>2
<1>2. clock \in Time /\ clock' \in Time /\ clock' = clock + 1 /\ clock \in Nat /\ DOMAIN sess \subseteq 1 .. clock
  BY CashAssumption DEF CashInv, Tables, Time, Begin
<1>3. UNCHANGED <<sess, moves, ledger, sold, allowNeg>>
  BY DEF Begin
<1>4. Start(r) \in Steps \ {"idle", "leg", "legs"}
  BY <1>1 DEF Start, Steps, Ops
<1>5. S \in SUBSET CashSale /\ IsFiniteSet(S)
  <2>1. CASE r.op = "sale"
    <3> DEFINE x == [user |-> r.to, amount |-> r.amount, at |-> clock']
    <3>1. S = {x} /\ x \in CashSale
      BY <2>1, <1>1, <1>2 DEF CashSale
    <3> HIDE DEF x, S
    <3> QED BY <3>1, FS_Singleton
  <2>2. CASE r.op # "sale"
    BY <2>2, FS_EmptySet
  <2> QED BY <2>1, <2>2
<1>6. tx' = [tx EXCEPT ![t] = w]
  BY DEF Begin
<1> HIDE DEF S
<1>7. /\ w \in TxState
      /\ w.pc = Start(r) /\ w.req = r /\ w.at = clock' /\ w.locks = {} /\ w.mine = <<>> /\ DOMAIN w.mine = {}
      /\ w.moves = {} /\ w.ledger = {} /\ w.sold = S
  <2> HIDE DEF Time, Sessions
  <2>1. /\ w \in TxState
        /\ w.pc = Start(r) /\ w.req = r /\ w.at = clock' /\ w.locks = Idle.locks /\ w.mine = Idle.mine
        /\ w.moves = Idle.moves /\ w.ledger = Idle.ledger /\ w.sold = S
    BY IdleState, <1>2, <1>4, <1>5 DEF TxState
  <2> HIDE DEF w
  <2> QED BY <2>1, IdleState
<1> HIDE DEF w
<1>8. tx' \in [Tx -> TxState] /\ tx'[t] = w /\ \A u \in Tx \ {t} : tx'[u] = tx[u]
  BY <1>6, <1>7 DEF CashInv
<1>9. Own(t)'
  <2>1. Shape(t)'
    <3>1. clock' \in 1 .. clock' /\ clock' \notin DOMAIN sess'
      BY <1>2, <1>3
    <3>2. /\ w.pc \in {"from", "to", "guard", "legs"} => r.op = "move"
          /\ w.pc \in {"look", "book"} => r.op \in {"open", "close", "withdraw", "payin"}
          /\ w.pc = "look" => r.op # "open"
          /\ w.pc = "book" => r.op = "open"
          /\ w.pc = "allow" => r.op = "allow"
          /\ w.pc # "idle" /\ w.pc # "leg"
      BY <1>1, <1>7 DEF Start, Ops
    <3> QED BY <1>5, <1>7, <1>8, <3>1, <3>2, FS_EmptySet DEF Shape, At, R
  <2>2. MoveOK(t)'
    <3>1. r.op = "move" => w.pc = "from" /\ S = {}
      BY <1>7 DEF S, Start
    <3> QED BY <1>7, <1>8, <3>1 DEF MoveOK, R
  <2> QED BY <1>7, <1>8, <2>1, <2>2 DEF Own, MineOK, MovesOK, LedgerOK
<1>10. ASSUME NEW u \in Tx \ {t} PROVE Apart(t, u)'
  <2>1. At(u, "idle") \/ tx[u].at # clock'
    <3>1. ~At(u, "idle") => tx[u].at \in 1 .. clock
      BY DEF CashInv, Own, Shape
    <3> QED BY <3>1, <1>2
  <2> QED BY <1>7, <1>8, <2>1 DEF Apart, LocksApart, OpensApart, Holds, At
<1>11. clock' >= clock
  BY <1>2
<1> QED BY <1>2, <1>3, <1>8, <1>9, <1>10, <1>11, QuietStep

\* What a drawer holds is a number.
LEMMA AvailableInt ==
  ASSUME CashInv, NEW s \in DOMAIN sess
  PROVE  Available(s) \in Int /\ sess[s] \in Session /\ s \in Time
<1>1. s \in Time /\ sess[s] \in Session /\ sess[s].opening \in Nat
  BY SessionsAre DEF CashInv, Tables, Session
<1>2. Coll(sold, sess[s].user, s) \in Nat /\ Adj(moves, s) \in Int
  BY CollectedLaw, AdjustLaw DEF CashInv, Tables
<1> QED BY <1>1, <1>2, SumsAre DEF Available

LEMMA LookStep ==
  ASSUME CashInv, NEW t \in Tx, Look(t)
  PROVE  CashInv'
<1>1. CASE End(t)
  BY <1>1, EndStep
<1>2. ASSUME NEW s \in FindOpen(Till(R(t))),
             tx' = [tx EXCEPT ![t].pc = "book", ![t].sess = s, ![t].expected = Available(s)],
             UNCHANGED <<sess, moves, ledger, sold, allowNeg, clock>>
      PROVE  CashInv'
  <2>1. At(t, "look") /\ ~At(t, "idle") /\ tx \in [Tx -> TxState] /\ tx[t] \in TxState /\ tx[t].pc \notin {"leg", "commit"}
    BY DEF Look, At, CashInv
  <2>2. s \in DOMAIN sess /\ s \in Time
    BY AvailableInt DEF FindOpen
  <2>3. Available(s) \in Int
    BY <2>2, AvailableInt
  <2> DEFINE w == [tx[t] EXCEPT !.pc = "book", !.sess = s, !.expected = Available(s)]
  <2>4. /\ w \in TxState
        /\ w.pc = "book" /\ w.req = tx[t].req /\ w.at = tx[t].at /\ w.locks = tx[t].locks /\ w.mine = tx[t].mine
        /\ w.moves = tx[t].moves /\ w.ledger = tx[t].ledger /\ w.sold = tx[t].sold /\ w.sess = s
    <3> HIDE DEF Time
    <3> QED BY <2>1, <2>2, <2>3 DEF TxState, Steps
  <2>5. tx' = [tx EXCEPT ![t] = w]
    BY <1>2, <2>1
  <2> HIDE DEF w
  <2>6. tx' \in [Tx -> TxState] /\ tx'[t] = w /\ \A u \in Tx \ {t} : tx'[u] = tx[u]
    BY <2>1, <2>4, <2>5
  <2>7. R(t).op \in {"close", "withdraw", "payin"} /\ tx[t].mine = <<>> /\ tx[t].moves = {} /\ tx[t].ledger = {}
        /\ DOMAIN tx[t].mine = {} /\ R(t)' = R(t)
    BY <2>1, <2>4, <2>6, IdleState DEF CashInv, Own, Shape, At, R
  <2>8. Own(t)'
    <3>1. Shape(t) /\ R(t) \in Request
      BY <2>1, ActiveFacts DEF Own
    <3>2. Shape(t)'
      BY <1>2, <2>1, <2>2, <2>4, <2>6, <2>7, <3>1 DEF Shape, At, R
    <3> QED BY <2>4, <2>6, <2>7, <3>2 DEF Own, MineOK, MovesOK, LedgerOK, MoveOK, R
  <2>9. ASSUME NEW u \in Tx \ {t} PROVE Apart(t, u)'
    <3>1. LocksApart(t, u)'
      BY <2>4, <2>6, LocksKept
    <3> QED BY <2>1, <2>4, <2>6, <3>1, KeptApart
  <2>10. clock' \in Time /\ clock' >= clock
    BY <1>2, <2>1, ActiveFacts
  <2> QED BY <1>2, <2>6, <2>8, <2>9, <2>10, QuietStep
<1> QED BY <1>1, <1>2 DEF Look

\* What a drawer event writes next.
LEMMA AfterBookIs ==
  ASSUME NEW r
  PROVE  /\ AfterBook(r) \in {"leg", "commit"} /\ AfterBook(r) \in Steps
         /\ AfterBook(r) = "leg" => Counter(r) \in Locker
BY DEF AfterBook, Steps

LEMMA BookOpenStep ==
  ASSUME CashInv, NEW t \in Tx, BookOpen(t)
  PROVE  CashInv'
<1>1. CASE End(t)
  BY <1>1, EndStep
<1>2. ASSUME ~End(t) PROVE CashInv'
  <2> DEFINE r == R(t)
             a == tx[t].at
             n == [user |-> r.to, opening |-> r.amount, open |-> TRUE, expected |-> 0, closedAt |-> 0]
             f == [s \in {a} |-> n]
             M == {Moved(t, a, "opening", r.amount)}
             w == [tx[t] EXCEPT !.pc = AfterBook(r), !.mine = f, !.moves = M]
  <2>1. /\ At(t, "book") /\ ~At(t, "idle") /\ r.op = "open" /\ FindOpen(r.to) = {}
        /\ \A u \in Tx \ {t} : \A s \in DOMAIN tx[u].mine : tx[u].mine[s].user # r.to
        /\ tx' = [tx EXCEPT ![t] = w]
        /\ UNCHANGED <<sess, moves, ledger, sold, allowNeg, clock>>
    BY <1>2 DEF BookOpen, Stored, At
  <2>2. /\ r \in Request /\ r.to \in Cashier /\ r.amount \in Nat /\ tx[t] \in TxState /\ a \in Time /\ Own(t)
        /\ tx \in [Tx -> TxState]
    BY <2>1, ActiveFacts DEF CashInv
  <2>3. n \in Session /\ 0 \in Time
    BY <2>2, CashAssumption DEF Session, Time
  <2>4. f \in Sessions /\ DOMAIN f = {a} /\ f[a] = n
    <3>1. f \in [{a} -> Session] /\ {a} \in SUBSET Time
      BY <2>2, <2>3
    <3> QED BY <3>1, SessionsMade
  <2>5. M \in SUBSET Movement /\ IsFiniteSet(M) /\ \A m \in M : m.type = "opening"
    <3> DEFINE x == Moved(t, a, "opening", r.amount)
    <3>1. x \in Movement /\ x.type = "opening" /\ M = {x}
      BY <2>2 DEF Movement, Moved
    <3> HIDE DEF x, M
    <3> QED BY <3>1, FS_Singleton
  <2>6. n.open /\ n.user = r.to
    OBVIOUS
  <2> HIDE DEF f, M, n
  <2>7. /\ w \in TxState
        /\ w.pc = AfterBook(r) /\ w.req = tx[t].req /\ w.at = a /\ w.locks = tx[t].locks /\ w.mine = f
        /\ w.moves = M /\ w.ledger = tx[t].ledger /\ w.sold = tx[t].sold
    <3> HIDE DEF Time, r, a, Sessions
    <3>1. a = tx[t].at
      BY DEF a
    <3> QED BY <2>2, <2>4, <2>5, <3>1, AfterBookIs DEF TxState
  <2> HIDE DEF w
  <2>8. tx' \in [Tx -> TxState] /\ tx'[t] = w /\ \A u \in Tx \ {t} : tx'[u] = tx[u]
    BY <2>1, <2>2, <2>7
  <2>9. Own(t)'
    <3>1. Shape(t)'
      BY <2>1, <2>2, <2>5, <2>7, <2>8, AfterBookIs DEF Own, Shape, At, R
    <3>2. MineOK(t)'
      <4>1. PICK v : v = n
        OBVIOUS
      <4>2. FindOpen(v.user)' = FindOpen(v.user) /\ FindOpen(v.user) = {} /\ v.open
        BY <2>1, <2>6, <4>1 DEF FindOpen
      <4>3. DOMAIN tx'[t].mine = {a} /\ tx'[t].mine[a] = v /\ tx'[t].at = a
        BY <2>4, <2>7, <2>8, <4>1
      <4> HIDE DEF a
      <4>4. PICK b : b = a
        OBVIOUS
      <4>5. DOMAIN tx'[t].mine = {b} /\ tx'[t].mine[b] = v /\ tx'[t].at = b
        BY <4>3, <4>4
      <4> QED BY <4>2, <4>5 DEF MineOK
    <3>3. LedgerOK(t)'
      BY <2>1, <2>2, <2>7, <2>8, AfterBookIs DEF Own, Shape, At, LedgerOK
    <3> QED BY <2>1, <2>5, <2>7, <2>8, <3>1, <3>2, <3>3 DEF Own, MovesOK, MoveOK, R
  <2>10. ASSUME NEW u \in Tx \ {t} PROVE Apart(t, u)'
    <3>1. LocksApart(t, u)'
      BY <2>7, <2>8, LocksKept
    <3>2. OpensApart(t, u)'
      BY <2>1, <2>4, <2>6, <2>7, <2>8 DEF OpensApart
    <3>3. Apart(t, u)
      BY DEF CashInv
    <3> QED BY <2>1, <2>7, <2>8, <3>1, <3>2, <3>3 DEF Apart, At
  <2>11. clock' \in Time /\ clock' >= clock
    BY <2>1, ActiveFacts
  <2> QED BY <2>1, <2>8, <2>9, <2>10, <2>11, QuietStep
<1> QED BY <1>1, <1>2

LEMMA BookCloseStep ==
  ASSUME CashInv, NEW t \in Tx, BookClose(t)
  PROVE  CashInv'
<1> DEFINE r == R(t)
           s == tx[t].sess
           n == [sess[s] EXCEPT !.open = FALSE, !.expected = tx[t].expected, !.closedAt = clock]
           f == [q \in {s} |-> n]
           M == {Moved(t, s, "closing", r.amount)}
           K == {<<s, "nokey">>}
           w == [tx[t] EXCEPT !.pc = AfterBook(r), !.locks = K, !.mine = f, !.moves = M]
<1>1. /\ At(t, "book") /\ ~At(t, "idle") /\ r.op = "close" /\ Free(t, s, "nokey")
      /\ tx' = [tx EXCEPT ![t] = w]
      /\ UNCHANGED <<sess, moves, ledger, sold, allowNeg, clock>>
  BY DEF BookClose, Stored, At
<1>2. /\ r \in Request /\ r.amount \in Nat /\ tx[t] \in TxState /\ tx[t].at \in Time /\ Own(t)
      /\ tx \in [Tx -> TxState] /\ clock \in Time
  BY <1>1, ActiveFacts DEF CashInv
<1>3. s \in DOMAIN sess /\ s \in Time /\ s \in Row /\ sess[s] \in Session /\ tx[t].expected \in Int
  <2>1. s \in DOMAIN sess
    BY <1>1, <1>2 DEF Own, Shape
  <2> QED BY <1>2, <2>1, SessionsAre, TxFacts DEF CashInv, Tables, Row
<1>4. n \in Session /\ ~n.open
  <2> HIDE DEF s, Time
  <2> QED BY <1>2, <1>3 DEF Session
<1>5. f \in Sessions /\ DOMAIN f = {s} /\ f[s] = n
  <2>1. f \in [{s} -> Session] /\ {s} \in SUBSET Time
    BY <1>3, <1>4
  <2> QED BY <2>1, SessionsMade
<1>6. M \in SUBSET Movement /\ IsFiniteSet(M) /\ \A m \in M : m.type = "closing"
  <2> DEFINE x == Moved(t, s, "closing", r.amount)
  <2>1. x \in Movement /\ x.type = "closing" /\ M = {x}
    BY <1>2, <1>3 DEF Movement, Moved
  <2> HIDE DEF x, M
  <2> QED BY <2>1, FS_Singleton
<1>7. K \in SUBSET (Row \X Mode) /\ <<s, "nokey">> \in K /\ "nokey" \in Mode
  BY <1>3 DEF Mode
<1> HIDE DEF f, M, n, K
<1>8. /\ w \in TxState
      /\ w.pc = AfterBook(r) /\ w.req = tx[t].req /\ w.at = tx[t].at /\ w.locks = K /\ w.mine = f
      /\ w.moves = M /\ w.ledger = tx[t].ledger /\ w.sold = tx[t].sold
  <2> HIDE DEF Time, r, Sessions
  <2> QED BY <1>2, <1>5, <1>6, <1>7, AfterBookIs DEF TxState
<1> HIDE DEF w
<1>9. tx' \in [Tx -> TxState] /\ tx'[t] = w /\ \A u \in Tx \ {t} : tx'[u] = tx[u]
  BY <1>1, <1>2, <1>8
<1>10. Own(t)'
  <2>1. Shape(t)'
    BY <1>1, <1>2, <1>6, <1>8, <1>9, AfterBookIs DEF Own, Shape, At, R
  <2>2. MineOK(t)'
    BY <1>1, <1>3, <1>4, <1>5, <1>7, <1>8, <1>9 DEF MineOK, Holds
  <2>3. LedgerOK(t)'
    BY <1>1, <1>2, <1>8, <1>9, AfterBookIs DEF Own, Shape, At, LedgerOK
  <2> QED BY <1>1, <1>6, <1>8, <1>9, <2>1, <2>2, <2>3 DEF Own, MovesOK, MoveOK, R
<1>11. ASSUME NEW u \in Tx \ {t} PROVE Apart(t, u)'
  <2>1. w.locks \subseteq tx[t].locks \cup {<<s, "nokey">>}
    BY <1>8 DEF K
  <2>2. LocksApart(t, u)'
    BY <1>1, <1>3, <1>7, <1>9, <2>1, LocksFree
  <2> QED BY <1>1, <1>4, <1>5, <1>8, <1>9, <2>2, KeptApart
<1>12. clock' \in Time /\ clock' >= clock
  BY <1>1, ActiveFacts
<1> QED BY <1>1, <1>9, <1>10, <1>11, <1>12, QuietStep

LEMMA BookAdjustStep ==
  ASSUME CashInv, NEW t \in Tx, BookAdjust(t)
  PROVE  CashInv'
<1> DEFINE r == R(t)
           s == tx[t].sess
           x == Moved(t, s, "adjust", IF CashIn(r) THEN r.amount ELSE -r.amount)
           M == {x}
           K == {<<s, "key">>}
           w == [tx[t] EXCEPT !.pc = AfterBook(r), !.locks = K, !.moves = M]
<1>1. /\ At(t, "book") /\ ~At(t, "idle") /\ r.op \in {"withdraw", "payin"} /\ Free(t, s, "key")
      /\ tx' = [tx EXCEPT ![t] = w]
      /\ UNCHANGED <<sess, moves, ledger, sold, allowNeg, clock>>
  BY DEF BookAdjust, Stored, At
<1>2. /\ r \in Request /\ r.amount \in Nat /\ tx[t] \in TxState /\ tx[t].at \in Time /\ Own(t)
      /\ tx \in [Tx -> TxState] /\ clock \in Time
  BY <1>1, ActiveFacts DEF CashInv
<1>3. s \in DOMAIN sess /\ s \in Time /\ s \in Row
  <2>1. s \in DOMAIN sess
    BY <1>1, <1>2 DEF Own, Shape
  <2> QED BY <1>2, <2>1, TxFacts DEF Row
<1>4. M \in SUBSET Movement /\ IsFiniteSet(M) /\ \A m \in M : m.session = s
  <2>1. x \in Movement /\ x.session = s
    BY <1>2, <1>3 DEF Movement, Moved
  <2> HIDE DEF x
  <2> QED BY <2>1, FS_Singleton
<1>5. K \in SUBSET (Row \X Mode) /\ <<s, "key">> \in K /\ "key" \in Mode
  BY <1>3 DEF Mode
<1> HIDE DEF x, M, K
<1>6. /\ w \in TxState
      /\ w.pc = AfterBook(r) /\ w.req = tx[t].req /\ w.at = tx[t].at /\ w.locks = K /\ w.mine = tx[t].mine
      /\ w.moves = M /\ w.ledger = tx[t].ledger /\ w.sold = tx[t].sold
  <2> HIDE DEF Time, r, Sessions
  <2> QED BY <1>2, <1>4, <1>5, AfterBookIs DEF TxState
<1> HIDE DEF w
<1>7. tx' \in [Tx -> TxState] /\ tx'[t] = w /\ \A u \in Tx \ {t} : tx'[u] = tx[u]
  BY <1>1, <1>2, <1>6
<1>8. tx[t].mine = <<>> /\ DOMAIN tx[t].mine = {}
  BY <1>1, <1>2, IdleState DEF Own, Shape, At
<1>9. Own(t)'
  <2>1. Shape(t)'
    BY <1>1, <1>2, <1>4, <1>6, <1>7, AfterBookIs DEF Own, Shape, At, R
  <2>2. LedgerOK(t)'
    BY <1>1, <1>2, <1>6, <1>7, AfterBookIs DEF Own, Shape, At, LedgerOK
  <2>3. MovesOK(t)'
    BY <1>4, <1>5, <1>6, <1>7 DEF MovesOK, Holds
  <2> QED BY <1>1, <1>6, <1>7, <1>8, <2>1, <2>2, <2>3 DEF Own, MineOK, MoveOK, R
<1>10. ASSUME NEW u \in Tx \ {t} PROVE Apart(t, u)'
  <2>1. w.locks \subseteq tx[t].locks \cup {<<s, "key">>}
    BY <1>6 DEF K
  <2>2. LocksApart(t, u)'
    BY <1>1, <1>3, <1>5, <1>7, <2>1, LocksFree
  <2> QED BY <1>1, <1>6, <1>7, <1>8, <2>2, KeptApart
<1>11. clock' \in Time /\ clock' >= clock
  BY <1>1, ActiveFacts
<1> QED BY <1>1, <1>7, <1>9, <1>10, <1>11, QuietStep

LEMMA LegStep ==
  ASSUME CashInv, NEW t \in Tx, Leg(t)
  PROVE  CashInv'
<1>1. CASE End(t)
  BY <1>1, EndStep
<1>2. ASSUME ~End(t) PROVE CashInv'
  <2> DEFINE r == R(t)
  <2>11. PICK k : k = Counter(r)
    OBVIOUS
  <2>12. PICK x : x = Entered(t, k, IF CashIn(r) THEN -r.amount ELSE r.amount)
    OBVIOUS
  <2> DEFINE L == {x}
             K == {<<k, "update">>}
             w == [tx[t] EXCEPT !.pc = "commit", !.locks = @ \cup K, !.ledger = L]
  <2>1. /\ At(t, "leg") /\ ~At(t, "idle") /\ Free(t, k, "update") /\ ~(CashIn(r) /\ ~Covered(k, r.amount))
        /\ tx' = [tx EXCEPT ![t] = w]
        /\ UNCHANGED <<sess, moves, ledger, sold, allowNeg, clock>>
    BY <1>2, <2>11, <2>12 DEF Leg, Stored, At, GetForUpdate
  <2>2. /\ r \in Request /\ r.amount \in Nat /\ tx[t] \in TxState /\ tx[t].at \in Time /\ Own(t)
        /\ tx \in [Tx -> TxState] /\ clock \in Time /\ k \in Locker /\ r.op # "move"
        /\ k \in Row /\ "update" \in Mode /\ \A m \in Mode : Conflict(m, "update")
    <3>1. k \in Locker /\ r.op # "move"
      BY <2>1, <2>11, ActiveFacts DEF Own, Shape, At
    <3> QED BY <2>1, <3>1, ActiveFacts DEF CashInv, Row, Mode, Conflict
  <2>3. L \in SUBSET Entry /\ IsFiniteSet(L) /\ x.locker = k /\ (x.delta < 0 => Covered(k, -x.delta))
    <3>1. x \in Entry /\ x.locker = k
      BY <2>2, <2>12 DEF Entry, Entered
    <3>2. x.delta < 0 => CashIn(r) /\ -x.delta = r.amount
      BY <2>2, <2>12 DEF Entered
    <3>3. x.delta < 0 => Covered(k, -x.delta)
      BY <2>1, <3>2
    <3> QED BY <3>1, <3>3, FS_Singleton
  <2>4. \A e \in L : e = x
    OBVIOUS
  <2>13. K \in SUBSET (Row \X Mode)
    BY <2>2
  <2> HIDE DEF L, K
  <2>5. /\ w \in TxState
        /\ w.pc = "commit" /\ w.req = tx[t].req /\ w.at = tx[t].at /\ w.locks = tx[t].locks \cup K
        /\ w.mine = tx[t].mine /\ w.moves = tx[t].moves /\ w.ledger = L /\ w.sold = tx[t].sold
    <3> HIDE DEF Time, r, Sessions, Row
    <3> QED BY <2>2, <2>3, <2>13 DEF TxState, Steps
  <2> HIDE DEF w
  <2>6. tx' \in [Tx -> TxState] /\ tx'[t] = w /\ \A u \in Tx \ {t} : tx'[u] = tx[u]
    BY <2>1, <2>2, <2>5
  <2>7. Own(t)'
    <3>1. Shape(t)'
      BY <2>1, <2>2, <2>3, <2>5, <2>6 DEF Own, Shape, At, R
    <3>2. LedgerOK(t)'
      <4>1. Holds(t, k, "update")'
        BY <2>5, <2>6 DEF Holds, K
      <4>2. x.delta < 0 => Covered(k, -x.delta)'
        BY <2>1, <2>3 DEF Covered, Balance
      <4> QED BY <2>2, <2>3, <2>4, <2>5, <2>6, <4>1, <4>2 DEF LedgerOK
    <3>3. \A q, m : Holds(t, q, m) => Holds(t, q, m)'
      BY <2>5, <2>6 DEF Holds
    <3>4. MovesOK(t)'
      BY <2>2, <2>5, <2>6, <3>3 DEF Own, MovesOK
    <3>5. MineOK(t)'
      BY <2>1, <2>2, <2>5, <2>6, <3>3 DEF Own, MineOK, FindOpen
    <3> QED BY <2>2, <2>5, <2>6, <3>1, <3>2, <3>4, <3>5 DEF Own, MoveOK, R
  <2>8. ASSUME NEW u \in Tx \ {t} PROVE Apart(t, u)'
    <3>1. LocksApart(t, u)'
      BY <2>1, <2>2, <2>5, <2>6, LocksFree DEF K
    <3> QED BY <2>1, <2>5, <2>6, <3>1, KeptApart
  <2>9. clock' \in Time /\ clock' >= clock
    BY <2>1, ActiveFacts
  <2> QED BY <2>1, <2>6, <2>7, <2>8, <2>9, QuietStep
<1> QED BY <1>1, <1>2

\* A move that takes its next step, having locked K, and written nothing.
Walked(t, w, next, K) ==
  /\ w \in TxState
  /\ w.pc = next /\ w.req = tx[t].req /\ w.at = tx[t].at /\ w.locks = tx[t].locks \cup K /\ w.mine = tx[t].mine
  /\ w.moves = tx[t].moves /\ w.ledger = tx[t].ledger /\ w.sold = tx[t].sold

LEMMA WalkedIs ==
  ASSUME NEW t \in Tx, tx[t] \in TxState, NEW next \in {"to", "guard", "legs"}, NEW K \in SUBSET (Row \X Mode)
  PROVE  /\ Walked(t, [tx[t] EXCEPT !.pc = next, !.locks = @ \cup K], next, K)
         /\ Walked(t, [tx[t] EXCEPT !.pc = next], next, {})
<1> HIDE DEF Time, Row, Sessions
<1> QED BY DEF Walked, TxState, Steps

LEMMA WalkStep ==
  ASSUME CashInv, NEW t \in Tx, tx[t].pc \in {"from", "to", "guard"}, NEW next \in {"to", "guard", "legs"},
         NEW K \in SUBSET (Row \X Mode), NEW w, Walked(t, w, next, K),
         tx' = [tx EXCEPT ![t] = w], Stored, MoveOK(t)', \A u \in Tx \ {t} : LocksApart(t, u)'
  PROVE  CashInv'
<1>1. ~At(t, "idle") /\ R(t).op = "move" /\ Own(t) /\ tx \in [Tx -> TxState]
  BY DEF At, CashInv, Own, Shape
<1>2. UNCHANGED <<sess, moves, ledger, sold, allowNeg, clock>>
  BY DEF Stored
<1>3. tx' \in [Tx -> TxState] /\ tx'[t] = w /\ \A u \in Tx \ {t} : tx'[u] = tx[u]
  BY <1>1 DEF Walked
<1>4. tx[t].mine = <<>> /\ DOMAIN tx[t].mine = {} /\ tx[t].moves = {} /\ tx[t].ledger = {}
  BY <1>1, IdleState DEF Own, Shape
<1>5. Own(t)'
  <2>1. R(t) \in Request /\ tx[t].at \in 1 .. clock /\ tx[t].at \notin DOMAIN sess
    BY <1>1, ActiveFacts
  <2>2. Shape(t)'
    BY <1>1, <1>2, <1>3, <1>4, <2>1 DEF Own, Shape, At, R, Walked
  <2> QED BY <1>3, <1>4, <2>2 DEF Own, MineOK, MovesOK, LedgerOK, Walked
<1>6. ASSUME NEW u \in Tx \ {t} PROVE Apart(t, u)'
  BY <1>1, <1>3, <1>4, KeptApart DEF Walked
<1>7. clock' \in Time /\ clock' >= clock
  BY <1>1, <1>2, ActiveFacts
<1> QED BY <1>2, <1>3, <1>5, <1>6, <1>7, QuietStep

\* The places that a move has locked stay locked while it takes further steps.
LEMMA TillKept ==
  ASSUME CashInv, NEW t \in Tx, NEW p, TillHeld(t, p), UNCHANGED sess, tx[t].locks \subseteq tx'[t].locks
  PROVE  TillHeld(t, p)'
BY DEF TillHeld, Holds, FindOpen

\* One of the two places is passed: it is no drawer, or its session is locked.
LEMMA LockTillStep ==
  ASSUME CashInv, NEW t \in Tx, NEW place \in Place, NEW next \in {"to", "guard"},
         \/ At(t, "from") /\ next = "to" /\ place = R(t).from
         \/ At(t, "to") /\ next = "guard" /\ place = R(t).to,
         LockTill(t, place, next)
  PROVE  CashInv'
<1>1. CASE End(t)
  BY <1>1, EndStep
<1>2. ASSUME NEW K \in SUBSET (Row \X Mode), NEW w, Walked(t, w, next, K), tx' = [tx EXCEPT ![t] = w], Stored,
             place \in Cashier => \E s \in FindOpen(place) : <<s, "update">> \in K,
             \A u \in Tx \ {t} : LocksApart(t, u)'
      PROVE  CashInv'
  <2>1. /\ ~At(t, "idle") /\ R(t).op = "move" /\ Own(t) /\ tx \in [Tx -> TxState]
        /\ tx[t].pc \in {"from", "to"} /\ tx[t].mine = <<>> /\ tx[t].sold = {} /\ tx[t].moves = {}
    BY DEF At, CashInv, Own, Shape, MoveOK
  <2>2. UNCHANGED sess /\ tx'[t] = w /\ tx[t].locks \subseteq w.locks /\ K \subseteq w.locks
    BY <1>2, <2>1 DEF Stored, Walked
  <2>3. TillHeld(t, place)'
    <3> SUFFICES ASSUME place \in Cashier PROVE TillHeld(t, place)'
      BY DEF TillHeld
    <3>1. PICK s \in FindOpen(place) : <<s, "update">> \in K
      BY <1>2
    <3>2. FindOpen(place) = {s} /\ s \in DOMAIN sess
      BY <3>1 DEF FindOpen, CashInv, OneOpen
    <3>3. FindOpen(place)' = {s} /\ s \in DOMAIN sess' /\ Holds(t, s, "update")'
      BY <2>2, <3>1, <3>2 DEF FindOpen, Holds
    <3> QED BY <3>3 DEF TillHeld
  <2>4. R(t)' = R(t)
    BY <2>2, <1>2 DEF R, Walked
  <2>5. MoveOK(t)'
    <3>1. w.mine = <<>> /\ w.sold = {} /\ w.moves = {}
      BY <1>2, <2>1 DEF Walked
    <3>2. next = "to" => TillHeld(t, R(t).from)'
      BY <2>3, <2>4 DEF At
    <3>3. next = "guard" => TillHeld(t, R(t).to)' /\ TillHeld(t, R(t).from)'
      <4> SUFFICES ASSUME next = "guard" PROVE TillHeld(t, R(t).to)' /\ TillHeld(t, R(t).from)'
        OBVIOUS
      <4>1. At(t, "to") /\ place = R(t).to /\ TillHeld(t, R(t).from)
        BY <2>1 DEF Own, MoveOK, At
      <4>2. PICK p : p = R(t).from
        OBVIOUS
      <4>3. TillHeld(t, p)'
        BY <2>2, <4>1, <4>2, TillKept
      <4> QED BY <2>3, <2>4, <4>1, <4>2, <4>3
    <3>4. w.pc = next
      BY <1>2 DEF Walked
    <3> QED BY <2>2, <3>1, <3>2, <3>3, <3>4 DEF MoveOK
  <2> QED BY <1>2, <2>1, <2>5, WalkStep
<1>3. tx[t] \in TxState /\ tx \in [Tx -> TxState]
  BY DEF CashInv
<1>4. CASE place \notin Cashier /\ tx' = [tx EXCEPT ![t].pc = next] /\ Stored
  <2>1. PICK w : w = [tx[t] EXCEPT !.pc = next]
    OBVIOUS
  <2>2. Walked(t, w, next, {}) /\ {} \in SUBSET (Row \X Mode) /\ tx' = [tx EXCEPT ![t] = w]
    BY <1>3, <1>4, <2>1, WalkedIs
  <2>3. tx'[t].locks \subseteq tx[t].locks /\ \A u \in Tx \ {t} : tx'[u] = tx[u]
    BY <1>3, <2>2 DEF Walked
  <2>4. \A u \in Tx \ {t} : LocksApart(t, u)'
    BY <2>3, LocksKept
  <2> QED BY <1>2, <1>4, <2>2, <2>4
<1>5. ASSUME NEW s \in FindOpen(place), Free(t, s, "update"),
             tx' = [tx EXCEPT ![t].pc = next, ![t].locks = @ \cup {<<s, "update">>}], Stored
      PROVE  CashInv'
  <2>1. s \in Row /\ "update" \in Mode /\ {<<s, "update">>} \in SUBSET (Row \X Mode)
    <3>1. s \in Time
      BY SessionsAre DEF FindOpen, CashInv, Tables
    <3> QED BY <3>1 DEF Row, Mode
  <2>2. PICK w : w = [tx[t] EXCEPT !.pc = next, !.locks = @ \cup {<<s, "update">>}]
    OBVIOUS
  <2>3. Walked(t, w, next, {<<s, "update">>}) /\ tx' = [tx EXCEPT ![t] = w]
    BY <1>3, <1>5, <2>1, <2>2, WalkedIs
  <2>4. tx'[t].locks \subseteq tx[t].locks \cup {<<s, "update">>} /\ \A u \in Tx \ {t} : tx'[u] = tx[u]
    BY <1>3, <2>3 DEF Walked
  <2>5. \A u \in Tx \ {t} : LocksApart(t, u)'
    BY <1>5, <2>1, <2>4, LocksFree
  <2> QED BY <1>2, <1>5, <2>1, <2>3, <2>5
<1> QED BY <1>1, <1>4, <1>5 DEF LockTill

\* The guard: what the source holds is read under its lock.
LEMMA GuardStep ==
  ASSUME CashInv, NEW t \in Tx, GuardSource(t)
  PROVE  CashInv'
<1>1. CASE End(t)
  BY <1>1, EndStep
<1>2. /\ At(t, "guard") /\ ~At(t, "idle") /\ R(t).op = "move" /\ Own(t) /\ tx \in [Tx -> TxState] /\ tx[t] \in TxState
      /\ tx[t].mine = <<>> /\ tx[t].sold = {} /\ tx[t].moves = {} /\ TillHeld(t, R(t).from) /\ TillHeld(t, R(t).to)
  BY DEF GuardSource, At, CashInv, Own, Shape, MoveOK
<1>3. External \notin Cashier /\ External \notin Locker /\ Cashier \cap Locker = {}
  BY CashAssumption
<1>4. ASSUME NEW K \in SUBSET (Row \X Mode),
             tx' = [tx EXCEPT ![t].pc = "legs", ![t].locks = @ \cup K], Stored,
             \A s \in FindOpen(R(t).from) : R(t).amount <= Available(s),
             R(t).from \in Locker => <<R(t).from, "update">> \in K /\ Covered(R(t).from, R(t).amount),
             K # {} => \E k \in Row : K = {<<k, "update">>} /\ Free(t, k, "update")
      PROVE  CashInv'
  <2>1. PICK w : w = [tx[t] EXCEPT !.pc = "legs", !.locks = @ \cup K]
    OBVIOUS
  <2>2. Walked(t, w, "legs", K) /\ tx' = [tx EXCEPT ![t] = w]
    BY <1>2, <1>4, <2>1, WalkedIs
  <2>3. tx'[t] = w /\ (\A u \in Tx \ {t} : tx'[u] = tx[u]) /\ tx[t].locks \subseteq w.locks /\ K \subseteq w.locks
        /\ w.locks = tx[t].locks \cup K /\ w.pc = "legs"
    BY <1>2, <2>2 DEF Walked
  <2>4. \A u \in Tx \ {t} : LocksApart(t, u)'
    <3>1. CASE K = {}
      <4>1. tx'[t].locks \subseteq tx[t].locks
        BY <2>3, <3>1
      <4> QED BY <4>1, <2>3, LocksKept
    <3>2. CASE K # {}
      <4>1. PICK k \in Row : K = {<<k, "update">>} /\ Free(t, k, "update")
        BY <1>4, <3>2
      <4>2. "update" \in Mode
        BY DEF Mode
      <4> QED BY <2>3, <4>1, <4>2, LocksFree
    <3> QED BY <3>1, <3>2
  <2>5. UNCHANGED <<sess, moves, ledger, sold, allowNeg>> /\ R(t)' = R(t)
    BY <1>4, <2>2, <2>3 DEF Stored, R, Walked
  <2>6. PICK r : r = R(t)
    OBVIOUS
  <2>7. TillHeld(t, r.from)' /\ TillHeld(t, r.to)'
    BY <1>2, <2>3, <2>5, <2>6, TillKept
  <2>8. SourceOK(t)'
    <3>1. \A s \in FindOpen(r.from)' : r.amount <= Available(s)'
      BY <1>4, <2>5, <2>6 DEF FindOpen, Available, CashCollectedSince, AdjustmentTotal
    <3>2. r.from \in Locker => Holds(t, r.from, "update")' /\ Covered(r.from, r.amount)'
      BY <1>4, <2>3, <2>5, <2>6 DEF Holds, Covered, Balance
    <3> QED BY <2>5, <2>6, <3>1, <3>2 DEF SourceOK
  <2>9. MoveOK(t)'
    <3>1. w.mine = <<>> /\ w.sold = {} /\ w.moves = {}
      BY <1>2, <2>2 DEF Walked
    <3> QED BY <2>3, <2>5, <2>6, <2>7, <2>8, <3>1 DEF MoveOK
  <2> QED BY <1>2, <1>4, <2>2, <2>4, <2>9, WalkStep DEF At
<1>5. CASE R(t).from = External /\ tx' = [tx EXCEPT ![t].pc = "legs", ![t].locks = @ \cup {}] /\ Stored
  <2>1. FindOpen(R(t).from) = {}
    <3>1. \A s \in DOMAIN sess : sess[s].user \in Cashier
      BY SessionsAre DEF CashInv, Tables, Session
    <3> QED BY <1>3, <1>5, <3>1 DEF FindOpen
  <2> QED BY <1>3, <1>4, <1>5, <2>1
<1>6. ASSUME R(t).from \in Cashier, NEW s \in FindOpen(R(t).from), ~(R(t).amount > Available(s)),
             tx' = [tx EXCEPT ![t].pc = "legs", ![t].locks = @ \cup {}], Stored
      PROVE  CashInv'
  <2>1. \A q \in FindOpen(R(t).from) : q = s
    BY <1>6 DEF FindOpen, CashInv, OneOpen
  <2>2. R(t).amount \in Int /\ Available(s) \in Int
    BY <1>2, <1>6, ActiveFacts, AvailableInt DEF FindOpen
  <2>3. R(t).amount <= Available(s)
    BY <1>6, <2>2
  <2> QED BY <1>3, <1>4, <1>6, <2>1, <2>3
<1>7. CASE /\ R(t).from \in Locker /\ Free(t, R(t).from, "update") /\ Covered(R(t).from, R(t).amount)
           /\ tx' = [tx EXCEPT ![t].pc = "legs", ![t].locks = @ \cup {<<R(t).from, "update">>}] /\ Stored
  <2>1. FindOpen(R(t).from) = {}
    <3>1. \A s \in DOMAIN sess : sess[s].user \in Cashier
      BY SessionsAre DEF CashInv, Tables, Session
    <3> QED BY <1>3, <1>7, <3>1 DEF FindOpen
  <2>2. R(t).from \in Row /\ {<<R(t).from, "update">>} \in SUBSET (Row \X Mode)
    BY <1>7 DEF Row, Mode
  <2> QED BY <1>4, <1>7, <2>1, <2>2
<1> QED BY <1>1, <1>5, <1>6, <1>7 DEF GuardSource, GetForUpdate

\* Both legs: a movement for a drawer, an entry for a locker.
LEMMA LegsStep ==
  ASSUME CashInv, NEW t \in Tx, Legs(t)
  PROVE  CashInv'
<1>1. PICK r : r = R(t)
  OBVIOUS
<1> DEFINE side == {[place |-> r.from, n |-> -r.amount], [place |-> r.to, n |-> r.amount]}
           K == IF r.to \in Locker THEN {<<r.to, "key">>} ELSE {}
           M == UNION {{Moved(t, s, "adjust", d.n) : s \in FindOpen(d.place)} : d \in side}
           L == {Entered(t, d.place, d.n) : d \in LockerSides(side)}
           w == [tx[t] EXCEPT !.pc = "commit", !.locks = @ \cup K, !.moves = M, !.ledger = L]
<1>2. /\ At(t, "legs") /\ ~At(t, "idle") /\ r.op = "move" /\ Own(t) /\ tx \in [Tx -> TxState] /\ tx[t] \in TxState
      /\ tx[t].mine = <<>> /\ tx[t].sold = {} /\ TillHeld(t, r.from) /\ TillHeld(t, r.to) /\ SourceOK(t)
      /\ DOMAIN tx[t].mine = {}
  BY <1>1, IdleState DEF Legs, At, CashInv, Own, Shape, MoveOK
<1>3. /\ r.to \in Locker => Free(t, r.to, "key")
      /\ tx' = [tx EXCEPT ![t] = w]
      /\ UNCHANGED <<sess, moves, ledger, sold, allowNeg, clock>>
  BY <1>1 DEF Legs, Stored
<1>4. /\ r \in Request /\ r.amount \in Nat /\ r.amount > 0 /\ tx[t].at \in Time /\ r.from # r.to
      /\ Cashier \cap Locker = {}
  BY <1>1, <1>2, ActiveFacts, CashAssumption
<1>5. \A p : \A s \in FindOpen(p) : s \in DOMAIN sess /\ s \in Time /\ s \in Row /\ p \in Cashier
  BY AvailableInt DEF FindOpen, Row, Session
<1>6. \A s, n : Moved(t, s, "adjust", n) = [session |-> s, type |-> "adjust", amount |-> n, at |-> tx[t].at]
  BY DEF Moved
<1>7. \A m \in M : /\ m.type = "adjust" /\ m \in Movement /\ m.at = tx[t].at
                   /\ \/ m.session \in FindOpen(r.from) /\ m.amount = -r.amount
                      \/ m.session \in FindOpen(r.to) /\ m.amount = r.amount
  BY <1>4, <1>5, <1>6 DEF Movement
<1>8. \A e \in L : /\ e \in Entry
                   /\ \/ e.locker = r.from /\ e.locker \in Locker /\ e.delta = -r.amount
                      \/ e.locker = r.to /\ e.locker \in Locker /\ e.delta = r.amount
  BY <1>4 DEF Entered, Entry, LockerSides
<1>9. \A e, f \in L : e.locker = f.locker => e = f
  BY <1>4 DEF Entered, LockerSides
<1>10. IsFiniteSet(M)
  <2>1. ASSUME NEW p, TillHeld(t, p), NEW n PROVE IsFiniteSet({Moved(t, s, "adjust", n) : s \in FindOpen(p)})
    <3>1. FindOpen(p) = {} \/ \E s : FindOpen(p) = {s}
      BY <1>5, <2>1 DEF TillHeld
    <3>2. CASE FindOpen(p) = {}
      BY <3>2, FS_EmptySet
    <3>3. ASSUME NEW s, FindOpen(p) = {s} PROVE IsFiniteSet({Moved(t, q, "adjust", n) : q \in FindOpen(p)})
      <4>1. {Moved(t, q, "adjust", n) : q \in FindOpen(p)} = {Moved(t, s, "adjust", n)}
        BY <3>3
      <4> QED BY <4>1, FS_Singleton
    <3> QED BY <3>1, <3>2, <3>3
  <2> DEFINE A == {Moved(t, s, "adjust", -r.amount) : s \in FindOpen(r.from)}
             B == {Moved(t, s, "adjust", r.amount) : s \in FindOpen(r.to)}
  <2>2. M = A \cup B
    OBVIOUS
  <2>3. IsFiniteSet(A) /\ IsFiniteSet(B)
    BY <1>2, <2>1
  <2> HIDE DEF A, B, M
  <2> QED BY <2>2, <2>3, FS_Union
<1>11. IsFiniteSet(L)
  <2> DEFINE a == Entered(t, r.from, -r.amount)
             b == Entered(t, r.to, r.amount)
  <2>1. L \subseteq {a, b}
    BY DEF LockerSides
  <2>2. IsFiniteSet({a, b})
    <3> HIDE DEF a, b
    <3>1. IsFiniteSet({a} \cup {b})
      BY FS_Singleton, FS_Union
    <3>2. {a} \cup {b} = {a, b}
      OBVIOUS
    <3> QED BY <3>1, <3>2
  <2> QED BY <2>1, <2>2, FS_Subset
<1>12. K \in SUBSET (Row \X Mode) /\ (r.to \in Locker => <<r.to, "key">> \in K) /\ "key" \in Mode /\ "update" \in Mode
  BY DEF Row, Mode
<1> HIDE DEF side, K, M, L
<1>13. /\ w \in TxState
       /\ w.pc = "commit" /\ w.req = tx[t].req /\ w.at = tx[t].at /\ w.locks = tx[t].locks \cup K
       /\ w.mine = tx[t].mine /\ w.moves = M /\ w.ledger = L /\ w.sold = tx[t].sold
  <2>1. M \in SUBSET Movement /\ L \in SUBSET Entry
    BY <1>7, <1>8
  <2> HIDE DEF Time, Sessions, Row
  <2> QED BY <1>2, <1>12, <2>1 DEF TxState, Steps
<1> HIDE DEF w
<1>14. tx' \in [Tx -> TxState] /\ tx'[t] = w /\ (\A u \in Tx \ {t} : tx'[u] = tx[u]) /\ R(t)' = r
  BY <1>1, <1>2, <1>3, <1>13 DEF R
<1>15. \A row, m : Holds(t, row, m) => Holds(t, row, m)'
  BY <1>13, <1>14 DEF Holds
<1>16. Own(t)'
  <2>1. Shape(t)'
    <3>1. R(t) \in Request /\ tx[t].at \in 1 .. clock /\ tx[t].at \notin DOMAIN sess
      BY <1>2, ActiveFacts
    <3>2. IsFiniteSet(tx[t].sold)
      BY <1>2, FS_EmptySet
    <3> QED BY <1>1, <1>3, <1>10, <1>11, <1>13, <1>14, <3>1, <3>2 DEF Shape, At
  <2>2. MineOK(t)'
    BY <1>2, <1>13, <1>14 DEF MineOK
  <2>3. MovesOK(t)'
    <3> SUFFICES ASSUME NEW m \in M PROVE Holds(t, m.session, "update")'
      BY <1>12, <1>13, <1>14 DEF MovesOK
    <3>1. PICK p : m.session \in FindOpen(p) /\ TillHeld(t, p)
      BY <1>2, <1>7
    <3>2. Holds(t, m.session, "update")
      BY <1>5, <3>1 DEF TillHeld
    <3> QED BY <3>2, <1>15
  <2>4. LedgerOK(t)'
    <3>1. ASSUME NEW e \in L
          PROVE  /\ \E n \in Mode : Holds(t, e.locker, n)'
                 /\ e.delta < 0 => Holds(t, e.locker, "update")' /\ Covered(e.locker, -e.delta)'
      <4>1. CASE e.locker = r.to /\ e.locker \in Locker /\ e.delta = r.amount
        BY <1>4, <1>12, <1>13, <1>14, <4>1 DEF Holds
      <4>2. CASE e.locker = r.from /\ e.locker \in Locker /\ e.delta = -r.amount
        <5>1. Holds(t, r.from, "update") /\ Covered(r.from, r.amount)
          BY <1>1, <1>2, <4>2 DEF SourceOK
        <5>2. Covered(r.from, r.amount)'
          BY <1>3, <5>1 DEF Covered, Balance
        <5>3. -e.delta = r.amount
          BY <1>4, <4>2
        <5>4. PICK k, n : k = e.locker /\ n = -e.delta
          OBVIOUS
        <5>5. Covered(k, n)' /\ Holds(t, k, "update")'
          BY <1>15, <4>2, <5>1, <5>2, <5>3, <5>4
        <5> QED BY <1>12, <5>4, <5>5
      <4> QED BY <1>8, <4>1, <4>2
    <3> QED BY <1>9, <1>13, <1>14, <3>1 DEF LedgerOK
  <2>5. MoveOK(t)'
    <3>1. TillHeld(t, r.from)' /\ TillHeld(t, r.to)'
      <4>1. tx[t].locks \subseteq tx'[t].locks
        BY <1>13, <1>14
      <4> QED BY <1>2, <1>3, <4>1, TillKept
    <3>2. SourceOK(t)'
      <4>1. \A s \in FindOpen(r.from)' : r.amount <= Available(s)'
        BY <1>1, <1>2, <1>3 DEF SourceOK, FindOpen, Available, CashCollectedSince, AdjustmentTotal
      <4>2. r.from \in Locker => Holds(t, r.from, "update")'
        BY <1>1, <1>2, <1>15 DEF SourceOK
      <4>3. ~At(t, "legs")'
        BY <1>13, <1>14 DEF At
      <4> QED BY <1>14, <4>1, <4>2, <4>3 DEF SourceOK
    <3>3. \A m \in M : MoveRow(t, m)'
      BY <1>3, <1>5, <1>7, <1>13, <1>14 DEF MoveRow, FindOpen
    <3> QED BY <1>2, <1>13, <1>14, <3>1, <3>2, <3>3 DEF MoveOK
  <2> QED BY <2>1, <2>2, <2>3, <2>4, <2>5 DEF Own
<1>17. ASSUME NEW u \in Tx \ {t} PROVE Apart(t, u)'
  <2>1. LocksApart(t, u)'
    <3>1. CASE r.to \in Locker
      <4>1. tx'[t].locks \subseteq tx[t].locks \cup {<<r.to, "key">>} /\ r.to \in Row
        BY <1>13, <1>14, <3>1 DEF K, Row
      <4> QED BY <1>3, <1>12, <1>14, <3>1, <4>1, LocksFree
    <3>2. CASE r.to \notin Locker
      <4>1. tx'[t].locks \subseteq tx[t].locks
        BY <1>13, <1>14, <3>2 DEF K
      <4> QED BY <1>14, <4>1, LocksKept
    <3> QED BY <3>1, <3>2
  <2> QED BY <1>2, <1>13, <1>14, <2>1, KeptApart
<1>18. clock' \in Time /\ clock' >= clock
  BY <1>2, <1>3, ActiveFacts
<1> QED BY <1>3, <1>14, <1>16, <1>17, <1>18, QuietStep

-----------------------------------------------------------------------------
(***************************************************************************)
(* The steps that change the tables.                                       *)
(***************************************************************************)
\* The locker's flag is changed by one statement that conflicts with its lock.
LEMMA AllowStep ==
  ASSUME CashInv, NEW t \in Tx, Allow(t)
  PROVE  CashInv'
<1>1. PICK k : k = R(t).to
  OBVIOUS
<1>2. /\ At(t, "allow") /\ ~At(t, "idle") /\ tx \in [Tx -> TxState] /\ k \in Locker /\ k \in Row
      /\ Free(t, k, "nokey") /\ \A l \in Locker \ {k} : l \in allowNeg <=> l \in allowNeg'
      /\ UNCHANGED <<sess, moves, ledger, sold, clock>>
      /\ allowNeg' \in SUBSET Locker
  <2>1. At(t, "allow") /\ ~At(t, "idle") /\ tx \in [Tx -> TxState] /\ allowNeg \in SUBSET Locker
    BY DEF Allow, At, CashInv, Tables
  <2>2. k \in Locker
    BY <1>1, <2>1, ActiveFacts DEF Own, Shape
  <2> QED BY <1>1, <2>1, <2>2 DEF Allow, Row
<1>3. tx'[t] = Idle /\ tx' \in [Tx -> TxState] /\ \A u \in Tx \ {t} : tx'[u] = tx[u]
  BY <1>2, IdleState DEF Allow
<1>4. Tables'
  BY <1>2 DEF CashInv, Tables
<1>5. ASSUME NEW u \in Tx \ {t}, NEW l \in Locker, Holds(u, l, "update"), NEW n, Covered(l, n)
      PROVE  Covered(l, n)'
  <2>1. l # k
    <3>1. "update" \in Mode /\ Conflict("nokey", "update")
      BY DEF Mode, Conflict
    <3> QED BY <1>2, <1>5, <3>1 DEF Free, Holds
  <2> QED BY <1>2, <1>5, <2>1 DEF Covered, Balance
<1>6. ASSUME NEW u \in Tx \ {t} PROVE Own(u)'
  <2>1. Own(u) /\ tx'[u] = tx[u] /\ tx[u].ledger \in SUBSET Entry
    BY <1>2, <1>3, TxFacts DEF CashInv
  <2>2. Shape(u)'
    BY <1>2, <2>1 DEF Own, Shape, At, R
  <2>3. MineOK(u)'
    BY <1>2, <2>1 DEF Own, MineOK, Holds, FindOpen
  <2>4. MovesOK(u)'
    BY <2>1 DEF Own, MovesOK, Holds
  <2>5. LedgerOK(u)'
    <3>1. ASSUME NEW e \in tx[u].ledger, e.delta < 0 PROVE Covered(e.locker, -e.delta)'
      <4>1. PICK l, n : l = e.locker /\ n = -e.delta
        OBVIOUS
      <4>2. l \in Locker /\ Holds(u, l, "update") /\ Covered(l, n)
        BY <2>1, <3>1, <4>1 DEF Own, LedgerOK, Entry
      <4> QED BY <1>5, <4>1, <4>2
    <3> QED BY <2>1, <3>1 DEF Own, LedgerOK, Holds
  <2>6. MoveOK(u)'
    <3>1. PICK r : r = R(u) /\ R(u)' = r
      BY <2>1 DEF R
    <3>2. /\ TillHeld(u, r.from)' = TillHeld(u, r.from)
          /\ TillHeld(u, r.to)' = TillHeld(u, r.to)
      BY <1>2, <2>1 DEF TillHeld, Holds, FindOpen
    <3>3. SourceOK(u) => SourceOK(u)'
      <4>1. \A s \in FindOpen(r.from) : Available(s)' = Available(s)
        BY <1>2 DEF Available, CashCollectedSince, AdjustmentTotal
      <4>2. FindOpen(r.from)' = FindOpen(r.from) /\ At(u, "legs")' = At(u, "legs")
            /\ Holds(u, r.from, "update")' = Holds(u, r.from, "update")
        BY <1>2, <2>1 DEF FindOpen, At, Holds
      <4> QED BY <3>1, <4>1, <4>2, <1>5 DEF SourceOK
    <3>4. \A m \in tx[u].moves : MoveRow(u, m)' = MoveRow(u, m)
      BY <1>2, <2>1 DEF MoveRow, FindOpen, R
    <3> QED BY <2>1, <3>1, <3>2, <3>3, <3>4 DEF Own, MoveOK
  <2> QED BY <2>2, <2>3, <2>4, <2>5, <2>6 DEF Own
<1>7. Own(t)' /\ \A u \in Tx : Apart(t, u)' /\ Apart(u, t)'
  <2>1. Shape(t)'
    BY <1>3, IdleState, FS_EmptySet DEF Shape, At
  <2>2. MineOK(t)' /\ MovesOK(t)' /\ LedgerOK(t)' /\ MoveOK(t)'
    BY <1>3, IdleState DEF MineOK, MovesOK, LedgerOK, MoveOK
  <2>3. ASSUME NEW u \in Tx PROVE Apart(t, u)' /\ Apart(u, t)'
    BY <1>3, IdleState DEF Apart, LocksApart, OpensApart, Holds, At
  <2> QED BY <2>1, <2>2, <2>3 DEF Own
<1>8. ASSUME NEW u \in Tx \ {t}, NEW v \in Tx \ {t}, u # v PROVE Apart(u, v)'
  <2>1. Apart(u, v) /\ tx'[u] = tx[u] /\ tx'[v] = tx[v]
    BY <1>3, <1>8 DEF CashInv
  <2> QED BY <2>1 DEF Apart, LocksApart, OpensApart, Holds, At
<1>9. OneOpen'
  BY <1>2 DEF CashInv, OneOpen
<1> QED BY <1>3, <1>4, <1>6, <1>7, <1>8, <1>9 DEF CashInv

(***************************************************************************)
(* A commit: what the rows that t adds do to what the others have locked.    *)
(***************************************************************************)
\* What is added.
LEMMA CommitAdds ==
  ASSUME CashInv, NEW t \in Tx, Commit(t)
  PROVE  /\ ~At(t, "idle") /\ tx[t] \in TxState /\ Own(t)
         /\ tx' \in [Tx -> TxState] /\ tx'[t] = Idle /\ \A u \in Tx \ {t} : tx'[u] = tx[u]
         /\ tx[t].mine \in Sessions /\ sess' \in Sessions
         /\ DOMAIN sess' = DOMAIN sess \cup DOMAIN tx[t].mine
         /\ \A s \in DOMAIN sess' : sess'[s] = IF s \in DOMAIN tx[t].mine THEN tx[t].mine[s] ELSE sess[s]
         /\ moves' = moves \cup tx[t].moves /\ ledger' = ledger \cup tx[t].ledger /\ sold' = sold \cup tx[t].sold
         /\ tx[t].moves \in SUBSET Movement /\ tx[t].ledger \in SUBSET Entry /\ tx[t].sold \in SUBSET CashSale
         /\ allowNeg' = allowNeg /\ clock' = clock
<1>1. ~At(t, "idle") /\ tx[t] \in TxState /\ Own(t) /\ tx \in [Tx -> TxState]
  BY DEF Commit, At, CashInv
<1>2. /\ tx[t].mine \in Sessions /\ sess \in Sessions
      /\ tx[t].moves \in SUBSET Movement /\ tx[t].ledger \in SUBSET Entry /\ tx[t].sold \in SUBSET CashSale
  BY <1>1, TxFacts DEF CashInv, Tables
<1>3. /\ DOMAIN sess' = DOMAIN sess \cup DOMAIN tx[t].mine
      /\ \A s \in DOMAIN sess' : sess'[s] = IF s \in DOMAIN tx[t].mine THEN tx[t].mine[s] ELSE sess[s]
  BY DEF Commit
<1>4. sess' \in Sessions
  <2>1. sess' = [s \in DOMAIN sess' |-> sess'[s]]
    BY DEF Commit
  <2>2. DOMAIN sess' \in SUBSET Time /\ \A s \in DOMAIN sess' : sess'[s] \in Session
    BY <1>2, <1>3, SessionsAre
  <2>3. sess' \in [DOMAIN sess' -> Session]
    BY <2>1, <2>2
  <2> QED BY <2>2, <2>3, SessionsMade
<1>5. tx' \in [Tx -> TxState] /\ tx'[t] = Idle /\ \A u \in Tx \ {t} : tx'[u] = tx[u]
  BY <1>1, IdleState DEF Commit
<1> QED BY <1>1, <1>2, <1>3, <1>4, <1>5 DEF Commit

\* A session that somebody else has locked is not the one that t opens or closes.
LEMMA SessionKept ==
  ASSUME CashInv, NEW t \in Tx, Commit(t), NEW u \in Tx \ {t}, NEW s \in DOMAIN sess,
         Holds(u, s, "update")
  PROVE  s \notin DOMAIN tx[t].mine /\ s \in DOMAIN sess' /\ sess'[s] = sess[s]
<1>1. s \notin DOMAIN tx[t].mine
  <2> SUFFICES ASSUME s \in DOMAIN tx[t].mine PROVE FALSE
    OBVIOUS
  <2>1. s # tx[t].at
    <3>1. ~At(t, "idle")
      BY CommitAdds
    <3> QED BY <3>1, ActiveFacts
  <2>2. Holds(t, s, "nokey")
    BY <2>1, CommitAdds DEF Own, MineOK
  <2>3. "nokey" \in Mode /\ "update" \in Mode /\ Conflict("nokey", "update") /\ s \in Row
    BY AvailableInt DEF Mode, Conflict, Row
  <2>4. LocksApart(t, u)
    BY DEF CashInv, Apart
  <2> QED BY <2>2, <2>3, <2>4 DEF LocksApart
<1> QED BY <1>1, CommitAdds

\* The open sessions of a cashier, afterwards.
LEMMA OpenAfter ==
  ASSUME CashInv, NEW t \in Tx, Commit(t), NEW p
  PROVE  \A q \in FindOpen(p)' : \/ q \in FindOpen(p)
                                 \/ q \in DOMAIN tx[t].mine /\ tx[t].mine[q].open /\ tx[t].mine[q].user = p
                                    /\ q = tx[t].at /\ FindOpen(p) = {}
<1>1. /\ MineOK(t) /\ DOMAIN sess' = DOMAIN sess \cup DOMAIN tx[t].mine
      /\ \A s \in DOMAIN sess' : sess'[s] = IF s \in DOMAIN tx[t].mine THEN tx[t].mine[s] ELSE sess[s]
  BY CommitAdds DEF Own
<1>2. ASSUME NEW q \in FindOpen(p)', q \in DOMAIN tx[t].mine
      PROVE  tx[t].mine[q].open /\ tx[t].mine[q].user = p /\ q = tx[t].at /\ FindOpen(p) = {}
  <2>1. sess'[q].open /\ sess'[q].user = p /\ sess'[q] = tx[t].mine[q]
    BY <1>1, <1>2 DEF FindOpen
  <2> QED BY <1>1, <1>2, <2>1 DEF MineOK
<1>3. ASSUME NEW q \in FindOpen(p)', q \notin DOMAIN tx[t].mine PROVE q \in FindOpen(p)
  BY <1>1, <1>3 DEF FindOpen
<1> QED BY <1>2, <1>3

\* The one open session of a cashier stays that while somebody else has it locked.
LEMMA TillStays ==
  ASSUME CashInv, NEW t \in Tx, Commit(t), NEW u \in Tx \ {t}, NEW p, TillHeld(u, p)
  PROVE  TillHeld(u, p)' /\ (p \in Cashier => FindOpen(p)' = FindOpen(p))
<1> SUFFICES ASSUME p \in Cashier PROVE TillHeld(u, p)' /\ FindOpen(p)' = FindOpen(p)
  BY DEF TillHeld
<1>1. PICK s \in DOMAIN sess : FindOpen(p) = {s} /\ Holds(u, s, "update")
  BY DEF TillHeld
<1>2. s \in DOMAIN sess' /\ sess'[s] = sess[s]
  BY <1>1, SessionKept
<1>3. FindOpen(p)' = {s}
  <2>1. s \in FindOpen(p)'
    BY <1>1, <1>2 DEF FindOpen
  <2> QED BY <1>1, <2>1, OpenAfter
<1>4. Holds(u, s, "update")'
  BY <1>1, CommitAdds DEF Holds
<1> QED BY <1>1, <1>2, <1>3, <1>4 DEF TillHeld

\* What is in a locked drawer does not get less.
LEMMA DrawerStays ==
  ASSUME CashInv, NEW t \in Tx, Commit(t), NEW u \in Tx \ {t}, NEW s \in DOMAIN sess, Holds(u, s, "update")
  PROVE  Available(s)' >= Available(s) /\ Available(s)' \in Int /\ Available(s) \in Int
<1>1. sess'[s] = sess[s] /\ sess[s] \in Session /\ s \in Row /\ sess[s].opening \in Nat
  BY SessionKept, AvailableInt DEF Row, Session
<1>2. \A m \in tx[t].moves : m.type = "adjust" => m.session # s
  <2> SUFFICES ASSUME NEW m \in tx[t].moves, m.type = "adjust", m.session = s PROVE FALSE
    OBVIOUS
  <2>1. PICK n \in Mode : Holds(t, s, n)
    BY CommitAdds DEF Own, MovesOK
  <2>2. LocksApart(t, u) /\ "update" \in Mode /\ Conflict(n, "update")
    BY DEF CashInv, Apart, Mode, Conflict
  <2> QED BY <1>1, <2>1, <2>2 DEF LocksApart
<1>3. PICK M, S, v : M = tx[t].moves /\ S = tx[t].sold /\ v = sess[s].user
  OBVIOUS
<1>4. IsFiniteSet(S) /\ M \in SUBSET Movement /\ S \in SUBSET CashSale
  BY <1>3, CommitAdds DEF Own, Shape
<1>5. Adj(moves \cup M, s) = Adj(moves, s) /\ Adj(moves, s) \in Int
  BY <1>2, <1>3, <1>4, AdjustLaw DEF CashInv, Tables
<1>6. /\ Coll(sold, v, s) \in Nat /\ Coll(sold \cup S, v, s) \in Nat
      /\ Coll(sold, v, s) <= Coll(sold \cup S, v, s)
  BY <1>4, CollectedLaw DEF CashInv, Tables
<1>7. Available(s) = sess[s].opening + Coll(sold, v, s) + Adj(moves, s)
  BY <1>3, SumsAre DEF Available
<1>8. Available(s)' = sess[s].opening + Coll(sold', v, s) + Adj(moves', s)
  BY <1>1, <1>3 DEF Available, CashCollectedSince, AdjustmentTotal, Coll, Adj
<1>9. Available(s)' = sess[s].opening + Coll(sold \cup S, v, s) + Adj(moves \cup M, s)
  BY <1>3, <1>8, CommitAdds
<1> QED BY <1>1, <1>5, <1>6, <1>7, <1>9

\* And what is in a locked locker stays as it is.
LEMMA LockerStays ==
  ASSUME CashInv, NEW t \in Tx, Commit(t), NEW u \in Tx \ {t}, NEW k \in Locker, Holds(u, k, "update")
  PROVE  Balance(k)' = Balance(k) /\ \A n : Covered(k, n) => Covered(k, n)'
<1>1. \A e \in tx[t].ledger : e.locker # k
  <2> SUFFICES ASSUME NEW e \in tx[t].ledger, e.locker = k PROVE FALSE
    OBVIOUS
  <2>1. PICK n \in Mode : Holds(t, k, n)
    BY CommitAdds DEF Own, LedgerOK
  <2>2. LocksApart(t, u) /\ "update" \in Mode /\ Conflict(n, "update") /\ k \in Row
    BY DEF CashInv, Apart, Mode, Conflict, Row
  <2> QED BY <2>1, <2>2 DEF LocksApart
<1>2. Bal(ledger \cup tx[t].ledger, k) = Bal(ledger, k)
  <2>1. tx[t].ledger \in SUBSET Entry
    BY CommitAdds
  <2>2. ledger \in SUBSET Entry /\ IsFiniteSet(ledger)
    BY DEF CashInv, Tables
  <2> QED BY <1>1, <2>1, <2>2, BalanceLaw
<1>3. Balance(k)' = Bal(ledger', k) /\ Balance(k) = Bal(ledger, k)
  BY DEF Balance, Bal
<1>4. Balance(k)' = Balance(k)
  BY <1>2, <1>3, CommitAdds
<1> QED BY <1>4, CommitAdds DEF Covered

LEMMA CommitStep ==
  ASSUME CashInv, NEW t \in Tx, Commit(t)
  PROVE  CashInv'
<1>1. ~At(t, "idle") /\ Own(t) /\ tx[t] \in TxState /\ IsFiniteSet(tx[t].moves) /\ IsFiniteSet(tx[t].ledger)
      /\ IsFiniteSet(tx[t].sold) /\ MineOK(t) /\ tx[t].at \in 1 .. clock /\ clock \in Time
  <2>1. ~At(t, "idle")
    BY CommitAdds
  <2> QED BY <2>1, ActiveFacts DEF Own, Shape
<1>2. tx' \in [Tx -> TxState] /\ tx'[t] = Idle /\ \A u \in Tx \ {t} : tx'[u] = tx[u]
  BY CommitAdds
<1>3. /\ DOMAIN sess' = DOMAIN sess \cup DOMAIN tx[t].mine
      /\ \A s \in DOMAIN sess' : sess'[s] = IF s \in DOMAIN tx[t].mine THEN tx[t].mine[s] ELSE sess[s]
      /\ clock' = clock
  BY CommitAdds
<1>4. Tables'
  <2>1. DOMAIN sess' \subseteq 1 .. clock'
    BY <1>1, <1>3 DEF MineOK, CashInv, Tables
  <2>2. IsFiniteSet(moves \cup tx[t].moves) /\ IsFiniteSet(ledger \cup tx[t].ledger) /\ IsFiniteSet(sold \cup tx[t].sold)
    BY <1>1, FS_Union DEF CashInv, Tables
  <2>3. moves' \in SUBSET Movement /\ ledger' \in SUBSET Entry /\ sold' \in SUBSET CashSale /\ sess' \in Sessions
        /\ allowNeg' \in SUBSET Locker /\ clock' \in Time
        /\ moves' = moves \cup tx[t].moves /\ ledger' = ledger \cup tx[t].ledger /\ sold' = sold \cup tx[t].sold
    BY CommitAdds DEF CashInv, Tables
  <2> QED BY <2>1, <2>2, <2>3 DEF Tables
<1>5. OneOpen'
  <2> SUFFICES ASSUME NEW s \in DOMAIN sess', NEW q \in DOMAIN sess', sess'[s].open, sess'[q].open,
                      sess'[s].user = sess'[q].user
               PROVE  s = q
    BY DEF OneOpen
  <2>1. PICK p : p = sess'[s].user
    OBVIOUS
  <2>2. s \in FindOpen(p)' /\ q \in FindOpen(p)'
    BY <2>1 DEF FindOpen
  <2>3. \A x \in FindOpen(p), y \in FindOpen(p) : x = y
    BY DEF FindOpen, CashInv, OneOpen
  <2> QED BY <2>2, <2>3, OpenAfter
<1>6. ASSUME NEW u \in Tx \ {t} PROVE Own(u)'
  <2>1. Own(u) /\ tx'[u] = tx[u] /\ tx[u] \in TxState /\ Apart(t, u)
    BY <1>2 DEF CashInv
  <2>2. Shape(u)'
    <3>1. ~At(u, "idle") => tx[u].at \notin DOMAIN sess'
      <4> SUFFICES ASSUME ~At(u, "idle"), tx[u].at \in DOMAIN sess' PROVE FALSE
        OBVIOUS
      <4>1. tx[u].at \notin DOMAIN sess /\ tx[u].at # tx[t].at
        BY <1>1, <2>1 DEF Own, Shape, Apart
      <4> QED BY <1>1, <1>3, <4>1 DEF MineOK
    <3>2. DOMAIN sess \subseteq DOMAIN sess'
      BY <1>3
    <3> QED BY <1>3, <2>1, <3>1, <3>2 DEF Own, Shape, At, R
  <2>3. MineOK(u)'
    <3>1. PICK f : f = tx[u].mine
      OBVIOUS
    <3>2. ASSUME NEW q \in DOMAIN f, ~f[q].open PROVE q \in DOMAIN sess' /\ Holds(u, q, "nokey")'
      BY <1>3, <2>1, <3>1, <3>2 DEF Own, MineOK, Holds
    <3>3. ASSUME NEW q \in DOMAIN f, f[q].open PROVE q = tx[u].at /\ FindOpen(f[q].user)' = {}
      <4>1. PICK p : p = f[q].user
        OBVIOUS
      <4>2. q = tx[u].at /\ FindOpen(p) = {}
        BY <2>1, <3>1, <3>3, <4>1 DEF Own, MineOK
      <4>3. FindOpen(p)' = {}
        BY <2>1, <3>1, <3>3, <4>1, <4>2, OpenAfter DEF Apart, OpensApart
      <4> QED BY <4>1, <4>2, <4>3
    <3> QED BY <2>1, <3>1, <3>2, <3>3 DEF MineOK
  <2>4. MovesOK(u)'
    BY <2>1 DEF Own, MovesOK, Holds
  <2>5. LedgerOK(u)'
    <3>1. ASSUME NEW e \in tx[u].ledger, e.delta < 0 PROVE Covered(e.locker, -e.delta)'
      <4>1. PICK l, n : l = e.locker /\ n = -e.delta
        OBVIOUS
      <4>2. tx[u].ledger \in SUBSET Entry
        BY <2>1, TxFacts
      <4>3. l \in Locker /\ Holds(u, l, "update") /\ Covered(l, n)
        BY <2>1, <3>1, <4>1, <4>2 DEF Own, LedgerOK, Entry
      <4> QED BY <4>1, <4>3, LockerStays
    <3> QED BY <2>1, <3>1 DEF Own, LedgerOK, Holds
  <2>6. MoveOK(u)'
    <3>1. PICK r : r = R(u) /\ R(u)' = r
      BY <2>1 DEF R
    <3> SUFFICES ASSUME r.op = "move" PROVE MoveOK(u)'
      BY <3>1 DEF MoveOK
    <3>2. /\ TillHeld(u, r.from) => TillHeld(u, r.from)' /\ (r.from \in Cashier => FindOpen(r.from)' = FindOpen(r.from))
          /\ TillHeld(u, r.to) => TillHeld(u, r.to)' /\ (r.to \in Cashier => FindOpen(r.to)' = FindOpen(r.to))
      BY TillStays
    <3>3. ASSUME tx[u].pc \in {"legs", "commit"} PROVE SourceOK(u)'
      <4>1. TillHeld(u, r.from) /\ SourceOK(u)
        BY <2>1, <3>1, <3>3 DEF Own, MoveOK
      <4>2. ASSUME NEW s \in FindOpen(r.from)' PROVE r.amount <= Available(s)'
        <5>1. \A q \in DOMAIN sess' : sess'[q].user \in Cashier
          BY <1>4, SessionsAre DEF Tables, Session
        <5>2. r.from \in Cashier
          BY <4>2, <5>1 DEF FindOpen
        <5>3. s \in FindOpen(r.from)
          BY <3>2, <4>1, <4>2, <5>2
        <5>4. s \in DOMAIN sess /\ Holds(u, s, "update")
          BY <4>1, <5>2, <5>3 DEF TillHeld
        <5>5. Available(s)' >= Available(s) /\ Available(s)' \in Int /\ Available(s) \in Int
          BY <5>4, DrawerStays
        <5>6. r.amount <= Available(s) /\ r.amount \in Nat
          <6>1. ~At(u, "idle")
            BY <3>3 DEF At
          <6> QED BY <3>1, <4>1, <5>3, <6>1, ActiveFacts DEF SourceOK
        <5> QED BY <5>5, <5>6
      <4>3. ASSUME r.from \in Locker PROVE Holds(u, r.from, "update")' /\ (At(u, "legs") => Covered(r.from, r.amount)')
        <5>1. Holds(u, r.from, "update") /\ (At(u, "legs") => Covered(r.from, r.amount))
          BY <3>1, <4>1, <4>3 DEF SourceOK
        <5>2. At(u, "legs") => Covered(r.from, r.amount)'
          BY <4>3, <5>1, LockerStays
        <5> QED BY <2>1, <5>1, <5>2 DEF Holds
      <4> QED BY <2>1, <3>1, <4>2, <4>3 DEF SourceOK, At
    <3>4. ASSUME NEW m \in tx[u].moves PROVE MoveRow(u, m)'
      <4>1. MoveRow(u, m) /\ TillHeld(u, r.from) /\ TillHeld(u, r.to)
        <5>1. At(u, "commit")
          BY <2>1, <3>1, <3>4 DEF Own, Shape, At
        <5> QED BY <2>1, <3>1, <3>4, <5>1 DEF Own, MoveOK, At
      <4> QED BY <2>1, <3>1, <3>2, <4>1 DEF MoveRow
    <3>5. /\ tx[u].mine = <<>> /\ tx[u].sold = {}
          /\ tx[u].pc \in {"to", "guard", "legs", "commit"} => TillHeld(u, r.from)
          /\ tx[u].pc \in {"guard", "legs", "commit"} => TillHeld(u, r.to)
      BY <2>1, <3>1 DEF Own, MoveOK
    <3> QED BY <2>1, <3>1, <3>2, <3>3, <3>4, <3>5 DEF MoveOK
  <2> QED BY <2>2, <2>3, <2>4, <2>5, <2>6 DEF Own
<1>7. Own(t)' /\ \A u \in Tx : Apart(t, u)' /\ Apart(u, t)'
  <2>1. Shape(t)'
    BY <1>2, IdleState, FS_EmptySet DEF Shape, At
  <2>2. MineOK(t)' /\ MovesOK(t)' /\ LedgerOK(t)' /\ MoveOK(t)'
    BY <1>2, IdleState DEF MineOK, MovesOK, LedgerOK, MoveOK
  <2>3. ASSUME NEW u \in Tx PROVE Apart(t, u)' /\ Apart(u, t)'
    BY <1>2, IdleState DEF Apart, LocksApart, OpensApart, Holds, At
  <2> QED BY <2>1, <2>2, <2>3 DEF Own
<1>8. ASSUME NEW u \in Tx \ {t}, NEW v \in Tx \ {t}, u # v PROVE Apart(u, v)'
  <2>1. Apart(u, v) /\ tx'[u] = tx[u] /\ tx'[v] = tx[v]
    BY <1>2, <1>8 DEF CashInv
  <2> QED BY <2>1 DEF Apart, LocksApart, OpensApart, Holds, At
<1> QED BY <1>2, <1>4, <1>5, <1>6, <1>7, <1>8 DEF CashInv

\* Nothing happens.
LEMMA SameStep ==
  ASSUME CashInv, UNCHANGED vars
  PROVE  CashInv'
<1>1. /\ sess' = sess /\ moves' = moves /\ ledger' = ledger /\ sold' = sold /\ allowNeg' = allowNeg
      /\ clock' = clock /\ tx' = tx
  BY DEF vars
<1>2. Tables' /\ OneOpen' /\ tx' \in [Tx -> TxState]
  BY <1>1 DEF CashInv, Tables, OneOpen
<1>3. ASSUME NEW t \in Tx PROVE Own(t)'
  <2>1. Own(t)
    BY DEF CashInv
  <2>2. Shape(t)' /\ MineOK(t)' /\ MovesOK(t)' /\ LedgerOK(t)'
    BY <1>1, <2>1 DEF Own, Shape, MineOK, MovesOK, LedgerOK, At, R, Holds, FindOpen, Covered, Balance
  <2>3. MoveOK(t)'
    <3>1. /\ TillHeld(t, R(t).from)' = TillHeld(t, R(t).from)
          /\ TillHeld(t, R(t).to)' = TillHeld(t, R(t).to)
      BY <1>1 DEF TillHeld, Holds, FindOpen, R
    <3>2. SourceOK(t)' = SourceOK(t)
      BY <1>1 DEF SourceOK, Holds, FindOpen, R, At, Covered, Balance, Available, CashCollectedSince, AdjustmentTotal
    <3>3. \A m \in tx[t].moves : MoveRow(t, m)' = MoveRow(t, m)
      BY <1>1 DEF MoveRow, FindOpen, R
    <3> QED BY <1>1, <2>1, <3>1, <3>2, <3>3 DEF Own, MoveOK, R
  <2> QED BY <2>2, <2>3 DEF Own
<1>4. ASSUME NEW t \in Tx, NEW u \in Tx, t # u PROVE Apart(t, u)'
  BY <1>1, <1>4 DEF CashInv, Apart, LocksApart, OpensApart, Holds, At
<1> QED BY <1>2, <1>3, <1>4 DEF CashInv

-----------------------------------------------------------------------------
(***************************************************************************)
(* The invariant, and what it gives.                                       *)
(***************************************************************************)
LEMMA NextHolds ==
  ASSUME CashInv, Next
  PROVE  CashInv'
<1>1. ASSUME NEW t \in Tx, NEW r \in Request, Begin(t, r) PROVE CashInv'
  BY <1>1, BeginStep
<1>2. ASSUME NEW t \in Tx, Look(t) PROVE CashInv'
  BY <1>2, LookStep
<1>3. ASSUME NEW t \in Tx, BookOpen(t) PROVE CashInv'
  BY <1>3, BookOpenStep
<1>4. ASSUME NEW t \in Tx, BookClose(t) PROVE CashInv'
  BY <1>4, BookCloseStep
<1>5. ASSUME NEW t \in Tx, BookAdjust(t) PROVE CashInv'
  BY <1>5, BookAdjustStep
<1>6. ASSUME NEW t \in Tx, Leg(t) PROVE CashInv'
  BY <1>6, LegStep
<1>7. ASSUME NEW t \in Tx, LockFrom(t) PROVE CashInv'
  <2>1. R(t).from \in Place
    <3>1. ~At(t, "idle")
      BY <1>7 DEF LockFrom, At
    <3> QED BY <3>1, ActiveFacts
  <2> QED BY <1>7, <2>1, LockTillStep DEF LockFrom
<1>8. ASSUME NEW t \in Tx, LockTo(t) PROVE CashInv'
  <2>1. R(t).to \in Place
    <3>1. ~At(t, "idle")
      BY <1>8 DEF LockTo, At
    <3> QED BY <3>1, ActiveFacts
  <2> QED BY <1>8, <2>1, LockTillStep DEF LockTo
<1>9. ASSUME NEW t \in Tx, GuardSource(t) PROVE CashInv'
  BY <1>9, GuardStep
<1>10. ASSUME NEW t \in Tx, Legs(t) PROVE CashInv'
  BY <1>10, LegsStep
<1>11. ASSUME NEW t \in Tx, Allow(t) PROVE CashInv'
  BY <1>11, AllowStep
<1>12. ASSUME NEW t \in Tx, Commit(t) PROVE CashInv'
  BY <1>12, CommitStep
<1>13. ASSUME NEW t \in Tx, Cancel(t) PROVE CashInv'
  BY <1>13, EndStep DEF Cancel
<1>14. CASE Closed
  BY <1>14, SameStep DEF Closed
<1> QED BY <1>1, <1>2, <1>3, <1>4, <1>5, <1>6, <1>7, <1>8, <1>9, <1>10, <1>11, <1>12, <1>13, <1>14 DEF Next

LEMMA CashHolds == Spec => []CashInv
<1>1. CashInv /\ [Next]_vars => CashInv'
  BY NextHolds, SameStep
<1> QED BY InitHolds, <1>1, PTL DEF Spec

\* The shape of the tables: rows of the right kinds, whatever is written to them.
THEOREM CashTypes == Spec => []TypeOK
<1>1. CashInv => TypeOK
  <2> SUFFICES ASSUME CashInv PROVE TypeOK
    OBVIOUS
  <2>1. DOMAIN sess \subseteq Time /\ \A s \in DOMAIN sess : sess[s] \in Session
    BY SessionsAre DEF CashInv, Tables
  <2>2. \A t \in Tx : ~At(t, "idle") => R(t) \in Request
    BY ActiveFacts
  <2>3. \A t \in Tx : tx[t].locks \subseteq (Time \cup Locker) \X Mode
    BY TxFacts DEF CashInv, Row
  <2> QED BY <2>1, <2>2, <2>3 DEF CashInv, Tables, TypeOK
<1> QED BY CashHolds, <1>1, PTL

\* A commit draws a locker below what it held only under the guard it passed.
LEMMA LockerDrawn ==
  ASSUME CashInv, NEW t \in Tx, Commit(t), NEW k \in Locker, Balance(k)' < Balance(k)
  PROVE  k \in allowNeg \/ Balance(k)' >= 0
<1>1. PICK L : L = tx[t].ledger
  OBVIOUS
<1>2. /\ Balance(k)' = Bal(ledger \cup L, k) /\ Balance(k) = Bal(ledger, k)
      /\ L \in SUBSET Entry /\ LedgerOK(t) /\ ledger \in SUBSET Entry /\ IsFiniteSet(ledger)
  <2>1. Balance(k)' = Bal(ledger', k) /\ Balance(k) = Bal(ledger, k)
    BY DEF Balance, Bal
  <2> QED BY <1>1, <2>1, CommitAdds DEF Own, CashInv, Tables
<1>3. Bal(ledger, k) \in Int
  BY <1>2, BalanceLaw
<1>4. PICK e \in L : e.locker = k
  <2>1. ~ \A e \in L : e.locker # k
    <3> SUFFICES ASSUME \A e \in L : e.locker # k PROVE FALSE
      OBVIOUS
    <3>1. Bal(ledger \cup L, k) = Bal(ledger, k)
      BY <1>2, BalanceLaw
    <3> QED BY <1>2, <1>3, <3>1
  <2> QED BY <2>1
<1>5. e.delta \in Int /\ \A f \in L : f.locker = k => f = e
  BY <1>1, <1>2, <1>4 DEF LedgerOK, Entry
<1>6. Bal(ledger \cup L, k) = Bal(ledger, k) \/ Bal(ledger \cup L, k) = Bal(ledger, k) + e.delta
  BY <1>2, <1>4, <1>5, BalanceLaw
<1>7. e.delta < 0 /\ Balance(k)' = Balance(k) + e.delta
  BY <1>2, <1>3, <1>5, <1>6
<1>8. k \in allowNeg \/ -e.delta <= Balance(k)
  BY <1>1, <1>2, <1>4, <1>7 DEF LedgerOK, Covered
<1> QED BY <1>2, <1>3, <1>5, <1>7, <1>8

\* Only a commit writes movements and ledger entries.
LEMMA OnlyCommits ==
  ASSUME [Next]_vars, moves' # moves \/ ledger' # ledger
  PROVE  \E t \in Tx : Commit(t)
<1> SUFFICES ASSUME ~ \E t \in Tx : Commit(t) PROVE moves' = moves /\ ledger' = ledger
  OBVIOUS
<1>1. ASSUME NEW t \in Tx, NEW r \in Request, Begin(t, r) PROVE moves' = moves /\ ledger' = ledger
  BY <1>1 DEF Begin
<1>2. ASSUME NEW t \in Tx, Look(t) \/ BookOpen(t) \/ BookClose(t) \/ BookAdjust(t) \/ Leg(t)
      PROVE  moves' = moves /\ ledger' = ledger
  BY <1>2 DEF Look, BookOpen, BookClose, BookAdjust, Leg, End, Stored
<1>3. ASSUME NEW t \in Tx, LockFrom(t) \/ LockTo(t) PROVE moves' = moves /\ ledger' = ledger
  BY <1>3 DEF LockFrom, LockTo, LockTill, End, Stored
<1>4. ASSUME NEW t \in Tx, GuardSource(t) PROVE moves' = moves /\ ledger' = ledger
  BY <1>4 DEF GuardSource, End, Stored
<1>5. ASSUME NEW t \in Tx, Legs(t) \/ Allow(t) \/ Cancel(t) PROVE moves' = moves /\ ledger' = ledger
  BY <1>5 DEF Legs, Allow, Cancel, End, Stored
<1>6. CASE UNCHANGED vars \/ Closed
  BY <1>6 DEF vars, Closed
<1> QED BY <1>1, <1>2, <1>3, <1>4, <1>5, <1>6 DEF Next

\* A move that commits.
LEMMA MoveFacts ==
  ASSUME CashInv, [Next]_vars, NEW t \in Tx, MoveCommits(t), moves' # moves
  PROVE  Commit(t) /\ R(t).op = "move" /\ MoveOK(t) /\ At(t, "commit")
<1>1. At(t, "commit") /\ ~At(t, "commit")' /\ R(t).op = "move"
  BY DEF MoveCommits
<1>2. PICK u \in Tx : Commit(u)
  BY OnlyCommits
<1>3. u = t
  BY <1>1, <1>2, CommitAdds DEF At
<1> QED BY <1>1, <1>2, <1>3 DEF CashInv, Own

\* What is left in the drawer that a move has taken from.
LEMMA DrawerDrawn ==
  ASSUME CashInv, [Next]_vars, NEW t \in Tx, MoveCommits(t), moves' # moves, R(t).from \in Cashier,
         NEW s \in FindOpen(R(t).from)
  PROVE  Available(s)' >= 0
<1>1. Commit(t) /\ R(t).op = "move" /\ MoveOK(t) /\ At(t, "commit") /\ ~At(t, "idle")
  BY MoveFacts DEF At
<1>2. PICK r, M : r = R(t) /\ M = tx[t].moves
  OBVIOUS
<1>3. /\ r.from \in Cashier /\ r.from # r.to /\ r.amount \in Nat /\ s \in DOMAIN sess
      /\ FindOpen(r.from) = {s} /\ r.amount <= Available(s)
      /\ tx[t].mine = <<>> /\ tx[t].sold = {} /\ \A m \in M : MoveRow(t, m)
  <2>1. TillHeld(t, r.from) /\ SourceOK(t) /\ r.from # r.to /\ r.amount \in Nat
    BY <1>1, <1>2, ActiveFacts DEF MoveOK, At
  <2> QED BY <1>1, <1>2, <2>1 DEF MoveOK, TillHeld, SourceOK, FindOpen
<1>4. Available(s) \in Int /\ sess[s] \in Session /\ sess[s].opening \in Nat
  BY <1>3, AvailableInt DEF Session
<1>5. sess'[s] = sess[s] /\ moves' = moves \cup M /\ sold' = sold
  <2>1. DOMAIN tx[t].mine = {}
    BY <1>3, IdleState
  <2> QED BY <1>1, <1>2, <1>3, <2>1, CommitAdds
<1>6. \A m \in M : m.session = s => m.amount = -r.amount
  BY <1>2, <1>3 DEF MoveRow, FindOpen
<1>7. M \in SUBSET Movement /\ moves \in SUBSET Movement /\ IsFiniteSet(moves)
  BY <1>1, <1>2, CommitAdds DEF CashInv, Tables
<1>8. Adj(moves, s) \in Int
  BY <1>7, AdjustLaw
<1>9. Adj(moves \cup M, s) = Adj(moves, s) \/ Adj(moves \cup M, s) = Adj(moves, s) - r.amount
  <2>1. CASE \A m \in M : m.session # s
    BY <1>7, <2>1, AdjustLaw
  <2>2. ASSUME NEW m \in M, m.session = s PROVE Adj(moves \cup M, s) = Adj(moves, s) \/ Adj(moves \cup M, s) = Adj(moves, s) - r.amount
    <3>1. \A n \in M : n.type = "adjust" /\ n.session = s => n = m
      <4> SUFFICES ASSUME NEW n \in M, n.type = "adjust", n.session = s PROVE n = m
        OBVIOUS
      <4>1. /\ n.amount = m.amount /\ n.at = m.at /\ n.type = m.type /\ n.session = m.session
            /\ n \in Movement /\ m \in Movement
        BY <1>3, <1>6, <1>7, <2>2 DEF MoveRow
      <4> QED BY <4>1 DEF Movement
    <3>2. Adj(moves \cup M, s) = Adj(moves, s) \/ Adj(moves \cup M, s) = Adj(moves, s) + m.amount
      BY <1>7, <3>1, AdjustLaw
    <3>3. m.amount = -r.amount
      BY <1>6, <2>2
    <3> QED BY <1>3, <1>8, <3>2, <3>3
  <2> QED BY <2>1, <2>2
<1>10. Available(s) = sess[s].opening + Coll(sold, sess[s].user, s) + Adj(moves, s)
  BY SumsAre DEF Available
<1>11. Available(s)' = sess[s].opening + Coll(sold, sess[s].user, s) + Adj(moves \cup M, s)
  BY <1>5 DEF Available, CashCollectedSince, AdjustmentTotal, Coll, Adj
<1>12. Coll(sold, sess[s].user, s) \in Nat
  BY CollectedLaw DEF CashInv, Tables
<1> QED BY <1>3, <1>4, <1>8, <1>9, <1>10, <1>11, <1>12

\* A move that commits lands in drawers whose sessions are open.
LEMMA LandsOpen ==
  ASSUME CashInv, [Next]_vars, NEW t \in Tx, NEW m \in moves' \ moves, MoveCommits(t)
  PROVE  sess'[m.session].open
<1>1. Commit(t) /\ R(t).op = "move" /\ MoveOK(t) /\ At(t, "commit")
  BY MoveFacts
<1>2. m \in tx[t].moves /\ DOMAIN tx[t].mine = {}
  BY <1>1, CommitAdds, IdleState DEF MoveOK
<1>3. \E p : m.session \in FindOpen(p)
  BY <1>1, <1>2 DEF MoveOK, MoveRow
<1>4. m.session \in DOMAIN sess /\ sess[m.session].open
  BY <1>3 DEF FindOpen
<1>5. sess'[m.session] = sess[m.session]
  BY <1>1, <1>2, <1>4, CommitAdds
<1> QED BY <1>4, <1>5

\* The guard of a move (guardSource, under the lock) still holds when the move
\* commits: no locker that may not go negative is drawn below zero, by a move, a
\* drawer event or their race, and no move leaves a drawer overdrawn.
THEOREM MovesCovered == Spec => SourcesCovered
<1>1. CashInv /\ [Next]_vars => [\A k \in Locker : Balance(k)' < Balance(k) => k \in allowNeg \/ Balance(k)' >= 0]_vars
  <2> SUFFICES ASSUME CashInv, [Next]_vars, NEW k \in Locker, Balance(k)' < Balance(k)
               PROVE  k \in allowNeg \/ Balance(k)' >= 0
    OBVIOUS
  <2>1. ledger' # ledger
    <3> SUFFICES ASSUME ledger' = ledger PROVE FALSE
      OBVIOUS
    <3>1. Balance(k)' = Balance(k)
      BY DEF Balance
    <3>2. Bal(ledger, k) \in Int /\ Balance(k) = Bal(ledger, k)
      BY BalanceLaw, SumsAre DEF CashInv, Tables
    <3> QED BY <3>1, <3>2
  <2>2. PICK t \in Tx : Commit(t)
    BY <2>1, OnlyCommits
  <2> QED BY <2>2, LockerDrawn
<1>2. CashInv /\ [Next]_vars => [\A t \in Tx : MoveCommits(t) /\ R(t).from \in Cashier /\ moves' # moves
                                  => \A s \in FindOpen(R(t).from) : Available(s)' >= 0]_vars
  BY DrawerDrawn
<1> QED BY CashHolds, <1>1, <1>2, PTL DEF Spec, SourcesCovered, LockersCovered

\* A move writes its movement while it holds the lock on the drawer's open session
\* (FindOpenForUpdate), so the session is still open when the move commits.
THEOREM MovesFindOpen == Spec => MovesLandOpen
<1>1. CashInv /\ [Next]_vars => [\A t \in Tx, m \in moves' \ moves : MoveCommits(t) => sess'[m.session].open]_vars
  BY LandsOpen
<1> QED BY CashHolds, <1>1, PTL DEF Spec, MovesLandOpen

-----------------------------------------------------------------------------
(***************************************************************************)
(* The close reconciles.                                                   *)
(*                                                                         *)
(* A close reads the drawer before its transaction, so what it records is    *)
(* right only when nobody touches the drawer from then on.  For a session    *)
(* that closes alone the invariant says what that gives: nobody else has    *)
(* business with the cashier while the close is under way, and nobody adds  *)
(* to the session afterwards.                                              *)
(***************************************************************************)
\* A drawer event that has found its session, and a close among them.
Event(t) == R(t).op \in {"close", "withdraw", "payin"} /\ tx[t].pc \in {"book", "leg", "commit"}

Closing(t) == Event(t) /\ R(t).op = "close"

\* What a request in progress writes concerns the cashier it names.
DrawerOK(t) ==
  /\ Event(t) => tx[t].sess \in DOMAIN sess /\ sess[tx[t].sess].user = Till(R(t))
  /\ \A m \in tx[t].moves : /\ m.type = "closing" => R(t).op = "close"
                            /\ m.type = "adjust" => R(t).op \in {"withdraw", "payin", "move"}
                            /\ R(t).op \in {"close", "withdraw", "payin"} => m.session = tx[t].sess
  /\ R(t).op = "close" => \A m, n \in tx[t].moves : m = n
  /\ \A q \in DOMAIN tx[t].mine :
       IF tx[t].mine[q].open THEN R(t).op # "close"
       ELSE /\ R(t).op = "close" /\ q = tx[t].sess
            /\ tx[t].mine[q].user = sess[q].user /\ tx[t].mine[q].opening = sess[q].opening
  /\ \A q \in DOMAIN tx[t].mine : tx[t].mine[q].closedAt <= clock
  /\ Closing(t) /\ ~At(t, "book") => tx[t].sess \in DOMAIN tx[t].mine
  /\ \A x \in tx[t].sold : R(t).op = "sale" /\ x.user = R(t).to /\ x.at = tx[t].at

\* t closes a session, and nobody else has business with its cashier.
ClosingAlone(t) ==
  LET s == tx[t].sess
  IN /\ sess[s].open
     /\ \A u \in Tx \ {t} : At(u, "idle") \/ ~Concerns(R(u), R(t).from)
     /\ tx[t].expected = Available(s)
     /\ \A q \in DOMAIN tx[t].mine : /\ tx[t].mine[q].expected = tx[t].expected
                                     /\ \A x \in sold : x.user = sess[s].user => x.at <= tx[t].mine[q].closedAt

\* Nothing that t still has to commit belongs to session s, which is closed.
Past(t, s) == /\ Event(t) => tx[t].sess # s
              /\ \A x \in tx[t].sold : x.user = sess[s].user => x.at > sess[s].closedAt

Taken(s) == {x \in sold : x.user = sess[s].user /\ x.at \in s .. sess[s].closedAt}

Reconciled(s) ==
  /\ \A m, n \in moves : m.type = "closing" /\ n.type = "closing" /\ m.session = s /\ n.session = s => m = n
  /\ sess[s].expected = sess[s].opening + AdjustmentTotal(s) + SumFunctionOnSet(Amount(sold), Taken(s))

CloseInv ==
  /\ alone \subseteq DOMAIN sess
  /\ \A x \in sold : x.at <= clock
  /\ \A s \in DOMAIN sess : sess[s].closedAt <= clock
  /\ \A m \in moves : m.type = "closing" => m.session \in DOMAIN sess /\ ~sess[m.session].open
  /\ \A t \in Tx : DrawerOK(t)
  /\ \A t \in Tx : Closing(t) /\ tx[t].sess \in alone => ClosingAlone(t)
  /\ \A s \in alone : ~sess[s].open => Reconciled(s) /\ \A t \in Tx : Past(t, s)

\* When only t's own state, the clock and the history change.
LEMMA CloseQuiet ==
  ASSUME CashInv, CloseInv, NEW t \in Tx, UNCHANGED <<sess, moves, sold>>, clock' \in Int, clock' >= clock,
         \A u \in Tx \ {t} : tx'[u] = tx[u],
         DrawerOK(t)', Closing(t)' /\ tx'[t].sess \in alone' => ClosingAlone(t)',
         alone' \subseteq DOMAIN sess,
         \A s \in alone' \ alone : sess[s].open /\ \A u \in Tx \ {t} : Closing(u) => tx[u].sess # s,
         \A u \in Tx \ {t} : Closing(u) /\ tx[u].sess \in alone /\ tx[u].sess \in alone'
           => tx'[t].pc = "idle" \/ ~Concerns(tx'[t].req, R(u).from),
         \A s \in alone : s \in alone' /\ ~sess[s].open => Past(t, s)'
  PROVE  CloseInv'
<1>1. clock \in Int /\ \A x \in sold : x.at \in Int
  BY CashAssumption DEF CashInv, Tables, Time, CashSale
<1>2. \A s \in DOMAIN sess : sess[s].closedAt \in Int
  BY SessionsAre, CashAssumption DEF CashInv, Tables, Session, Time
<1>3. /\ alone' \subseteq DOMAIN sess'
      /\ \A x \in sold' : x.at <= clock'
      /\ \A s \in DOMAIN sess' : sess'[s].closedAt <= clock'
      /\ \A m \in moves' : m.type = "closing" => m.session \in DOMAIN sess' /\ ~sess'[m.session].open
  BY <1>1, <1>2 DEF CloseInv
<1>4. ASSUME NEW u \in Tx \ {t} PROVE DrawerOK(u)'
  <2>1. DrawerOK(u) /\ tx'[u] = tx[u]
    BY DEF CloseInv
  <2>2. \A q \in DOMAIN tx[u].mine : tx[u].mine[q].closedAt \in Int
    BY TxFacts, SessionsAre, CashAssumption DEF CashInv, Session, Time
  <2> QED BY <1>1, <2>1, <2>2 DEF DrawerOK, Event, Closing, At, R
<1>5. ASSUME NEW u \in Tx \ {t}, Closing(u)', tx'[u].sess \in alone' PROVE ClosingAlone(u)'
  <2>1. tx'[u] = tx[u] /\ Closing(u) /\ tx[u].sess \in alone' /\ tx[u].sess \in alone
    BY <1>5 DEF Closing, Event, R
  <2>2. ClosingAlone(u)
    BY <2>1 DEF CloseInv
  <2>3. \A v \in Tx \ {u} : At(v, "idle")' \/ ~Concerns(R(v)', R(u).from)
    BY <2>1, <2>2 DEF ClosingAlone, At, R
  <2>4. PICK s : s = tx[u].sess
    OBVIOUS
  <2>5. Available(s)' = Available(s)
    BY DEF Available, CashCollectedSince, AdjustmentTotal
  <2> QED BY <2>1, <2>2, <2>3, <2>4, <2>5 DEF ClosingAlone, R
<1>6. ASSUME NEW s \in alone', ~sess'[s].open PROVE Reconciled(s)' /\ \A u \in Tx : Past(u, s)'
  <2>1. s \in alone /\ ~sess[s].open
    BY <1>6
  <2>2. Reconciled(s) /\ \A u \in Tx : Past(u, s)
    BY <2>1 DEF CloseInv
  <2>3. Reconciled(s)'
    BY <2>2 DEF Reconciled, AdjustmentTotal, Taken
  <2>4. ASSUME NEW u \in Tx \ {t} PROVE Past(u, s)'
    BY <2>2 DEF Past, Event, R
  <2> QED BY <1>6, <2>1, <2>3, <2>4
<1> QED BY <1>3, <1>4, <1>5, <1>6 DEF CloseInv

\* A request that is over.
LEMMA CloseEnd ==
  ASSUME CashInv, CloseInv, NEW t \in Tx, End(t)
  PROVE  CloseInv'
<1>1. /\ tx'[t] = Idle /\ (\A u \in Tx \ {t} : tx'[u] = tx[u])
      /\ UNCHANGED <<sess, moves, sold>> /\ clock' = clock /\ clock \in Int /\ alone' = alone
  BY CashAssumption DEF End, Stored, CashInv, Tables, Time
<1>2. DrawerOK(t)' /\ ~Closing(t)' /\ \A s : Past(t, s)'
  BY <1>1, IdleState DEF DrawerOK, Closing, Event, Past, At
<1> QED BY <1>1, <1>2, IdleState, CloseQuiet DEF CloseInv

\* A request in progress that takes a step.
LEMMA KeptClose ==
  ASSUME CashInv, CloseInv, NEW t \in Tx, ~At(t, "idle"), UNCHANGED <<sess, moves, sold, clock, alone>>,
         \A u \in Tx \ {t} : tx'[u] = tx[u],
         tx'[t].req = tx[t].req, tx'[t].sess = tx[t].sess, tx'[t].expected = tx[t].expected,
         tx'[t].sold = tx[t].sold,
         Event(t)' => Event(t), DrawerOK(t)',
         Closing(t) /\ tx[t].sess \in alone =>
            \A q \in DOMAIN tx'[t].mine : /\ tx'[t].mine[q].expected = tx[t].expected
                                          /\ \A x \in sold : x.user = sess[tx[t].sess].user => x.at <= tx'[t].mine[q].closedAt
  PROVE  CloseInv'
<1>1. clock' \in Int /\ clock' >= clock
  BY CashAssumption DEF CashInv, Tables, Time
<1>2. Closing(t)' /\ tx'[t].sess \in alone' => ClosingAlone(t)'
  <2> SUFFICES ASSUME Closing(t)', tx'[t].sess \in alone' PROVE ClosingAlone(t)'
    OBVIOUS
  <2>1. Closing(t) /\ tx[t].sess \in alone
    BY DEF Closing, R
  <2>2. ClosingAlone(t)
    BY <2>1 DEF CloseInv
  <2>3. PICK s : s = tx[t].sess
    OBVIOUS
  <2>4. Available(s)' = Available(s)
    BY DEF Available, CashCollectedSince, AdjustmentTotal
  <2> QED BY <2>1, <2>2, <2>3, <2>4 DEF ClosingAlone, At, R
<1>3. ASSUME NEW u \in Tx \ {t}, Closing(u), tx[u].sess \in alone PROVE ~Concerns(tx'[t].req, R(u).from)
  BY <1>3 DEF CloseInv, ClosingAlone, R
<1>4. ASSUME NEW s \in alone, ~sess[s].open PROVE Past(t, s)'
  BY <1>4 DEF CloseInv, Past
<1> QED BY <1>1, <1>2, <1>3, <1>4, CloseQuiet DEF CloseInv

LEMMA CloseBegin ==
  ASSUME CashInv, CloseInv, NEW t \in Tx, NEW r \in Request, Begin(t, r)
  PROVE  CloseInv'
<1>1. PICK S : S = IF r.op = "sale" THEN {[user |-> r.to, amount |-> r.amount, at |-> clock']} ELSE {}
  OBVIOUS
<1>2. /\ tx' = [tx EXCEPT ![t] = [Idle EXCEPT !.pc = Start(r), !.req = r, !.at = clock', !.sold = S]]
      /\ UNCHANGED <<sess, moves, sold>> /\ clock' = clock + 1 /\ clock \in Int /\ clock' \in Int /\ clock' >= clock
      /\ alone' = alone \ {tx[u].sess : u \in {x \in Tx : ~At(x, "idle") /\ R(x).op = "close" /\ Concerns(r, R(x).from)}}
      /\ tx \in [Tx -> TxState]
  BY <1>1, CashAssumption DEF Begin, CashInv, Tables, Time
<1>3. /\ tx'[t].pc = Start(r) /\ tx'[t].req = r /\ tx'[t].at = clock' /\ tx'[t].sold = S
      /\ tx'[t].moves = Idle.moves /\ tx'[t].mine = Idle.mine
      /\ \A u \in Tx \ {t} : tx'[u] = tx[u]
  BY <1>2, IdleState DEF TxState
<1>4. r.op \in Ops
  <2>1. r \in [op : Ops, from : Place, to : Place, amount : Nat, neg : BOOLEAN]
    BY CashAssumption
  <2> QED BY <2>1
<1>5. ~Event(t)' /\ ~Closing(t)'
  <2>1. r.op \in {"close", "withdraw", "payin"} => Start(r) = "look"
    BY DEF Start
  <2> QED BY <1>3, <2>1 DEF Event, Closing, R
<1>6. \A x \in S : r.op = "sale" /\ x.user = r.to /\ x.at = clock'
  BY <1>1
<1>7. DrawerOK(t)'
  BY <1>3, <1>5, <1>6, IdleState DEF DrawerOK, R
<1>8. ASSUME NEW u \in Tx \ {t}, Closing(u), tx[u].sess \in alone' PROVE ~Concerns(r, R(u).from)
  BY <1>2, <1>8 DEF Closing, Event, At
<1>9. ASSUME NEW s \in alone', ~sess[s].open PROVE Past(t, s)'
  <2>1. s \in DOMAIN sess /\ sess[s].closedAt <= clock /\ sess[s].closedAt \in Int
    BY <1>2, <1>9, SessionsAre, CashAssumption DEF CloseInv, CashInv, Tables, Session, Time
  <2> QED BY <1>2, <1>3, <1>5, <1>6, <2>1 DEF Past
<1> QED BY <1>2, <1>3, <1>5, <1>7, <1>8, <1>9, CloseQuiet DEF CloseInv

LEMMA CloseLook ==
  ASSUME CashInv, CloseInv, NEW t \in Tx, Look(t)
  PROVE  CloseInv'
<1>1. CASE End(t)
  BY <1>1, CloseEnd
<1>2. ASSUME NEW s \in FindOpen(Till(R(t))),
             tx' = [tx EXCEPT ![t].pc = "book", ![t].sess = s, ![t].expected = Available(s)],
             alone' = IF R(t).op = "close" /\ \A u \in Tx \ {t} : At(u, "idle") \/ ~Concerns(R(u), R(t).from)
                        THEN alone \cup {s} ELSE alone \ {s},
             UNCHANGED <<sess, moves, ledger, sold, allowNeg, clock>>
      PROVE  CloseInv'
  <2>1. At(t, "look") /\ ~At(t, "idle") /\ tx \in [Tx -> TxState] /\ tx[t] \in TxState /\ Own(t) /\ DrawerOK(t)
    BY DEF Look, At, CashInv, CloseInv
  <2>2. s \in DOMAIN sess /\ sess[s].open /\ sess[s].user = Till(R(t))
    BY DEF FindOpen
  <2>3. PICK a : a = Available(s)
    OBVIOUS
  <2>4. /\ tx'[t].pc = "book" /\ tx'[t].sess = s /\ tx'[t].expected = a /\ tx'[t].req = tx[t].req
        /\ tx'[t].mine = tx[t].mine /\ tx'[t].moves = tx[t].moves /\ tx'[t].sold = tx[t].sold /\ tx'[t].at = tx[t].at
        /\ \A u \in Tx \ {t} : tx'[u] = tx[u]
    BY <1>2, <2>1, <2>3 DEF TxState
  <2>5. tx[t].mine = <<>> /\ tx[t].moves = {} /\ DOMAIN tx[t].mine = {}
    BY <2>1, IdleState DEF Own, Shape, At
  <2>6. Available(s)' = a
    BY <1>2, <2>3 DEF Available, CashCollectedSince, AdjustmentTotal
  <2>7. DrawerOK(t)'
    BY <1>2, <2>1, <2>2, <2>4, <2>5 DEF DrawerOK, Event, Closing, At, R
  <2>8. R(t).op = "close" => Till(R(t)) = R(t).from /\ Concerns(R(t), R(t).from)
    BY <2>1, ActiveFacts DEF Till, Concerns
  <2>9. Closing(t)' /\ tx'[t].sess \in alone' => ClosingAlone(t)'
    <3> SUFFICES ASSUME Closing(t)', tx'[t].sess \in alone' PROVE ClosingAlone(t)'
      OBVIOUS
    <3>1. \A u \in Tx \ {t} : At(u, "idle") \/ ~Concerns(R(u), R(t).from)
      BY <1>2, <2>4
    <3> QED BY <1>2, <2>2, <2>4, <2>5, <2>6, <3>1 DEF ClosingAlone, At, R
  <2>10. ASSUME NEW u \in Tx \ {t}, Closing(u), tx[u].sess \in alone', s \in alone' PROVE tx[u].sess # s
    <3>1. R(t).op = "close" /\ ~Concerns(R(u), R(t).from)
      BY <1>2, <2>10 DEF Closing, Event, At
    <3>2. Concerns(R(u), Till(R(u))) /\ sess[tx[u].sess].user = Till(R(u))
      BY <2>10 DEF CloseInv, DrawerOK, Closing, Concerns, Till
    <3> QED BY <2>2, <2>8, <3>1, <3>2
  <2>11. ASSUME NEW u \in Tx \ {t}, Closing(u), tx[u].sess \in alone PROVE ~Concerns(tx'[t].req, R(u).from)
    BY <2>1, <2>4, <2>11 DEF CloseInv, ClosingAlone, R
  <2>12. ASSUME NEW q \in alone, ~sess[q].open PROVE Past(t, q)'
    BY <1>2, <2>2, <2>4, <2>12 DEF CloseInv, Past
  <2>13. clock' \in Int /\ clock' >= clock /\ alone' \subseteq DOMAIN sess /\ alone' \subseteq alone \cup {s}
    BY <1>2, <2>2, CashAssumption DEF CashInv, Tables, Time, CloseInv
  <2> QED BY <1>2, <2>2, <2>4, <2>7, <2>9, <2>10, <2>11, <2>12, <2>13, CloseQuiet
<1> QED BY <1>1, <1>2 DEF Look

LEMMA CloseBookOpen ==
  ASSUME CashInv, CloseInv, NEW t \in Tx, BookOpen(t)
  PROVE  CloseInv'
<1>1. CASE End(t)
  BY <1>1, CloseEnd
<1>2. ASSUME ~End(t) PROVE CloseInv'
  <2>1. PICK f, M : /\ f = [s \in {tx[t].at} |-> [user |-> R(t).to, opening |-> R(t).amount, open |-> TRUE,
                                                  expected |-> 0, closedAt |-> 0]]
                    /\ M = {Moved(t, tx[t].at, "opening", R(t).amount)}
    OBVIOUS
  <2>2. /\ At(t, "book") /\ ~At(t, "idle") /\ R(t).op = "open"
        /\ tx' = [tx EXCEPT ![t].pc = AfterBook(R(t)), ![t].mine = f, ![t].moves = M]
        /\ UNCHANGED <<sess, moves, sold, clock, alone>> /\ tx \in [Tx -> TxState] /\ DrawerOK(t)
    BY <1>2, <2>1 DEF BookOpen, Stored, At, CashInv, CloseInv
  <2>3. /\ tx'[t].pc = AfterBook(R(t)) /\ tx'[t].mine = f /\ tx'[t].moves = M /\ tx'[t].req = tx[t].req
        /\ tx'[t].sess = tx[t].sess /\ tx'[t].expected = tx[t].expected /\ tx'[t].sold = tx[t].sold
        /\ tx'[t].at = tx[t].at /\ \A u \in Tx \ {t} : tx'[u] = tx[u]
    BY <2>2 DEF TxState
  <2>4. /\ \A q \in DOMAIN f : f[q].open /\ f[q].closedAt = 0
        /\ \A m \in M : m.type = "opening"
    BY <2>1 DEF Moved
  <2>5. clock >= 0
    BY CashAssumption DEF CashInv, Tables, Time
  <2>6. DrawerOK(t)'
    BY <2>2, <2>3, <2>4, <2>5 DEF DrawerOK, Event, Closing, R
  <2> QED BY <2>2, <2>3, <2>6, KeptClose DEF Event, Closing, R
<1> QED BY <1>1, <1>2

LEMMA CloseBookClose ==
  ASSUME CashInv, CloseInv, NEW t \in Tx, BookClose(t)
  PROVE  CloseInv'
<1>1. PICK s, n : /\ s = tx[t].sess
                  /\ n = [sess[s] EXCEPT !.open = FALSE, !.expected = tx[t].expected, !.closedAt = clock]
  OBVIOUS
<1>2. PICK f, M : f = [q \in {s} |-> n] /\ M = {Moved(t, s, "closing", R(t).amount)}
  OBVIOUS
<1>3. /\ At(t, "book") /\ ~At(t, "idle") /\ R(t).op = "close"
      /\ tx' = [tx EXCEPT ![t].pc = AfterBook(R(t)), ![t].locks = {<<s, "nokey">>}, ![t].mine = f, ![t].moves = M]
      /\ UNCHANGED <<sess, moves, sold, clock, alone>> /\ tx \in [Tx -> TxState] /\ DrawerOK(t) /\ Event(t) /\ Own(t)
  BY <1>1, <1>2 DEF BookClose, Stored, At, CashInv, CloseInv, Event
<1>4. /\ tx'[t].pc = AfterBook(R(t)) /\ tx'[t].mine = f /\ tx'[t].moves = M /\ tx'[t].req = tx[t].req
      /\ tx'[t].sess = tx[t].sess /\ tx'[t].expected = tx[t].expected /\ tx'[t].sold = tx[t].sold
      /\ tx'[t].at = tx[t].at /\ \A u \in Tx \ {t} : tx'[u] = tx[u]
  BY <1>3 DEF TxState
<1>5. s \in DOMAIN sess /\ sess[s] \in Session /\ clock \in Int
  BY <1>1, <1>3, AvailableInt, CashAssumption DEF DrawerOK, CashInv, Tables, Time
<1>6. n.user = sess[s].user /\ n.opening = sess[s].opening /\ n.closedAt = clock /\ ~n.open /\ n.expected = tx[t].expected
  BY <1>1, <1>5 DEF Session
<1>7. \A m \in M : m.type = "closing" /\ m.session = s /\ \A k \in M : k = m
  BY <1>2 DEF Moved
<1>8. DOMAIN f = {s} /\ f[s] = n
  BY <1>2
<1>9. DrawerOK(t)'
  <2>1. R(t)' = R(t) /\ tx'[t].sess = s /\ sess' = sess /\ clock' = clock
    BY <1>1, <1>3, <1>4 DEF R
  <2>2. s \in DOMAIN sess /\ sess[s].user = Till(R(t))
    BY <1>1, <1>3 DEF DrawerOK
  <2>3. \A x \in tx[t].sold : R(t).op = "sale" /\ x.user = R(t).to /\ x.at = tx[t].at
    BY <1>3 DEF DrawerOK
  <2>4. \A m \in M : /\ m.type = "closing" => R(t).op = "close"
                     /\ m.type = "adjust" => R(t).op \in {"withdraw", "payin", "move"}
                     /\ R(t).op \in {"close", "withdraw", "payin"} => m.session = s
    BY <1>3, <1>7
  <2>5. \A m, n1 \in M : m = n1
    BY <1>7
  <2>6. /\ \A q \in DOMAIN f : IF f[q].open THEN R(t).op # "close"
                              ELSE /\ R(t).op = "close" /\ q = s
                                   /\ f[q].user = sess[q].user /\ f[q].opening = sess[q].opening
        /\ \A q \in DOMAIN f : f[q].closedAt <= clock
    BY <1>3, <1>5, <1>6, <1>8
  <2> QED BY <1>4, <1>8, <2>1, <2>2, <2>3, <2>4, <2>5, <2>6 DEF DrawerOK
<1>10. \A x \in sold : x.at <= n.closedAt
  BY <1>6 DEF CloseInv
<1>11. \A q \in DOMAIN tx'[t].mine : /\ tx'[t].mine[q].expected = tx[t].expected
                                      /\ \A x \in sold : x.at <= tx'[t].mine[q].closedAt
  BY <1>4, <1>6, <1>8, <1>10
<1> QED BY <1>3, <1>4, <1>9, <1>11, KeptClose

LEMMA CloseBookAdjust ==
  ASSUME CashInv, CloseInv, NEW t \in Tx, BookAdjust(t)
  PROVE  CloseInv'
<1>1. PICK s, M : /\ s = tx[t].sess
                  /\ M = {Moved(t, s, "adjust", IF CashIn(R(t)) THEN R(t).amount ELSE -R(t).amount)}
  OBVIOUS
<1>2. /\ At(t, "book") /\ ~At(t, "idle") /\ R(t).op \in {"withdraw", "payin"}
      /\ tx' = [tx EXCEPT ![t].pc = AfterBook(R(t)), ![t].locks = {<<s, "key">>}, ![t].moves = M]
      /\ UNCHANGED <<sess, moves, sold, clock, alone>> /\ tx \in [Tx -> TxState] /\ DrawerOK(t) /\ Event(t) /\ Own(t)
  BY <1>1 DEF BookAdjust, Stored, At, CashInv, CloseInv, Event
<1>3. /\ tx'[t].pc = AfterBook(R(t)) /\ tx'[t].mine = tx[t].mine /\ tx'[t].moves = M /\ tx'[t].req = tx[t].req
      /\ tx'[t].sess = tx[t].sess /\ tx'[t].expected = tx[t].expected /\ tx'[t].sold = tx[t].sold
      /\ tx'[t].at = tx[t].at /\ \A u \in Tx \ {t} : tx'[u] = tx[u]
  BY <1>2 DEF TxState
<1>4. \A m \in M : m.type = "adjust" /\ m.session = s
  BY <1>1 DEF Moved
<1>5. DrawerOK(t)'
  <2>1. R(t)' = R(t) /\ tx'[t].sess = s /\ sess' = sess /\ clock' = clock /\ ~Closing(t)'
    BY <1>1, <1>2, <1>3 DEF R, Closing
  <2>2. s \in DOMAIN sess /\ sess[s].user = Till(R(t))
    BY <1>1, <1>2 DEF DrawerOK
  <2>3. \A m \in M : /\ m.type = "closing" => R(t).op = "close"
                     /\ m.type = "adjust" => R(t).op \in {"withdraw", "payin", "move"}
                     /\ R(t).op \in {"close", "withdraw", "payin"} => m.session = s
    BY <1>2, <1>4
  <2> QED BY <1>2, <1>3, <2>1, <2>2, <2>3 DEF DrawerOK
<1> QED BY <1>2, <1>3, <1>5, KeptClose DEF Closing

\* Steps that write no session and no movement of a drawer event.
LEMMA CloseOther ==
  ASSUME CashInv, CloseInv, NEW t \in Tx, ~At(t, "idle"), UNCHANGED <<sess, moves, sold, clock, alone>>,
         \A u \in Tx \ {t} : tx'[u] = tx[u],
         tx'[t].req = tx[t].req, tx'[t].sess = tx[t].sess, tx'[t].expected = tx[t].expected,
         tx'[t].sold = tx[t].sold, tx'[t].at = tx[t].at, tx'[t].mine = tx[t].mine,
         \/ R(t).op = "move" /\ \A m \in tx'[t].moves : m.type = "adjust"
         \/ At(t, "leg") /\ tx'[t].pc = "commit" /\ tx'[t].moves = tx[t].moves
  PROVE  CloseInv'
<1>1. DrawerOK(t)
  BY DEF CloseInv
<1>2. Event(t)' => Event(t)
  BY DEF Event, R, At
<1>3. DrawerOK(t)'
  BY <1>1 DEF DrawerOK, Event, Closing, R, At
<1>4. ASSUME Closing(t), tx[t].sess \in alone, NEW q \in DOMAIN tx'[t].mine
      PROVE  /\ tx'[t].mine[q].expected = tx[t].expected
             /\ \A x \in sold : x.user = sess[tx[t].sess].user => x.at <= tx'[t].mine[q].closedAt
  BY <1>4 DEF CloseInv, ClosingAlone
<1> QED BY <1>2, <1>3, <1>4, KeptClose

LEMMA CloseLeg ==
  ASSUME CashInv, CloseInv, NEW t \in Tx, Leg(t)
  PROVE  CloseInv'
<1>1. CASE End(t)
  BY <1>1, CloseEnd
<1>2. ASSUME ~End(t) PROVE CloseInv'
  <2>1. PICK K, L : /\ At(t, "leg") /\ ~At(t, "idle")
                    /\ tx' = [tx EXCEPT ![t].pc = "commit", ![t].locks = @ \cup K, ![t].ledger = L]
                    /\ UNCHANGED <<sess, moves, sold, clock, alone>> /\ tx \in [Tx -> TxState]
    BY <1>2 DEF Leg, Stored, At, CashInv
  <2>2. /\ tx'[t].pc = "commit" /\ tx'[t].mine = tx[t].mine /\ tx'[t].moves = tx[t].moves /\ tx'[t].req = tx[t].req
        /\ tx'[t].sess = tx[t].sess /\ tx'[t].expected = tx[t].expected /\ tx'[t].sold = tx[t].sold
        /\ tx'[t].at = tx[t].at /\ \A u \in Tx \ {t} : tx'[u] = tx[u]
    BY <2>1 DEF TxState
  <2> QED BY <2>1, <2>2, CloseOther
<1> QED BY <1>1, <1>2

LEMMA CloseWalk ==
  ASSUME CashInv, CloseInv, NEW t \in Tx, LockFrom(t) \/ LockTo(t) \/ GuardSource(t)
  PROVE  CloseInv'
<1>1. CASE End(t)
  BY <1>1, CloseEnd
<1>2. ASSUME NEW next, tx' = [tx EXCEPT ![t].pc = next], Stored PROVE CloseInv'
  <2>1. tx[t].pc \in {"from", "to", "guard"} /\ ~At(t, "idle") /\ tx \in [Tx -> TxState] /\ R(t).op = "move"
        /\ tx[t].moves = {}
    BY DEF LockFrom, LockTo, GuardSource, At, CashInv, Own, Shape
  <2>2. /\ tx'[t].mine = tx[t].mine /\ tx'[t].moves = tx[t].moves /\ tx'[t].req = tx[t].req
        /\ tx'[t].sess = tx[t].sess /\ tx'[t].expected = tx[t].expected /\ tx'[t].sold = tx[t].sold
        /\ tx'[t].at = tx[t].at /\ \A u \in Tx \ {t} : tx'[u] = tx[u]
    BY <1>2, <2>1 DEF TxState
  <2> QED BY <1>2, <2>1, <2>2, CloseOther DEF Stored
<1>3. ASSUME NEW next, NEW K, tx' = [tx EXCEPT ![t].pc = next, ![t].locks = @ \cup K], Stored PROVE CloseInv'
  <2>1. tx[t].pc \in {"from", "to", "guard"} /\ ~At(t, "idle") /\ tx \in [Tx -> TxState] /\ R(t).op = "move"
        /\ tx[t].moves = {}
    BY DEF LockFrom, LockTo, GuardSource, At, CashInv, Own, Shape
  <2>2. /\ tx'[t].mine = tx[t].mine /\ tx'[t].moves = tx[t].moves /\ tx'[t].req = tx[t].req
        /\ tx'[t].sess = tx[t].sess /\ tx'[t].expected = tx[t].expected /\ tx'[t].sold = tx[t].sold
        /\ tx'[t].at = tx[t].at /\ \A u \in Tx \ {t} : tx'[u] = tx[u]
    BY <1>3, <2>1 DEF TxState
  <2> QED BY <1>3, <2>1, <2>2, CloseOther DEF Stored
<1>4. ASSUME NEW place, NEW next, LockTill(t, place, next) PROVE CloseInv'
  BY <1>1, <1>2, <1>3, <1>4 DEF LockTill
<1>5. CASE GuardSource(t)
  BY <1>1, <1>3, <1>5 DEF GuardSource
<1> QED BY <1>4, <1>5 DEF LockFrom, LockTo

LEMMA CloseLegs ==
  ASSUME CashInv, CloseInv, NEW t \in Tx, Legs(t)
  PROVE  CloseInv'
<1>1. PICK K, M, L : /\ At(t, "legs") /\ ~At(t, "idle")
                     /\ tx' = [tx EXCEPT ![t].pc = "commit", ![t].locks = @ \cup K, ![t].moves = M, ![t].ledger = L]
                     /\ UNCHANGED <<sess, moves, sold, clock, alone>> /\ tx \in [Tx -> TxState]
                     /\ \A m \in M : m.type = "adjust"
  <2>1. \A s, n : Moved(t, s, "adjust", n).type = "adjust"
    BY DEF Moved
  <2>2. tx \in [Tx -> TxState] /\ At(t, "legs") /\ ~At(t, "idle") /\ UNCHANGED <<sess, moves, sold, clock, alone>>
    BY DEF Legs, Stored, At, CashInv
  <2> DEFINE side == {[place |-> R(t).from, n |-> -R(t).amount], [place |-> R(t).to, n |-> R(t).amount]}
             K == IF R(t).to \in Locker THEN {<<R(t).to, "key">>} ELSE {}
             M == UNION {{Moved(t, s, "adjust", d.n) : s \in FindOpen(d.place)} : d \in side}
             L == {Entered(t, d.place, d.n) : d \in LockerSides(side)}
  <2>3. tx' = [tx EXCEPT ![t].pc = "commit", ![t].locks = @ \cup K, ![t].moves = M, ![t].ledger = L]
    BY DEF Legs
  <2>4. \A m \in M : m.type = "adjust"
    BY <2>1
  <2> HIDE DEF side, K, M, L
  <2> QED BY <2>2, <2>3, <2>4
<1>2. R(t).op = "move"
  BY <1>1 DEF CashInv, Own, Shape, At
<1>3. /\ tx'[t].mine = tx[t].mine /\ tx'[t].moves = M /\ tx'[t].req = tx[t].req
      /\ tx'[t].sess = tx[t].sess /\ tx'[t].expected = tx[t].expected /\ tx'[t].sold = tx[t].sold
      /\ tx'[t].at = tx[t].at /\ \A u \in Tx \ {t} : tx'[u] = tx[u]
  BY <1>1 DEF TxState
<1> QED BY <1>1, <1>2, <1>3, CloseOther

LEMMA CloseAllow ==
  ASSUME CashInv, CloseInv, NEW t \in Tx, Allow(t)
  PROVE  CloseInv'
<1>1. /\ tx'[t] = Idle /\ (\A u \in Tx \ {t} : tx'[u] = tx[u])
      /\ UNCHANGED <<sess, moves, sold>> /\ clock' = clock /\ clock \in Int /\ alone' = alone
  BY CashAssumption DEF Allow, CashInv, Tables, Time
<1>2. DrawerOK(t)' /\ ~Closing(t)' /\ \A s : Past(t, s)'
  BY <1>1, IdleState DEF DrawerOK, Closing, Event, Past, At
<1> QED BY <1>1, <1>2, IdleState, CloseQuiet DEF CloseInv

\* A sum over sales already there is not changed by others.
LEMMA SalesLaw ==
  ASSUME NEW A \in SUBSET CashSale, NEW B \in SUBSET CashSale, IsFiniteSet(A), NEW T \in SUBSET A
  PROVE  SumFunctionOnSet(Amount(A \cup B), T) = SumFunctionOnSet(Amount(A), T)
<1>1. IsFiniteSet(T) /\ \A x \in T : Amount(A \cup B)[x] = Amount(A)[x]
  BY FS_Subset DEF Amount
<1> QED BY <1>1, SumSame

\* What a commit may do to a session.
LEMMA CommitDrawer ==
  ASSUME CashInv, CloseInv, NEW t \in Tx, Commit(t), NEW s \in DOMAIN sess
  PROVE  /\ s \in DOMAIN sess' /\ sess'[s].user = sess[s].user /\ sess'[s].opening = sess[s].opening
         /\ ~sess[s].open => ~sess'[s].open
         /\ s \in DOMAIN tx[t].mine => ~tx[t].mine[s].open /\ Closing(t) /\ s = tx[t].sess /\ sess'[s] = tx[t].mine[s]
         /\ s \notin DOMAIN tx[t].mine => sess'[s] = sess[s]
         /\ s \in DOMAIN tx[t].mine \/ (\E m \in tx[t].moves : m.type = "adjust" /\ m.session = s)
              => Concerns(R(t), sess[s].user)
         /\ \A m \in tx[t].moves : m.type = "adjust" /\ m.session = s => sess[s].open \/ (Event(t) /\ tx[t].sess = s)
         /\ \A x \in tx[t].sold : x.user = sess[s].user => Concerns(R(t), sess[s].user)
<1>1. /\ ~At(t, "idle") /\ At(t, "commit") /\ Own(t) /\ DrawerOK(t) /\ tx[t].at \notin DOMAIN sess
      /\ R(t).op \in Ops
  <2>1. ~At(t, "idle") /\ At(t, "commit")
    BY DEF Commit, At
  <2> QED BY <2>1, ActiveFacts DEF CloseInv
<1>2. s \in DOMAIN sess' /\ sess'[s] = (IF s \in DOMAIN tx[t].mine THEN tx[t].mine[s] ELSE sess[s])
  BY CommitAdds
<1>3. ASSUME s \in DOMAIN tx[t].mine
      PROVE  /\ ~tx[t].mine[s].open /\ Closing(t) /\ s = tx[t].sess
             /\ tx[t].mine[s].user = sess[s].user /\ tx[t].mine[s].opening = sess[s].opening
             /\ Concerns(R(t), sess[s].user)
  <2>1. ~tx[t].mine[s].open
    BY <1>1, <1>3 DEF Own, MineOK
  <2>2. R(t).op = "close" /\ s = tx[t].sess /\ tx[t].mine[s].user = sess[s].user /\ tx[t].mine[s].opening = sess[s].opening
    BY <1>1, <1>3, <2>1 DEF DrawerOK
  <2>3. Event(t)
    BY <1>1, <2>2 DEF Event, At
  <2>4. Concerns(R(t), sess[s].user)
    BY <1>1, <2>2, <2>3 DEF DrawerOK, Till, Concerns
  <2> QED BY <2>1, <2>2, <2>3, <2>4 DEF Closing
<1>4. ASSUME NEW m \in tx[t].moves, m.type = "adjust", m.session = s
      PROVE  Concerns(R(t), sess[s].user) /\ (sess[s].open \/ (Event(t) /\ tx[t].sess = s))
  <2>1. CASE R(t).op = "move"
    BY <1>1, <1>4, <2>1 DEF Own, MoveOK, MoveRow, FindOpen, Concerns
  <2>2. CASE R(t).op \in {"withdraw", "payin"}
    <3>1. Event(t) /\ tx[t].sess = s
      BY <1>1, <1>4, <2>2 DEF DrawerOK, Event, At
    <3>2. Concerns(R(t), sess[s].user)
      BY <1>1, <3>1 DEF DrawerOK, Till, Concerns
    <3> QED BY <3>1, <3>2
  <2> QED BY <1>1, <1>4, <2>1, <2>2 DEF DrawerOK
<1>5. \A x \in tx[t].sold : x.user = sess[s].user => Concerns(R(t), sess[s].user)
  BY <1>1 DEF DrawerOK, Concerns
<1> QED BY <1>2, <1>3, <1>4, <1>5

\* A close that is alone is not disturbed by a commit.
LEMMA AloneStays ==
  ASSUME CashInv, CloseInv, NEW t \in Tx, Commit(t), NEW u \in Tx \ {t}, Closing(u), tx[u].sess \in alone
  PROVE  ClosingAlone(u)'
<1>1. PICK s : s = tx[u].sess
  OBVIOUS
<1>2. ClosingAlone(u) /\ DrawerOK(u) /\ s \in DOMAIN sess /\ tx'[u] = tx[u] /\ tx'[t] = Idle
      /\ \A v \in Tx \ {t} : tx'[v] = tx[v]
  BY <1>1, CommitAdds DEF CloseInv
<1>3. ~Concerns(R(t), sess[s].user)
  <2>1. ~At(t, "idle") /\ ~At(u, "idle")
    BY CommitAdds DEF Closing, Event, At
  <2>2. sess[s].user = R(u).from
    BY <1>1, <1>2, <2>1, ActiveFacts DEF DrawerOK, Closing, Till
  <2> QED BY <1>2, <2>1, <2>2 DEF ClosingAlone
<1>4. sess'[s] = sess[s] /\ s \in DOMAIN sess'
  BY <1>2, <1>3, CommitDrawer
<1>5. PICK M, S, v : M = tx[t].moves /\ S = tx[t].sold /\ v = sess[s].user
  OBVIOUS
<1>6. /\ moves' = moves \cup M /\ sold' = sold \cup S /\ M \in SUBSET Movement /\ S \in SUBSET CashSale
      /\ IsFiniteSet(moves) /\ IsFiniteSet(sold) /\ moves \in SUBSET Movement /\ sold \in SUBSET CashSale
  BY <1>5, CommitAdds DEF CashInv, Tables
<1>7. (\A m \in M : m.type = "adjust" => m.session # s) /\ (\A x \in S : x.user # v)
  BY <1>2, <1>3, <1>5, CommitDrawer
<1>8. Adj(moves \cup M, s) = Adj(moves, s)
  BY <1>6, <1>7, AdjustLaw
<1>9. Coll(sold \cup S, v, s) = Coll(sold, v, s)
  <2>1. {x \in sold \cup S : x.user = v /\ x.at >= s} = {x \in sold : x.user = v /\ x.at >= s}
    BY <1>7
  <2> QED BY <1>6, <2>1, SalesLaw DEF Coll
<1>10. Available(s)' = Available(s)
  <2>1. Available(s) = sess[s].opening + Coll(sold, v, s) + Adj(moves, s)
    BY <1>5, SumsAre DEF Available
  <2>2. Available(s)' = sess[s].opening + Coll(sold', v, s) + Adj(moves', s)
    BY <1>4, <1>5 DEF Available, CashCollectedSince, AdjustmentTotal, Coll, Adj
  <2> QED BY <1>6, <1>8, <1>9, <2>1, <2>2
<1>11. \A w \in Tx \ {u} : At(w, "idle")' \/ ~Concerns(R(w)', R(u).from)
  BY <1>2, IdleState DEF ClosingAlone, At, R
<1>12. \A q \in DOMAIN tx[u].mine : \A x \in sold' : x.user = v => x.at <= tx[u].mine[q].closedAt
  BY <1>1, <1>2, <1>5, <1>6, <1>7 DEF ClosingAlone
<1>13. sess[s].open /\ tx[u].expected = Available(s) /\ \A q \in DOMAIN tx[u].mine : tx[u].mine[q].expected = tx[u].expected
  BY <1>1, <1>2 DEF ClosingAlone
<1> QED BY <1>1, <1>2, <1>4, <1>5, <1>10, <1>11, <1>12, <1>13 DEF ClosingAlone, R

\* A session that closed alone stays reconciled.
LEMMA ReconciledStays ==
  ASSUME CashInv, CloseInv, NEW t \in Tx, Commit(t), NEW s \in alone, ~sess[s].open
  PROVE  Reconciled(s)' /\ \A u \in Tx : Past(u, s)'
<1>1. Reconciled(s) /\ (\A u \in Tx : Past(u, s)) /\ s \in DOMAIN sess /\ DrawerOK(t) /\ tx'[t] = Idle
      /\ \A v \in Tx \ {t} : tx'[v] = tx[v]
  BY CommitAdds DEF CloseInv
<1>2. ~(Event(t) /\ tx[t].sess = s)
  BY <1>1 DEF Past
<1>3. sess'[s] = sess[s] /\ s \in DOMAIN sess'
  BY <1>1, <1>2, CommitDrawer DEF Closing
<1>4. PICK M, S, v, c : M = tx[t].moves /\ S = tx[t].sold /\ v = sess[s].user /\ c = sess[s].closedAt
  OBVIOUS
<1>5. /\ moves' = moves \cup M /\ sold' = sold \cup S /\ M \in SUBSET Movement /\ S \in SUBSET CashSale
      /\ IsFiniteSet(moves) /\ IsFiniteSet(sold) /\ moves \in SUBSET Movement /\ sold \in SUBSET CashSale
  BY <1>4, CommitAdds DEF CashInv, Tables
<1>6. /\ \A m \in M : m.type = "adjust" => m.session # s
      /\ \A m \in M : m.type = "closing" => m.session # s
  <2>1. \A m \in M : m.type = "adjust" => m.session # s
    BY <1>1, <1>2, <1>4, CommitDrawer
  <2>2. ASSUME NEW m \in M, m.type = "closing" PROVE m.session # s
    <3>1. R(t).op = "close" /\ m.session = tx[t].sess /\ Event(t)
      BY <1>1, <1>4, <2>2 DEF DrawerOK, Event, Commit, At
    <3> QED BY <1>2, <3>1
  <2> QED BY <2>1, <2>2
<1>7. \A x \in S : x.user = v => x.at > c
  BY <1>1, <1>4 DEF Past
<1>8. Adj(moves \cup M, s) = Adj(moves, s)
  BY <1>5, <1>6, AdjustLaw
<1>9. PICK T : T = Taken(s)
  OBVIOUS
<1>10. Taken(s)' = T /\ T \in SUBSET sold
  <2>1. c \in Int /\ s \in Int /\ \A x \in S : x.at \in Int
    BY <1>1, <1>4, <1>5, AvailableInt, CashAssumption DEF Session, Time, CashSale
  <2>2. {x \in sold \cup S : x.user = v /\ x.at \in s .. c} = {x \in sold : x.user = v /\ x.at \in s .. c}
    BY <1>7, <2>1
  <2>3. Taken(s)' = {x \in sold \cup S : x.user = v /\ x.at \in s .. c}
    BY <1>3, <1>4, <1>5 DEF Taken
  <2> QED BY <1>4, <1>9, <2>2, <2>3 DEF Taken
<1>11. SumFunctionOnSet(Amount(sold \cup S), T) = SumFunctionOnSet(Amount(sold), T)
  BY <1>5, <1>10, SalesLaw
<1>12. Reconciled(s)'
  <2>1. \A m, n \in moves' : m.type = "closing" /\ n.type = "closing" /\ m.session = s /\ n.session = s => m = n
    BY <1>1, <1>5, <1>6 DEF Reconciled
  <2>2. sess[s].expected = sess[s].opening + Adj(moves, s) + SumFunctionOnSet(Amount(sold), T)
    BY <1>1, <1>9, SumsAre DEF Reconciled
  <2>3. AdjustmentTotal(s)' = Adj(moves', s)
    BY DEF AdjustmentTotal, Adj
  <2>4. AdjustmentTotal(s)' = Adj(moves, s)
    BY <1>5, <1>8, <2>3
  <2>5. SumFunctionOnSet(Amount(sold), Taken(s))' = SumFunctionOnSet(Amount(sold'), T)
    BY <1>10
  <2>6. SumFunctionOnSet(Amount(sold), Taken(s))' = SumFunctionOnSet(Amount(sold), T)
    BY <1>5, <1>11, <2>5
  <2> QED BY <1>3, <2>1, <2>2, <2>4, <2>6 DEF Reconciled
<1>13. ASSUME NEW u \in Tx \ {t} PROVE Past(u, s)'
  BY <1>1, <1>3 DEF Past, Event, R
<1>14. Past(t, s)'
  BY <1>1, IdleState DEF Past, Event
<1> QED BY <1>12, <1>13, <1>14

\* The close itself: what it read before its transaction is what there is when it commits.
LEMMA CloseCommits ==
  ASSUME CashInv, CloseInv, NEW t \in Tx, Commit(t), NEW s \in alone, s \in DOMAIN tx[t].mine
  PROVE  Reconciled(s)' /\ \A u \in Tx : Past(u, s)'
<1>1. s \in DOMAIN sess /\ sess[s] \in Session /\ s \in Int
  BY AvailableInt, CashAssumption DEF CloseInv, CashInv, Tables, Time
<1>2. /\ ~tx[t].mine[s].open /\ Closing(t) /\ s = tx[t].sess /\ sess'[s] = tx[t].mine[s] /\ s \in DOMAIN sess'
      /\ sess'[s].user = sess[s].user /\ sess'[s].opening = sess[s].opening
  BY <1>1, CommitDrawer
<1>3. /\ ClosingAlone(t) /\ DrawerOK(t) /\ tx'[t] = Idle /\ (\A u \in Tx \ {t} : tx'[u] = tx[u]) /\ R(t).op = "close"
      /\ ~At(t, "idle") /\ tx[t].mine \in Sessions
  BY <1>2, CommitAdds DEF CloseInv, Closing
<1>4. sess[s].user = R(t).from
  BY <1>2, <1>3, ActiveFacts DEF DrawerOK, Closing, Till
<1>5. PICK M, v, c : M = tx[t].moves /\ v = sess[s].user /\ c = tx[t].mine[s].closedAt
  OBVIOUS
<1>6. tx[t].sold = {} /\ sess[s].open /\ tx[t].expected = Available(s) /\ tx[t].mine[s].expected = tx[t].expected
      /\ \A x \in sold : x.user = v => x.at <= c
  BY <1>2, <1>3, <1>5 DEF ClosingAlone, DrawerOK
<1>7. /\ moves' = moves \cup M /\ sold' = sold /\ M \in SUBSET Movement
      /\ IsFiniteSet(moves) /\ IsFiniteSet(sold) /\ moves \in SUBSET Movement /\ sold \in SUBSET CashSale
  <2>1. moves' = moves \cup tx[t].moves /\ sold' = sold \cup tx[t].sold /\ tx[t].moves \in SUBSET Movement
    BY CommitAdds
  <2>2. sold' = sold
    BY <1>6, <2>1
  <2> QED BY <1>5, <2>1, <2>2 DEF CashInv, Tables
<1>8. (\A m \in M : m.type # "adjust") /\ \A m, n \in M : m = n
  BY <1>3, <1>5 DEF DrawerOK
<1>9. \A m \in moves : m.type = "closing" => m.session # s
  BY <1>6 DEF CloseInv
<1>10. Adj(moves \cup M, s) = Adj(moves, s)
  BY <1>7, <1>8, AdjustLaw
<1>11. PICK T : T = {x \in sold : x.user = v /\ x.at >= s}
  OBVIOUS
<1>12. Taken(s)' = T
  <2>1. c \in Int /\ \A x \in sold : x.at \in Int
    BY <1>2, <1>3, <1>5, <1>7, SessionsAre, CashAssumption DEF Session, Time, CashSale
  <2>2. {x \in sold : x.user = v /\ x.at \in s .. c} = T
    BY <1>1, <1>6, <1>11, <2>1
  <2>3. Taken(s)' = {x \in sold : x.user = v /\ x.at \in s .. c}
    BY <1>2, <1>5, <1>7 DEF Taken
  <2> QED BY <2>2, <2>3
<1>13. Reconciled(s)'
  <2>1. \A m, n \in moves' : m.type = "closing" /\ n.type = "closing" /\ m.session = s /\ n.session = s => m = n
    BY <1>7, <1>8, <1>9
  <2>2. Available(s) = sess[s].opening + Coll(sold, v, s) + Adj(moves, s)
    BY <1>5, SumsAre DEF Available
  <2>3. Coll(sold, v, s) = SumFunctionOnSet(Amount(sold), T)
    BY <1>11 DEF Coll
  <2>4. AdjustmentTotal(s)' = Adj(moves', s)
    BY DEF AdjustmentTotal, Adj
  <2>5. AdjustmentTotal(s)' = Adj(moves, s)
    BY <1>7, <1>10, <2>4
  <2>6. SumFunctionOnSet(Amount(sold), Taken(s))' = SumFunctionOnSet(Amount(sold), T)
    BY <1>7, <1>12
  <2>7. Adj(moves, s) \in Int /\ SumFunctionOnSet(Amount(sold), T) \in Int /\ sess[s].opening \in Int
    <3>1. Coll(sold, v, s) \in Nat
      BY <1>7, CollectedLaw
    <3> QED BY <1>1, <1>7, <2>3, <3>1, AdjustLaw DEF Session
  <2>8. sess[s].opening + Coll(sold, v, s) + Adj(moves, s) = sess[s].opening + Adj(moves, s) + SumFunctionOnSet(Amount(sold), T)
    BY <2>3, <2>7
  <2> QED BY <1>2, <1>6, <2>1, <2>2, <2>5, <2>6, <2>8 DEF Reconciled
<1>14. ASSUME NEW u \in Tx \ {t} PROVE Past(u, s)'
  <2>1. At(u, "idle") \/ ~Concerns(R(u), v)
    BY <1>3, <1>4, <1>5 DEF ClosingAlone
  <2>2. DrawerOK(u)
    BY DEF CloseInv
  <2>3. tx'[u] = tx[u]
    BY <1>3
  <2>4. ~(Event(u) /\ tx[u].sess = s)
    <3> SUFFICES ASSUME Event(u), tx[u].sess = s PROVE FALSE
      OBVIOUS
    <3>1. ~At(u, "idle")
      BY DEF Event, At
    <3>2. v = Till(R(u))
      BY <1>5, <2>2 DEF DrawerOK
    <3> QED BY <2>1, <3>1, <3>2 DEF Till, Concerns
  <2>5. ASSUME NEW x \in tx[u].sold, x.user = v PROVE FALSE
    <3>1. v = R(u).to
      BY <2>2, <2>5 DEF DrawerOK
    <3>2. At(u, "idle")
      BY <2>1, <3>1 DEF Concerns
    <3>3. tx[u].sold = {}
      BY <3>2, IdleState DEF CashInv, Own, Shape
    <3> QED BY <2>5, <3>3
  <2> QED BY <1>2, <1>5, <2>3, <2>4, <2>5 DEF Past, Event, R
<1>15. Past(t, s)'
  BY <1>3, IdleState DEF Past, Event
<1> QED BY <1>13, <1>14, <1>15

\* A commit.
LEMMA CloseCommit ==
  ASSUME CashInv, CloseInv, NEW t \in Tx, Commit(t)
  PROVE  CloseInv'
<1>1. /\ ~At(t, "idle") /\ At(t, "commit") /\ DrawerOK(t) /\ Own(t) /\ tx[t].at \in 1 .. clock /\ clock \in Int
  <2>1. ~At(t, "idle") /\ At(t, "commit")
    BY DEF Commit, At
  <2> QED BY <2>1, ActiveFacts DEF CloseInv
<1>2. /\ DOMAIN sess' = DOMAIN sess \cup DOMAIN tx[t].mine
      /\ \A s \in DOMAIN sess' : sess'[s] = IF s \in DOMAIN tx[t].mine THEN tx[t].mine[s] ELSE sess[s]
      /\ moves' = moves \cup tx[t].moves /\ sold' = sold \cup tx[t].sold /\ clock' = clock /\ alone' = alone
      /\ tx'[t] = Idle /\ \A u \in Tx \ {t} : tx'[u] = tx[u]
  BY CommitAdds DEF Commit
<1>3. alone' \subseteq DOMAIN sess'
  BY <1>2 DEF CloseInv
<1>4. \A x \in sold' : x.at <= clock'
  <2>1. \A x \in tx[t].sold : x.at <= clock
    BY <1>1 DEF DrawerOK
  <2> QED BY <1>2, <2>1 DEF CloseInv
<1>5. \A s \in DOMAIN sess' : sess'[s].closedAt <= clock'
  BY <1>1, <1>2 DEF CloseInv, DrawerOK
<1>6. ASSUME NEW m \in moves', m.type = "closing" PROVE m.session \in DOMAIN sess' /\ ~sess'[m.session].open
  <2>1. CASE m \in moves
    BY <1>6, <2>1, CommitDrawer DEF CloseInv
  <2>2. CASE m \in tx[t].moves
    <3>1. R(t).op = "close" /\ m.session = tx[t].sess /\ Event(t)
      BY <1>1, <1>6, <2>2 DEF DrawerOK, Event, At
    <3>2. m.session \in DOMAIN sess /\ m.session \in DOMAIN tx[t].mine
      BY <1>1, <3>1 DEF DrawerOK, Closing, At
    <3> QED BY <3>2, CommitDrawer
  <2> QED BY <1>2, <1>6, <2>1, <2>2
<1>7. DrawerOK(t)' /\ ~Closing(t)'
  BY <1>2, IdleState DEF DrawerOK, Closing, Event
<1>8. ASSUME NEW u \in Tx \ {t} PROVE DrawerOK(u)'
  <2>1. DrawerOK(u) /\ tx'[u] = tx[u] /\ MineOK(u)
    BY <1>2 DEF CloseInv, CashInv, Own
  <2>2. Event(u) => tx[u].sess \in DOMAIN sess' /\ sess'[tx[u].sess].user = Till(R(u))
    BY <2>1, CommitDrawer DEF DrawerOK
  <2>3. \A q \in DOMAIN tx[u].mine :
          ~tx[u].mine[q].open => sess'[q].user = sess[q].user /\ sess'[q].opening = sess[q].opening
    BY <2>1, CommitDrawer DEF MineOK
  <2> QED BY <1>2, <2>1, <2>2, <2>3 DEF DrawerOK, Event, Closing, At, R
<1>9. ASSUME NEW u \in Tx, Closing(u)', tx'[u].sess \in alone' PROVE ClosingAlone(u)'
  <2>1. u # t
    BY <1>7, <1>9
  <2>2. Closing(u) /\ tx[u].sess \in alone
    BY <1>2, <1>9, <2>1 DEF Closing, Event, R
  <2> QED BY <2>1, <2>2, AloneStays
<1>10. ASSUME NEW s \in alone', ~sess'[s].open PROVE Reconciled(s)' /\ \A u \in Tx : Past(u, s)'
  <2>1. s \in alone /\ s \in DOMAIN sess
    BY <1>2 DEF CloseInv
  <2>2. CASE s \in DOMAIN tx[t].mine
    BY <2>1, <2>2, CloseCommits
  <2>3. CASE s \notin DOMAIN tx[t].mine
    BY <1>10, <2>1, <2>3, CommitDrawer, ReconciledStays
  <2> QED BY <2>2, <2>3
<1> QED BY <1>3, <1>4, <1>5, <1>6, <1>7, <1>8, <1>9, <1>10 DEF CloseInv

\* At the start no session exists.
LEMMA CloseInit == Init => CloseInv
<1> SUFFICES ASSUME Init PROVE CloseInv
  OBVIOUS
<1>1. sess = <<>> /\ moves = {} /\ sold = {} /\ alone = {} /\ clock = 0 /\ \A t \in Tx : tx[t] = Idle
  BY DEF Init
<1>2. DOMAIN sess = {}
  BY <1>1
<1>3. \A t \in Tx : DrawerOK(t) /\ ~Closing(t)
  BY <1>1, IdleState DEF DrawerOK, Closing, Event
<1> QED BY <1>1, <1>2, <1>3 DEF CloseInv

\* A stutter.
LEMMA CloseSame ==
  ASSUME CloseInv, UNCHANGED vars
  PROVE  CloseInv'
<1>1. UNCHANGED <<sess, moves, ledger, sold, allowNeg, clock, alone, tx>>
  BY DEF vars
<1>2. \A s : Available(s)' = Available(s) /\ AdjustmentTotal(s)' = AdjustmentTotal(s) /\ Taken(s)' = Taken(s)
  BY <1>1 DEF Available, CashCollectedSince, AdjustmentTotal, Taken
<1>3. \A t \in Tx : DrawerOK(t)'
  BY <1>1 DEF CloseInv, DrawerOK, Event, Closing, At, R
<1>4. ASSUME NEW t \in Tx, Closing(t)', tx'[t].sess \in alone' PROVE ClosingAlone(t)'
  <2>1. ClosingAlone(t)
    BY <1>1, <1>4 DEF CloseInv, Closing, Event, R
  <2>2. PICK s : s = tx[t].sess
    OBVIOUS
  <2>3. Available(s)' = Available(s)
    BY <1>2
  <2> QED BY <1>1, <2>1, <2>2, <2>3 DEF ClosingAlone, At, R
<1>5. \A s \in alone' : ~sess'[s].open => Reconciled(s)' /\ \A t \in Tx : Past(t, s)'
  BY <1>1, <1>2 DEF CloseInv, Reconciled, Past, Event, R
<1> QED BY <1>1, <1>3, <1>4, <1>5 DEF CloseInv

\* Every step.
LEMMA CloseNext == CashInv /\ CloseInv /\ [Next]_vars => CloseInv'
<1> SUFFICES ASSUME CashInv, CloseInv, [Next]_vars PROVE CloseInv'
  OBVIOUS
<1>1. ASSUME NEW t \in Tx, NEW r \in Request, Begin(t, r) PROVE CloseInv'
  BY <1>1, CloseBegin
<1>2. ASSUME NEW t \in Tx, Look(t) PROVE CloseInv'
  BY <1>2, CloseLook
<1>3. ASSUME NEW t \in Tx, BookOpen(t) PROVE CloseInv'
  BY <1>3, CloseBookOpen
<1>4. ASSUME NEW t \in Tx, BookClose(t) PROVE CloseInv'
  BY <1>4, CloseBookClose
<1>5. ASSUME NEW t \in Tx, BookAdjust(t) PROVE CloseInv'
  BY <1>5, CloseBookAdjust
<1>6. ASSUME NEW t \in Tx, Leg(t) PROVE CloseInv'
  BY <1>6, CloseLeg
<1>7. ASSUME NEW t \in Tx, LockFrom(t) \/ LockTo(t) \/ GuardSource(t) PROVE CloseInv'
  BY <1>7, CloseWalk
<1>8. ASSUME NEW t \in Tx, Legs(t) PROVE CloseInv'
  BY <1>8, CloseLegs
<1>9. ASSUME NEW t \in Tx, Allow(t) PROVE CloseInv'
  BY <1>9, CloseAllow
<1>10. ASSUME NEW t \in Tx, Commit(t) PROVE CloseInv'
  BY <1>10, CloseCommit
<1>11. ASSUME NEW t \in Tx, Cancel(t) PROVE CloseInv'
  BY <1>11, CloseEnd DEF Cancel
<1>12. CASE UNCHANGED vars \/ Closed
  BY <1>12, CloseSame DEF Closed
<1> QED BY <1>1, <1>2, <1>3, <1>4, <1>5, <1>6, <1>7, <1>8, <1>9, <1>10, <1>11, <1>12 DEF Next

\* A close reads its drawer before its transaction begins (cashregister.Close); when
\* nothing else was under way at the drawer until it committed, what it records as
\* expected is the drawer's float, sales and movements, then and ever after, and its
\* closing is the session's only one.
THEOREM ClosesReconcile == Spec => []CloseReconciles
<1>1. CashInv /\ CloseInv => CloseReconciles
  <2> SUFFICES ASSUME CashInv, CloseInv PROVE CloseReconciles
    OBVIOUS
  <2>1. ASSUME NEW m \in moves, NEW n \in moves, m.type = "closing", n.type = "closing",
               m.session = n.session, m.session \in alone
        PROVE  m = n
    BY <2>1 DEF CloseInv, Reconciled
  <2>2. ASSUME NEW s \in alone, ~sess[s].open
        PROVE  sess[s].expected = sess[s].opening + AdjustmentTotal(s)
                 + SumFunctionOnSet(Amount(sold), {x \in sold : x.user = sess[s].user /\ x.at \in s .. sess[s].closedAt})
    BY <2>2 DEF CloseInv, Reconciled, Taken
  <2>3. \A s \in alone : s \in DOMAIN sess
    BY DEF CloseInv
  <2> QED BY <2>1, <2>2, <2>3 DEF CloseReconciles
<1> QED BY CashHolds, CloseInit, CloseNext, <1>1, PTL DEF Spec
=============================================================================
