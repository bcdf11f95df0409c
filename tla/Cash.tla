-------------------------------- MODULE Cash --------------------------------
(***************************************************************************)
(* The shop's cash: drawer sessions (internal/features/cashregister), the   *)
(* lockers and their ledger (lockers), the moves between them (cashflow)    *)
(* and the cash that sales bring in.                                       *)
(*                                                                         *)
(* No balance is stored.  A locker's is the sum of its ledger; a drawer's is*)
(* its opening float, the cashier's cash sales since it was opened, and its *)
(* movements.  A request either adds rows to these tables or is refused.    *)
(*                                                                         *)
(* Two kinds of request move cash.  A MOVE (cashflow.Move) locks the places *)
(* it takes from and checks them under the lock.  A DRAWER EVENT (open,     *)
(* close, withdraw, payin) reads the drawer on the connection pool, before  *)
(* its transaction begins.                                                 *)
(*                                                                         *)
(* Row ids and timestamps: a clock ticks once for each request, and what a  *)
(* request inserts is dated by its tick.                                   *)
(***************************************************************************)
EXTENDS Integers, FiniteSetsExt

CONSTANTS Tx,              \* requests handled at the same time
          Cashier, Locker, \* the places that hold cash
          External,        \* the trading counterparty
          Request,         \* what may be asked; amounts the handlers' checks accept
          Desk,            \* the requests each of Tx may serve
          MaxRequests,     \* bound: how many are served in all
          InitBalance,     \* opening balance of each locker
          InitAllowNeg,    \* the lockers that may go below zero at the start
          UntrackedAllowed \* settings.allow_untracked_cash

VARIABLES sess,      \* cash_register: the sessions, by id
          moves,     \* cash_movements
          ledger,    \* locker_ledger
          sold,      \* the cash that each sale brought in
          allowNeg,  \* the lockers with allow_negative
          clock,     \* requests begun so far
          alone,     \* history: sessions being or been closed with nothing else at the drawer
          tx         \* the requests in progress

vars == <<sess, moves, ledger, sold, allowNeg, clock, alone, tx>>

Time  == 0 .. MaxRequests
Place == Cashier \cup Locker \cup {External}

Ops == {"open", "close", "withdraw", "payin", "move", "sale", "allow"}

ASSUME CashAssumption ==
    /\ MaxRequests \in Nat
    /\ Cashier \cap Locker = {} /\ External \notin Cashier \cup Locker /\ IsFiniteSet(Locker)
    /\ Request \subseteq [op : Ops, from : Place, to : Place, amount : Nat, neg : BOOLEAN]
    /\ \A r \in Request :
          /\ r.op = "move" => r.from # r.to /\ r.amount > 0
          /\ r.op \in {"open", "payin", "sale"} => r.to \in Cashier /\ r.from \notin Cashier
          /\ r.op \in {"close", "withdraw"} => r.from \in Cashier /\ r.to \notin Cashier
          /\ r.op = "allow" => r.to \in Locker
    /\ Desk \in [Tx -> SUBSET Request]
    /\ InitBalance \in [Locker -> Int] /\ InitAllowNeg \subseteq Locker
    /\ UntrackedAllowed \in BOOLEAN

Session  == [user : Cashier, opening : Nat, open : BOOLEAN, expected : Int, closedAt : Time]
Movement == [session : Time, type : {"opening", "closing", "adjust"}, amount : Int, at : Time]
Entry    == [locker : Locker, delta : Int, at : Time]
CashSale == [user : Cashier, amount : Nat, at : Time]

-----------------------------------------------------------------------------
(***************************************************************************)
(* Balances.                                                               *)
(***************************************************************************)
Amount(S) == [x \in S |-> x.amount]

Balance(k) == SumFunctionOnSet([e \in ledger |-> e.delta], {e \in ledger : e.locker = k})

\* Mutant: the sales of earlier sessions too.
CashEver(u, a) == SumFunctionOnSet(Amount(sold), {x \in sold : x.user = u})

CashCollectedSince(u, a) == SumFunctionOnSet(Amount(sold), {x \in sold : x.user = u /\ x.at >= a})

AdjustmentTotal(s) == SumFunctionOnSet(Amount(moves), {m \in moves : m.session = s /\ m.type = "adjust"})

Available(s) == sess[s].opening + CashCollectedSince(sess[s].user, s) + AdjustmentTotal(s)

\* Mutant: closed_at IS NULL is lost.
FindAny(u) == {s \in DOMAIN sess : sess[s].user = u}

FindOpen(u) == {s \in DOMAIN sess : sess[s].user = u /\ sess[s].open}

-----------------------------------------------------------------------------
(***************************************************************************)
(* A request in progress: its next step, its date, the session it found and *)
(* the expected cash it computed there, the row locks its transaction holds *)
(* and the rows it has written but not committed.                          *)
(***************************************************************************)
Idle == [pc |-> "idle", req |-> CHOOSE r \in Request : TRUE, at |-> 0, sess |-> 0,
         expected |-> 0, locks |-> {}, mine |-> <<>>, moves |-> {}, ledger |-> {}, sold |-> {}]

At(t, s) == tx[t].pc = s
R(t)     == tx[t].req

\* The till of a drawer event, and the place on its other side.
Till(r)    == IF r.to \in Cashier THEN r.to ELSE r.from
Counter(r) == IF r.to \in Cashier THEN r.from ELSE r.to
CashIn(r)  == r.to \in Cashier

\* PostgreSQL's row locks: a foreign key locks the row it names, FOR KEY SHARE;
\* an UPDATE that leaves the key alone locks its row FOR NO KEY UPDATE.
Mode == {"key", "nokey", "update"}

Conflict(m, n) == {m, n} \notin {{"key"}, {"key", "nokey"}}

Free(t, row, m) == \A u \in Tx \ {t} : \A n \in Mode : <<row, n>> \in tx[u].locks => ~Conflict(m, n)

\* The step a request begins with.
Start(r) == CASE r.op = "open"                            -> "book"
              [] r.op \in {"close", "withdraw", "payin"}  -> "look"
              [] r.op = "move"                            -> "from"
              [] r.op = "sale"                            -> "commit"
              [] r.op = "allow"                           -> "allow"

-----------------------------------------------------------------------------
Init == /\ sess = <<>> /\ moves = {} /\ sold = {}
        /\ ledger = {[locker |-> k, delta |-> InitBalance[k], at |-> 0] : k \in Locker}
        /\ allowNeg = InitAllowNeg
        /\ clock = 0 /\ alone = {}
        /\ tx = [t \in Tx |-> Idle]

Concerns(r, u) == u \in {r.from, r.to}

\* A sale's rows carry the time its transaction began.
Begin(t, r) ==
    /\ At(t, "idle") /\ r \in Desk[t]
    /\ clock < MaxRequests
    /\ clock' = clock + 1
    /\ tx' = [tx EXCEPT ![t] =
                [Idle EXCEPT !.pc = Start(r), !.req = r, !.at = clock',
                             !.sold = IF r.op = "sale"
                                        THEN {[user |-> r.to, amount |-> r.amount, at |-> clock']}
                                        ELSE {}]]
    /\ alone' = alone \ {tx[u].sess : u \in {x \in Tx : ~At(x, "idle") /\ R(x).op = "close" /\ Concerns(r, R(x).from)}}
    /\ UNCHANGED <<sess, moves, ledger, sold, allowNeg>>

Stored == UNCHANGED <<sess, moves, ledger, sold, allowNeg, clock, alone>>

\* Refused, cancelled, disconnected, or the victim of a deadlock.
End(t) == tx' = [tx EXCEPT ![t] = Idle] /\ Stored

Cancel(t) == ~At(t, "idle") /\ End(t)

Commit(t) ==
    /\ At(t, "commit")
    /\ sess'   = [s \in DOMAIN tx[t].mine \cup DOMAIN sess |->
                   IF s \in DOMAIN tx[t].mine THEN tx[t].mine[s] ELSE sess[s]]
    /\ moves'  = moves \cup tx[t].moves
    /\ ledger' = ledger \cup tx[t].ledger
    /\ sold'   = sold \cup tx[t].sold
    /\ tx'     = [tx EXCEPT ![t] = Idle]
    /\ UNCHANGED <<allowNeg, clock, alone>>

-----------------------------------------------------------------------------
(***************************************************************************)
(* Drawer events.                                                          *)
(***************************************************************************)
Policy(r) == UntrackedAllowed \/ CashIn(r) \/ Counter(r) # External
             \/ (r.op = "close" /\ r.amount = 0)

\* Mutant: what was already taken out is not deducted.
WithinTakings(r, s) == r.op = "withdraw" => r.amount <= sess[s].opening + CashCollectedSince(sess[s].user, s)

\* A withdrawal has to be covered by the cash in the drawer.
WithinDrawer(r, s) == r.op = "withdraw" => r.amount <= Available(s)

\* Before the transaction: the open session, and the cash expected in it.
Look(t) ==
    /\ At(t, "look")
    /\ LET r == R(t) IN
       \/ /\ Policy(r)
          /\ \E s \in FindOpen(Till(r)) :
               /\ WithinDrawer(r, s)
               /\ tx' = [tx EXCEPT ![t].pc = "book", ![t].sess = s, ![t].expected = Available(s)]
               /\ alone' = IF r.op = "close" /\ \A u \in Tx \ {t} : At(u, "idle") \/ ~Concerns(R(u), r.from)
                             THEN alone \cup {s} ELSE alone \ {s}
          /\ UNCHANGED <<sess, moves, ledger, sold, allowNeg, clock>>
       \/ /\ \/ ~Policy(r)
             \/ \A s \in FindOpen(Till(r)) : ~WithinDrawer(r, s)
          /\ End(t)

Moved(t, s, type, n) == [session |-> s, type |-> type, amount |-> n, at |-> tx[t].at]

\* A drawer event without a locker only writes its receipt.
AfterBook(r) == IF Counter(r) \in Locker /\ r.amount > 0 THEN "leg" ELSE "commit"

\* One open session per cashier: the unique index makes a second INSERT wait for
\* whoever inserted or closed one, and then refuses it if one is open.
BookOpen(t) ==
    /\ At(t, "book") /\ R(t).op = "open"
    /\ LET r == R(t) IN
       /\ \A u \in Tx \ {t} : \A s \in DOMAIN tx[u].mine : tx[u].mine[s].user # r.to
       /\ IF FindOpen(r.to) # {} THEN End(t)
          ELSE /\ tx' = [tx EXCEPT
                    ![t].pc    = AfterBook(r),
                    ![t].mine  = [s \in {tx[t].at} |->
                                    [user |-> r.to, opening |-> r.amount, open |-> TRUE, expected |-> 0, closedAt |-> 0]],
                    ![t].moves = {Moved(t, tx[t].at, "opening", r.amount)}]
               /\ Stored

\* UPDATE cash_register .. WHERE id = $5, whatever became of the session since.
BookClose(t) ==
    /\ At(t, "book") /\ R(t).op = "close"
    /\ LET r == R(t)
           s == tx[t].sess
       IN /\ Free(t, s, "nokey")
          /\ tx' = [tx EXCEPT
               ![t].pc    = AfterBook(r),
               ![t].locks = {<<s, "nokey">>},
               ![t].mine  = [q \in {s} |-> [sess[s] EXCEPT !.open = FALSE, !.expected = tx[t].expected,
                                                           !.closedAt = clock]],
               ![t].moves = {Moved(t, s, "closing", r.amount)}]
    /\ Stored

\* The movement of a withdrawal or a pay-in.
BookAdjust(t) ==
    /\ At(t, "book") /\ R(t).op \in {"withdraw", "payin"}
    /\ LET r == R(t)
           s == tx[t].sess
       IN /\ Free(t, s, "key")
          /\ tx' = [tx EXCEPT
               ![t].pc    = AfterBook(r),
               ![t].locks = {<<s, "key">>},
               ![t].moves = {Moved(t, s, "adjust", IF CashIn(r) THEN r.amount ELSE -r.amount)}]
    /\ Stored

\* Mutant: a plain SELECT.
GetUnlocked(t, k) == TRUE

\* The locker's row is free to be locked.
GetForUpdate(t, k) == Free(t, k, "update")

\* Does taking n from locker k keep to its guard?  Read under its lock.
Covered(k, n) == k \in allowNeg \/ n <= Balance(k)

Entered(t, k, n) == [locker |-> k, delta |-> n, at |-> tx[t].at]

\* TillLockerLeg: GetForUpdate, the guard, and the locker's side of the event.
Leg(t) ==
    /\ At(t, "leg")
    /\ LET r == R(t)
           k == Counter(r)
       IN /\ GetForUpdate(t, k)
          /\ IF CashIn(r) /\ ~Covered(k, r.amount) THEN End(t)
             ELSE /\ tx' = [tx EXCEPT
                       ![t].pc     = "commit",
                       ![t].locks  = @ \cup {<<k, "update">>},
                       ![t].ledger = {Entered(t, k, IF CashIn(r) THEN -r.amount ELSE r.amount)}]
                  /\ Stored

-----------------------------------------------------------------------------
(***************************************************************************)
(* Moves (MoveTx).                                                         *)
(***************************************************************************)
\* Mutant: the session is found but not locked.
FindTill(t, place, next) ==
    IF place \in Cashier /\ FindOpen(place) = {} THEN End(t)
    ELSE tx' = [tx EXCEPT ![t].pc = next] /\ Stored

\* FindOpenForUpdate of one end; nothing to do for a locker or External.
LockTill(t, place, next) ==
    IF place \notin Cashier
      THEN tx' = [tx EXCEPT ![t].pc = next] /\ Stored
      ELSE \/ \E s \in FindOpen(place) :
                /\ Free(t, s, "update")
                /\ tx' = [tx EXCEPT ![t].pc = next, ![t].locks = @ \cup {<<s, "update">>}]
                /\ Stored
           \/ FindOpen(place) = {} /\ End(t)

LockFrom(t) == At(t, "from") /\ LockTill(t, R(t).from, "to")
LockTo(t)   == At(t, "to") /\ LockTill(t, R(t).to, "guard")

\* guardSource.
GuardSource(t) ==
    /\ At(t, "guard")
    /\ LET r == R(t)
           pass(locks) == /\ tx' = [tx EXCEPT ![t].pc = "legs", ![t].locks = @ \cup locks]
                          /\ Stored
       IN \/ r.from = External /\ pass({})
          \/ /\ r.from \in Cashier
             /\ \E s \in FindOpen(r.from) : IF r.amount > Available(s) THEN End(t) ELSE pass({})
          \/ /\ r.from \in Locker
             /\ GetForUpdate(t, r.from)
             /\ IF Covered(r.from, r.amount) THEN pass({<<r.from, "update">>}) ELSE End(t)

\* Mutant: the till's leg falls through to the locker's.
AllSides(S) == S

LockerSides(S) == {d \in S : d.place \in Locker}

\* writeLeg, twice: a movement for a till, a ledger row for a locker.
Legs(t) ==
    /\ At(t, "legs")
    /\ LET r    == R(t)
           side == {[place |-> r.from, n |-> -r.amount], [place |-> r.to, n |-> r.amount]}
       IN /\ r.to \in Locker => Free(t, r.to, "key")
          /\ tx' = [tx EXCEPT
               ![t].pc     = "commit",
               ![t].locks  = @ \cup (IF r.to \in Locker THEN {<<r.to, "key">>} ELSE {}),
               ![t].moves  = UNION {{Moved(t, s, "adjust", d.n) : s \in FindOpen(d.place)} : d \in side},
               ![t].ledger = {Entered(t, d.place, d.n) : d \in LockerSides(side)}]
    /\ Stored

\* lockers.Update, one statement.
Allow(t) ==
    /\ At(t, "allow")
    /\ Free(t, R(t).to, "nokey")
    /\ allowNeg' = IF R(t).neg THEN allowNeg \cup {R(t).to} ELSE allowNeg \ {R(t).to}
    /\ tx' = [tx EXCEPT ![t] = Idle]
    /\ UNCHANGED <<sess, moves, ledger, sold, clock, alone>>

-----------------------------------------------------------------------------
Closed == clock = MaxRequests /\ (\A t \in Tx : At(t, "idle")) /\ UNCHANGED vars

Next == \/ \E t \in Tx : \/ \E r \in Request : Begin(t, r)
                         \/ Look(t) \/ BookOpen(t) \/ BookClose(t) \/ BookAdjust(t) \/ Leg(t)
                         \/ LockFrom(t) \/ LockTo(t) \/ GuardSource(t) \/ Legs(t)
                         \/ Allow(t) \/ Commit(t) \/ Cancel(t)
        \/ Closed

Spec == Init /\ [][Next]_vars

-----------------------------------------------------------------------------
(***************************************************************************)
(* Properties.                                                             *)
(***************************************************************************)
\* Types of the tables.
TypeOK == /\ DOMAIN sess \subseteq Time /\ \A s \in DOMAIN sess : sess[s] \in Session
          /\ moves \subseteq Movement /\ ledger \subseteq Entry /\ sold \subseteq CashSale
          /\ allowNeg \subseteq Locker
          /\ clock \in Time
          /\ \A t \in Tx : (~At(t, "idle") => R(t) \in Request) /\ tx[t].locks \subseteq (Time \cup Locker) \X Mode

\* "The lock serialises concurrent debits so two can't both pass the overdraw
\* guard" (GetForUpdate): a locker that may not go negative is never drawn below
\* zero, whoever draws on it and whenever its flag is changed.
LockersCovered ==
    [][\A k \in Locker : Balance(k)' < Balance(k) => k \in allowNeg \/ Balance(k)' >= 0]_vars

\* "A withdrawal can never exceed the cash currently in the drawer": fails (CashOverdraw.cfg).
DrawersCovered == \A s \in DOMAIN sess : sess[s].open => Available(s) >= 0

MoveCommits(t) == At(t, "commit") /\ ~At(t, "commit")' /\ R(t).op = "move"

\* Whatever cash leaves by a move was there: the move leaves no drawer below zero,
\* whatever is withdrawn beside it, and no locker that may not be overdrawn.
SourcesCovered ==
    /\ LockersCovered
    /\ [][\A t \in Tx : MoveCommits(t) /\ R(t).from \in Cashier /\ moves' # moves
                        => \A s \in FindOpen(R(t).from) : Available(s)' >= 0]_vars

\* A move lands in a drawer only while its session is open.
MovesLandOpen == [][\A t \in Tx, m \in moves' \ moves : MoveCommits(t) => sess'[m.session].open]_vars

\* A session is closed, and its counted cash banked, once: fails.
ClosedOnce == \A m, n \in moves : m.type = "closing" /\ n.type = "closing" /\ m.session = n.session => m = n

\* The close reconciles: what a session closed with nothing else under way at its drawer
\* records as expected is its float, the cash sales begun while it was open and all
\* its movements; and it has one closing.
CloseReconciles ==
    /\ \A m, n \in moves : m.type = "closing" /\ n.type = "closing" /\ m.session = n.session
                             /\ m.session \in alone => m = n
    /\ \A s \in alone : s \in DOMAIN sess /\ ~sess[s].open =>
         sess[s].expected = sess[s].opening + AdjustmentTotal(s)
            + SumFunctionOnSet(Amount(sold), {x \in sold : x.user = sess[s].user /\ x.at \in s .. sess[s].closedAt})
=============================================================================
