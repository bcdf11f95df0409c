---------------------------- MODULE CreditProofs ----------------------------
(***************************************************************************)
(* That a customer's balance is what the documents say, for every bill,      *)
(* every request and any number of terminals: the gross opening debt, what    *)
(* sales put on account, what returns took off, and the repayments.         *)
(*                                                                         *)
(* The balance is moved by deltas and the documents are inserted later in    *)
(* the same transaction, so the invariant says of every transaction what it  *)
(* has moved on a customer's row and not yet recorded (Moved).  One delta is  *)
(* not what is recorded: a repayment of the opening debt is cut down to the  *)
(* debt that is left when it is applied, and that debt was read without a     *)
(* lock.  So the balance is never below its documents, and equal to them     *)
(* where no other terminal touches a customer whose old debt is being paid.  *)
(***************************************************************************)
EXTENDS Credit, SequenceTheorems, WellFoundedInduction, SumLaws

-----------------------------------------------------------------------------
(***************************************************************************)
(* The invariant.                                                          *)
(***************************************************************************)
Steps == {"idle", "goods", "tender", "charge", "insert", "status", "items", "find", "take", "restock", "mark",
          "credit", "outstanding", "close", "load", "old", "settle", "cash", "adjust", "limit", "edit",
          "disable", "restore", "match", "rewrite", "register", "commit"}

Serving == [pc : Steps, req : Request \cup {Idle.req}, at : Nat, todo : Seq(Left), value : Nat,
            before : Int, old : Nat, match : Customer \cup {NoCustomer}, status : Status]

Returned == [id : Nat, sale : Sale, credit : Nat, slip : BOOLEAN, refund : Int]
Paid     == [id : Nat, cust : Customer, amount : Nat, before : Int, move : SUBSET [to : Place, amount : Nat]]

RowsType(f) == /\ f = [r \in Row |-> f[r]]
               /\ \A c \in Customer : f[c] \in Account
               /\ \A s \in Sale : f[s] \in Status
               /\ \A i \in Item : f[i] \in Nat
               /\ \A p \in Product : f[p] \in Int

Types == /\ RowsType(com) /\ RowsType(cur) /\ lock \in [Row -> Tx \cup {NoTx}]
         /\ returned \subseteq Returned /\ IsFiniteSet(returned)
         /\ paid \subseteq Paid /\ IsFiniteSet(paid)
         /\ tx \in [Tx -> Serving] /\ served \in 0 .. MaxRequests

\* A balance without the gross opening debt.
Net(a) == a.out - a.gross

\* A row nobody holds is committed; a sale or a customer is not unmade; and a
\* customer yet to be made owes the opening debt.
RowsOK == /\ \A r \in Row : lock[r] = NoTx => cur[r] = com[r]
          /\ \A s \in Sale : com[s] # "none" => cur[s] # "none"
          /\ \A c \in Customer : /\ Known(c) => cur[c].state # "none"
                                 /\ \A a \in {com[c], cur[c]} : a.state = "none" => Net(a) = 0

\* Every document is about a sale and a customer there are.
RecordsOK ==
  /\ \A x \in returned : x.id <= served /\ com[x.sale] # "none"
  /\ \A x \in paid : x.id <= served /\ Known(x.cust)
  /\ \A s \in Sold : Bill[s].cust # NoCustomer => Known(Bill[s].cust)

\* The requests in progress, and the documents, have numbers of their own.
Numbered(t) ==
  /\ tx[t].at <= served
  /\ ~At(t, "idle") => /\ 0 < tx[t].at /\ \A u \in Tx \ {t} : tx[u].at # tx[t].at
                       /\ \A x \in returned \cup paid : x.id # tx[t].at

Returns == {"return", "partial"}

\* The customer whose money a request moves.
Concerns(r, c) ==
  \/ r.op \in {"sale"} \cup Returns /\ Bill[r.sale].cust = c
  \/ r.op \in Repayments \cup {"adjust"} /\ r.cust = c

\* While an old debt may be repaid first at one terminal, no other moves that
\* customer's money.
OldsApart ==
  \A t, u \in Tx, c \in Customer : \A r \in Desk[t], q \in Desk[u] :
     r.op \in Repayments /\ r.old /\ r.cust = c /\ Concerns(q, c) => t = u

\* Which requests may be at each step, and what they have noted by then.
Shape(t) ==
  LET o == R(t).op
  IN /\ At(t, "idle") \/ R(t) \in Desk[t]
     /\ tx[t].pc \in {"goods", "tender", "charge", "insert"} => o = "sale"
     /\ tx[t].pc \in {"items", "mark"} => o = "return"
     /\ tx[t].pc \in {"find", "take", "outstanding"} => o = "partial"
     /\ tx[t].pc \in {"status", "restock", "credit", "close"} => o \in Returns
     /\ tx[t].pc \in {"load", "old", "settle", "cash"} => o \in Repayments
     /\ At(t, "adjust") => o = "adjust"
     /\ At(t, "limit") => o = "limit"
     /\ At(t, "edit") => o = "edit"
     /\ At(t, "disable") => o = "disable"
     /\ At(t, "restore") => o = "restore"
     /\ tx[t].pc \in {"match", "register"} => o \in {"create", "import"}
     /\ o = "create" => R(t).phone # NoPhone
     /\ At(t, "rewrite") => o = "import" /\ tx[t].match # NoCustomer
     /\ At(t, "commit") => o \in {"sale", "create", "import"} \cup Returns \cup Repayments
     /\ tx[t].pc \in {"goods", "find", "take", "restock", "mark"} => tx[t].todo # <<>>
     /\ o = "partial" => tx[t].todo \in Seq(Part) /\ (At(t, "status") => tx[t].todo # <<>>)
     /\ At(t, "charge") => B(t).cust # NoCustomer
     /\ tx[t].pc \in {"insert", "commit"} /\ o = "sale" /\ B(t).cust = NoCustomer => OnAccount(B(t)) = 0
     /\ At(t, "close") => tx[t].status # "none"
     /\ At(t, "settle") => tx[t].old <= R(t).amount

\* What a request has found and nobody takes from it: its customer, and its sale,
\* which is not rung up yet or cannot be unmade.
Found(t) ==
  LET o == R(t).op
  IN ~At(t, "idle") =>
     /\ o = "sale" => /\ com[R(t).sale] = "none" /\ \A u \in Tx \ {t} : R(u) # R(t)
                      /\ B(t).cust # NoCustomer => Known(B(t).cust)
     /\ o \in Returns /\ ~At(t, "status") => com[R(t).sale] # "none"
     /\ o \in Repayments => Known(R(t).cust)

\* What t's transaction has moved on the balance of c, and no document says yet.
Moved(t, c) ==
  LET o == R(t).op
  IN IF tx[t].pc \in {"insert", "commit"} /\ o = "sale" /\ B(t).cust = c THEN OnAccount(B(t))
     ELSE IF tx[t].pc \in {"outstanding", "close", "commit"} /\ o \in Returns /\ B(t).cust = c
       THEN 0 - CreditReduction(t)
     ELSE IF At(t, "settle") /\ R(t).cust = c THEN 0 - tx[t].old
     ELSE IF tx[t].pc \in {"cash", "commit"} /\ o \in Repayments /\ R(t).cust = c THEN 0 - R(t).amount
     ELSE 0

\* What a balance is beside what explains it: never less, and no more either where
\* old debts are repaid apart.
Told(a, b) == a >= b /\ (OldsApart => a = b)

Holds(t, c) ==
  /\ Moved(t, c) # 0 => lock[c] = t
  /\ lock[c] = t => Told(Net(cur[c]), Net(com[c]) + Moved(t, c))
  /\ lock[c] = t /\ Known(c) /\ ~Concerns(R(t), c) => cur[c].opening = com[c].opening

\* The part meant for the opening debt is still there to be paid.
OldKept(t) == At(t, "old") =>
  /\ tx[t].old <= R(t).amount
  /\ OldsApart => tx[t].old <= cur[R(t).cust].opening /\ R(t).old

\* A sale is written by the request that rings it up.
SaleHeld(t) ==
  /\ \A s \in Sale : lock[s] = t /\ com[s] = "none" => R(t).op = "sale" /\ R(t).sale = s
  /\ At(t, "commit") /\ R(t).op = "sale" => lock[R(t).sale] = t /\ cur[R(t).sale] # "none"

\* A session that serves nobody holds nothing, nor does one that writes one row at once.
Single == {"adjust", "limit", "edit", "disable", "restore", "match"}
Bare(t) == tx[t].pc \in {"idle"} \cup Single => \A r \in Row : lock[r] # t

Own(t) == /\ Numbered(t) /\ Shape(t) /\ Found(t) /\ OldKept(t) /\ SaleHeld(t) /\ Bare(t)
          /\ \A c \in Customer : Holds(t, c)

\* What the documents say of c beside the gross opening debt.
Due(s)    == OnAccount(Bill[s]) - Credited(s)
Behind(c) == SumFunctionOnSet([s \in Sale |-> Due(s)], SalesTo(c)) - Payments(c)

Booked == \A c \in Customer : Told(Net(com[c]), Behind(c))

CreditInv == Types /\ RowsOK /\ RecordsOK /\ (\A t \in Tx : Own(t)) /\ Booked

-----------------------------------------------------------------------------
(***************************************************************************)
(* Facts about the constants and the types.                                *)
(***************************************************************************)
\* The tables are apart.
LEMMA RowFacts ==
  /\ Customer \subseteq Row /\ Sale \subseteq Row /\ Item \subseteq Row /\ Product \subseteq Row
  /\ Customer \cap Sale = {} /\ Customer \cap Item = {} /\ Customer \cap Product = {}
  /\ Sale \cap Item = {} /\ Sale \cap Product = {} /\ Item \cap Product = {}
  /\ NoTx \notin Tx /\ NoCustomer \notin Customer /\ NoPhone \notin Phone
<1>1. /\ Customer \subseteq Row /\ Sale \subseteq Row /\ Item \subseteq Row /\ Product \subseteq Row
  BY DEF Row
<1>2. Customer \cap (Sale \cup Item \cup Product) = {} /\ Sale \cap (Item \cup Product) = {} /\ Item \cap Product = {}
  BY CreditAssumption
<1> QED BY <1>1, <1>2, CreditAssumption

\* What a request names.
LEMMA ReqFacts ==
  ASSUME NEW r \in Request
  PROVE  /\ r.op \in {"sale"} \cup Returns => r.sale \in Sale
         /\ r.op = "sale" => r = [op |-> "sale", sale |-> r.sale]
         /\ r.op = "partial" => r.parts \in Seq(Part) /\ r.parts # <<>>
         /\ r.op \in Repayments => /\ r.cust \in Customer /\ r.amount \in Nat \ {0} /\ r.to \in Place
                                   /\ r.old \in BOOLEAN /\ r.cash \in BOOLEAN
         /\ r.op = "adjust" => r.cust \in Customer /\ r.amount \in Int
         /\ r.op = "limit" => r.cust \in Customer /\ r.amount \in Nat
         /\ r.op = "edit" => r.cust \in Customer /\ r.amount \in Nat /\ r.phone \in Phone \cup {NoPhone}
         /\ r.op \in {"create", "import"} => /\ r.phone \in Phone \cup {NoPhone} /\ r.amount \in Nat
                                             /\ r.opening \in Nat
         /\ r.op \in {"disable", "restore"} => r.cust \in Customer
         /\ r.op # "none"
<1>1. \/ r \in [op : {"sale", "return"}, sale : Sale]
      \/ r \in [op : {"partial"}, sale : Sale, parts : Seq(Part) \ {<<>>}]
      \/ r \in [op : {"till", "office", "api"}, cust : Customer, amount : Nat \ {0},
                old : BOOLEAN, cash : BOOLEAN, to : Place]
      \/ r \in [op : {"adjust"}, cust : Customer, amount : Int]
      \/ r \in [op : {"limit"}, cust : Customer, amount : Nat]
      \/ r \in [op : {"edit"}, cust : Customer, amount : Nat, phone : Phone \cup {NoPhone}]
      \/ r \in [op : {"create", "import"}, phone : Phone \cup {NoPhone}, amount : Nat, opening : Nat]
      \/ r \in [op : {"disable", "restore"}, cust : Customer]
  BY CreditAssumption
<1>2. CASE r \in [op : {"sale", "return"}, sale : Sale]
  BY <1>2 DEF Returns, Repayments
<1>3. CASE r \in [op : {"partial"}, sale : Sale, parts : Seq(Part) \ {<<>>}]
  BY <1>3 DEF Returns, Repayments
<1>4. CASE r \in [op : {"till", "office", "api"}, cust : Customer, amount : Nat \ {0},
                  old : BOOLEAN, cash : BOOLEAN, to : Place]
  BY <1>4 DEF Returns, Repayments
<1>5. CASE r \in [op : {"adjust"}, cust : Customer, amount : Int]
  BY <1>5 DEF Returns, Repayments
<1>6. CASE r \in [op : {"limit"}, cust : Customer, amount : Nat]
  BY <1>6 DEF Returns, Repayments
<1>7. CASE r \in [op : {"edit"}, cust : Customer, amount : Nat, phone : Phone \cup {NoPhone}]
  BY <1>7 DEF Returns, Repayments
<1>8. CASE r \in [op : {"create", "import"}, phone : Phone \cup {NoPhone}, amount : Nat, opening : Nat]
  BY <1>8 DEF Returns, Repayments
<1>9. CASE r \in [op : {"disable", "restore"}, cust : Customer]
  BY <1>9 DEF Returns, Repayments
<1> QED BY <1>1, <1>2, <1>3, <1>4, <1>5, <1>6, <1>7, <1>8, <1>9

\* A session that serves nobody is in one of the states a session may be in.
LEMMA IdleState == Idle \in Serving /\ Idle.pc = "idle" /\ Idle.req.op = "none"
<1>1. <<>> \in Seq(Left)
  OBVIOUS
<1> QED BY <1>1 DEF Idle, Serving, Steps, Status

\* The types of a session's notes.
LEMMA TxFacts ==
  ASSUME Types, NEW t \in Tx
  PROVE  /\ tx[t] \in Serving /\ tx[t].pc \in Steps /\ tx[t].at \in Nat /\ tx[t].todo \in Seq(Left)
         /\ tx[t].value \in Nat /\ tx[t].before \in Int /\ tx[t].old \in Nat
         /\ tx[t].match \in Customer \cup {NoCustomer} /\ tx[t].status \in Status
         /\ tx[t].req \in Request \cup {Idle.req}
<1>1. tx[t] \in Serving
  BY DEF Types
<1> QED BY <1>1 DEF Serving

\* A session in progress serves one of the requests of its desk.
LEMMA Served ==
  ASSUME CreditInv, NEW t \in Tx, tx[t].pc # "idle"
  PROVE  R(t) \in Request /\ R(t) \in Desk[t]
<1>1. Shape(t) /\ Desk[t] \in SUBSET Request
  BY CreditAssumption DEF CreditInv, Own
<1> QED BY <1>1 DEF Shape, At

\* The amounts of a bill.
LEMMA BillFacts ==
  ASSUME NEW s \in Sale
  PROVE  /\ Bill[s].cust \in Customer \cup {NoCustomer} /\ Bill[s].lines \in Seq(Item) /\ Bill[s].lines # <<>>
         /\ Bill[s].total \in Nat /\ Bill[s].paid \in Nat /\ Bill[s].account \in Nat /\ Bill[s].given \in Nat
         /\ Owed(s) \in Int /\ Kept(Bill[s]) \in Nat /\ OnAccount(Bill[s]) \in Int
         /\ Kept(Bill[s]) > 0 => Bill[s].cust # NoCustomer
<1>1. Bill[s] \in Tender
  BY CreditAssumption
<1>2. PICK b \in Tender : b = Bill[s]
  BY <1>1
<1>3. /\ b.cust \in Customer \cup {NoCustomer} /\ b.lines \in Seq(Item) /\ b.lines # <<>>
      /\ b.total \in Nat /\ b.paid \in Nat /\ b.account \in Nat /\ b.given \in Nat
  BY DEF Tender
<1>4. b.paid - b.total \in Int /\ Owed(s) \in Int
  <2>1. PICK m \in Nat : m = b.total
    BY <1>3
  <2>2. PICK n \in Nat : n = b.paid
    BY <1>3
  <2>3. n - m \in Int /\ m - n \in Int
    OBVIOUS
  <2> QED BY <1>2, <2>1, <2>2, <2>3 DEF Owed
<1>5. Kept(b) \in Nat /\ (Kept(b) > 0 => b.cust # NoCustomer)
  BY <1>3, <1>4 DEF Kept, Larger
<1>6. OnAccount(b) \in Int
  BY <1>3, <1>5 DEF OnAccount
<1> QED BY <1>2, <1>3, <1>4, <1>5, <1>6

\* The lines of a bill.
LEMMA LineFacts ==
  ASSUME NEW i \in Item
  PROVE  /\ LineOf[i].product \in Product /\ LineOf[i].qty \in Nat \ {0} /\ LineOf[i].net \in Nat
         /\ \A n \in Nat : LineRefund(i, n) \in Nat
<1>1. LineOf[i] \in [product : Product, qty : Nat \ {0}, net : Nat]
  BY CreditAssumption
<1>2. LineOf[i].product \in Product /\ LineOf[i].qty \in Nat \ {0} /\ LineOf[i].net \in Nat
  BY <1>1
<1>3. \A a \in Nat, b \in Nat \ {0} : a \div b \in Nat
  OBVIOUS
<1>4. PICK q \in Nat \ {0} : q = LineOf[i].qty
  BY <1>2
<1>5. PICK m \in Nat : m = LineOf[i].net
  BY <1>2
<1>6. 2 * m + q \in Nat /\ 2 * q \in Nat \ {0}
  OBVIOUS
<1>7. PICK u \in Nat : u = (2 * m + q) \div (2 * q)
  BY <1>3, <1>6
<1>8. \A n \in Nat : n * u \in Nat
  OBVIOUS
<1>9. \A n \in Nat : LineRefund(i, n) = n * u
  BY <1>4, <1>5, <1>7 DEF LineRefund
<1> QED BY <1>2, <1>8, <1>9

\* A set of customers has a first one.
LEMMA FirstCustomer ==
  ASSUME NEW S \in SUBSET Customer, S # {}
  PROVE  Min(S) \in S
<1>1. S \subseteq Nat
  BY CreditAssumption
<1>2. PICK m \in S : \A k \in S : ~(<<k, m>> \in OpToRel(<, Nat))
  BY <1>1, WFMin, NatLessThanWellFounded
<1>3. \A k \in S : ~(k < m)
  BY <1>1, <1>2 DEF OpToRel
<1>4. \A k \in S : m <= k
  BY <1>1, <1>3
<1> QED BY <1>4 DEF Min

-----------------------------------------------------------------------------
(***************************************************************************)
(* What the handlers do to a customer's columns.                           *)
(***************************************************************************)
\* The columns.
LEMMA AccountFacts ==
  ASSUME NEW a \in Account
  PROVE  /\ a.out \in Int /\ a.opening \in Int /\ a.gross \in Int /\ a.limit \in Nat
         /\ a.phone \in Phone \cup {NoPhone} /\ a.state \in State /\ Net(a) \in Int
BY DEF Account, Net

\* A delta moves the balance by just that.
LEMMA AddBalanceFacts ==
  ASSUME NEW a \in Account, NEW d \in Int
  PROVE  /\ AddBalance(a, d) \in Account /\ Net(AddBalance(a, d)) = Net(a) + d
         /\ AddBalance(a, d).state = a.state
<1>1. PICK x : x = AddBalance(a, d)
  OBVIOUS
<1>2. PICK out \in Int : out = a.out
  BY AccountFacts
<1>3. PICK m \in Int : m = Smaller(a.opening, Larger(a.out + d, 0))
  BY <1>2, AccountFacts DEF Smaller, Larger
<1>4. PICK k \in Int : k = out + d
  OBVIOUS
<1>5. x = [a EXCEPT !.out = k, !.opening = m]
  BY <1>1, <1>2, <1>3, <1>4 DEF AddBalance
<1>6. x \in Account /\ x.out = k /\ x.gross = a.gross /\ x.state = a.state
  BY <1>5 DEF Account
<1>7. PICK g \in Int : g = a.gross
  BY AccountFacts
<1> QED BY <1>1, <1>2, <1>4, <1>6, <1>7 DEF Net

\* A repayment of the opening debt takes at most what it is meant to, and just that
\* where the debt is there.
LEMMA PayOpeningFacts ==
  ASSUME NEW a \in Account, NEW n \in Nat
  PROVE  /\ PayOpening(a, n) \in Account /\ PayOpening(a, n).state = a.state
         /\ Net(PayOpening(a, n)) >= Net(a) - n
         /\ n <= a.opening => Net(PayOpening(a, n)) = Net(a) - n
<1>1. PICK x : x = PayOpening(a, n)
  OBVIOUS
<1>2. PICK o \in Int : o = a.opening
  BY AccountFacts
<1>3. PICK m \in Int : m = Larger(Smaller(n, a.opening), 0)
  BY <1>2 DEF Smaller, Larger
<1>4. m <= n /\ (n <= o => m = n)
  BY <1>2, <1>3 DEF Smaller, Larger
<1>5. x = [a EXCEPT !.out = a.out - m, !.opening = a.opening - m]
  BY <1>1, <1>3 DEF PayOpening
<1>6. PICK out \in Int : out = a.out
  BY AccountFacts
<1>7. x \in Account
  <2>1. PICK k \in Int : k = out - m
    OBVIOUS
  <2>2. PICK l \in Int : l = o - m
    OBVIOUS
  <2>3. x = [a EXCEPT !.out = k, !.opening = l]
    BY <1>2, <1>5, <1>6, <2>1, <2>2
  <2> QED BY <2>3 DEF Account
<1>8. x.out = out - m /\ x.gross = a.gross /\ x.state = a.state
  BY <1>5, <1>6 DEF Account
<1>9. PICK g \in Int : g = a.gross
  BY AccountFacts
<1>10. Net(x) = out - m - g /\ Net(a) = out - g
  BY <1>6, <1>8, <1>9 DEF Net
<1> QED BY <1>1, <1>2, <1>4, <1>7, <1>8, <1>10

\* A correction of the opening debt moves the gross with the balance.
LEMMA AdjustOpeningFacts ==
  ASSUME NEW a \in Account, NEW n \in Int
  PROVE  /\ AdjustOpening(a, n) \in Account /\ Net(AdjustOpening(a, n)) = Net(a)
         /\ AdjustOpening(a, n).state = a.state
<1>1. PICK x : x = AdjustOpening(a, n)
  OBVIOUS
<1>2. PICK o \in Int : o = a.opening
  BY AccountFacts
<1>3. PICK out \in Int : out = a.out
  BY AccountFacts
<1>4. PICK g \in Int : g = a.gross
  BY AccountFacts
<1>5. PICK k \in Int : k = out + (n - o)
  OBVIOUS
<1>6. PICK l \in Int : l = g + (n - o)
  OBVIOUS
<1>7. x = [a EXCEPT !.out = k, !.gross = l, !.opening = n]
  BY <1>1, <1>2, <1>3, <1>4, <1>5, <1>6 DEF AdjustOpening
<1>8. x \in Account /\ x.out = k /\ x.gross = l /\ x.state = a.state
  BY <1>7 DEF Account
<1>9. Net(x) = out - g /\ Net(a) = out - g
  BY <1>3, <1>4, <1>5, <1>6, <1>8 DEF Net
<1> QED BY <1>1, <1>8, <1>9

\* Other columns.
LEMMA EditFacts ==
  ASSUME NEW a \in Account, NEW limit \in Nat, NEW phone \in Phone \cup {NoPhone}, NEW state \in State
  PROVE  /\ Edited(a, limit, phone) \in Account /\ [a EXCEPT !.limit = limit] \in Account
         /\ [a EXCEPT !.state = state] \in Account
         /\ \A x \in {Edited(a, limit, phone), [a EXCEPT !.limit = limit]} :
               Net(x) = Net(a) /\ x.opening = a.opening /\ x.state = a.state
         /\ Net([a EXCEPT !.state = state]) = Net(a) /\ [a EXCEPT !.state = state].opening = a.opening
         /\ [a EXCEPT !.state = state].state = state
BY DEF Edited, Account, Net

\* A new customer.
LEMMA FreshFacts ==
  ASSUME NEW phone \in Phone \cup {NoPhone}, NEW limit \in Nat, NEW opening \in Nat
  PROVE  /\ Fresh(phone, limit, opening) \in Account /\ Net(Fresh(phone, limit, opening)) = 0
         /\ Fresh(phone, limit, opening).state = "active"
<1>1. PICK x : x = Fresh(phone, limit, opening)
  OBVIOUS
<1>2. x = [out |-> opening, opening |-> opening, gross |-> opening, limit |-> limit,
           phone |-> phone, state |-> "active"]
  BY <1>1 DEF Fresh
<1>3. x \in Account /\ x.out = opening /\ x.gross = opening /\ x.state = "active"
  BY <1>2 DEF Account, State
<1> QED BY <1>1, <1>3 DEF Net

\* What a return takes off the balance, and that it takes off nothing where the sale
\* left nothing unpaid or has no customer.
LEMMA ReductionFacts ==
  ASSUME CreditInv, NEW t \in Tx, tx[t].pc # "idle", R(t).op \in Returns
  PROVE  /\ CreditReduction(t) \in Nat
         /\ ~(B(t).cust # NoCustomer /\ Owed(R(t).sale) > 0) => CreditReduction(t) = 0
<1>1. R(t).sale \in Sale /\ tx[t].value \in Nat
  BY Served, ReqFacts, TxFacts DEF CreditInv
<1>2. PICK o \in Int : o = Owed(R(t).sale)
  BY <1>1, BillFacts
<1>3. PICK v \in Nat : v = tx[t].value
  BY <1>1
<1>4. CreditReduction(t) = IF B(t).cust = NoCustomer THEN 0
                           ELSE IF R(t).op = "return" THEN Larger(o, 0) ELSE Smaller(v, Larger(o, 0))
  BY <1>2, <1>3 DEF CreditReduction
<1> QED BY <1>2, <1>4 DEF Larger, Smaller

-----------------------------------------------------------------------------
(***************************************************************************)
(* What the documents add up to.                                           *)
(***************************************************************************)
\* What was credited for a sale is an amount.
LEMMA CreditedNat ==
  ASSUME Types, NEW k \in Sale
  PROVE  Credited(k) \in Nat
<1> DEFINE f == [x \in returned |-> x.credit]
           S == {x \in returned : x.sale = k}
<1>1. IsFiniteSet(S) /\ S \subseteq returned
  BY FS_Subset DEF Types
<1>2. \A x \in S : f[x] \in Nat
  BY <1>1 DEF Types, Returned
<1> QED BY <1>1, <1>2, SumNat DEF Credited

\* Sums over documents are amounts.
LEMMA DocumentSums ==
  ASSUME Types, NEW c \in Customer
  PROVE  /\ \A s \in Sale : Credited(s) \in Nat /\ Due(s) \in Int
         /\ Payments(c) \in Nat
         /\ IsFiniteSet(SalesTo(c)) /\ Behind(c) \in Int
<1>1. \A k \in Sale : Credited(k) \in Nat
  BY CreditedNat
<1>2. Payments(c) \in Nat
  <2> DEFINE f == [x \in paid |-> x.amount]
             S == {x \in paid : x.cust = c}
  <2>1. IsFiniteSet(S) /\ S \subseteq paid
    BY FS_Subset DEF Types
  <2>2. \A x \in S : f[x] \in Nat
    BY <2>1 DEF Types, Paid
  <2> QED BY <2>1, <2>2, SumNat DEF Payments
<1>3. ASSUME NEW k \in Sale PROVE Due(k) \in Int
  BY <1>1, BillFacts DEF Due
<1>4. IsFiniteSet(SalesTo(c)) /\ SalesTo(c) \subseteq Sale
  <2>1. IsFiniteSet(Sale) /\ SalesTo(c) \subseteq Sale
    BY CreditAssumption DEF SalesTo, Sold
  <2> QED BY <2>1, FS_Subset
<1>5. Behind(c) \in Int
  <2>1. PICK f : f = [k \in Sale |-> Due(k)]
    OBVIOUS
  <2>2. \A k \in SalesTo(c) : f[k] \in Int
    BY <1>3, <1>4, <2>1
  <2>3. SumFunctionOnSet(f, SalesTo(c)) \in Int
    BY <1>4, <2>2, SumInt
  <2> QED BY <1>2, <2>1, <2>3 DEF Behind
<1> QED BY <1>1, <1>2, <1>3, <1>4, <1>5

\* The two ways to say that a balance is explained.
LEMMA ExplainedIs ==
  ASSUME Types, NEW c \in Customer
  PROVE  /\ Explained(c) = com[c].gross + Behind(c)
         /\ Told(com[c].out, Explained(c)) <=> Told(Net(com[c]), Behind(c))
<1>1. PICK f : f = [k \in Sale |-> Due(k)]
  OBVIOUS
<1>2. f = [k \in Sale |-> OnAccount(Bill[k]) - Credited(k)]
  BY <1>1 DEF Due
<1>3. PICK n \in Int : n = SumFunctionOnSet(f, SalesTo(c))
  <2>1. \A k \in Sale : Due(k) \in Int
    BY DocumentSums, CreditAssumption DEF Due
  <2>2. SalesTo(c) \subseteq Sale /\ IsFiniteSet(SalesTo(c))
    <3>1. SalesTo(c) \subseteq Sale /\ IsFiniteSet(Sale)
      BY CreditAssumption DEF SalesTo, Sold
    <3> QED BY <3>1, FS_Subset
  <2>3. \A k \in SalesTo(c) : f[k] \in Int
    BY <1>1, <2>1, <2>2
  <2> QED BY <2>2, <2>3, SumInt
<1>4. PICK m \in Nat : m = Payments(c)
  <2> DEFINE g == [x \in paid |-> x.amount]
             S == {x \in paid : x.cust = c}
  <2>1. IsFiniteSet(S) /\ S \subseteq paid
    BY FS_Subset DEF Types
  <2>2. \A x \in S : g[x] \in Nat
    BY <2>1 DEF Types, Paid
  <2> QED BY <2>1, <2>2, SumNat DEF Payments
<1>5. com[c] \in Account
  BY DEF Types, RowsType
<1>6. PICK out \in Int : out = com[c].out
  BY <1>5, AccountFacts
<1>7. PICK g \in Int : g = com[c].gross
  BY <1>5, AccountFacts
<1>8. Behind(c) = n - m
  BY <1>1, <1>3, <1>4 DEF Behind
<1>9. Explained(c) = g - m + n
  BY <1>2, <1>3, <1>4, <1>7 DEF Explained
<1>10. Net(com[c]) = out - g
  BY <1>6, <1>7 DEF Net
<1> QED BY <1>6, <1>7, <1>8, <1>9, <1>10 DEF Told

\* Where no document is added and no sale rung up, they add up as before.
LEMMA BehindKept ==
  ASSUME Sold' = Sold, returned' = returned, paid' = paid, NEW c \in Customer
  PROVE  Behind(c)' = Behind(c)
<1>1. SalesTo(c)' = SalesTo(c)
  BY DEF SalesTo
<1>2. \A s \in Sale : Due(s)' = Due(s)
  BY DEF Due, Credited
<1>3. [s \in Sale |-> Due(s)]' = [s \in Sale |-> Due(s)]
  BY <1>2
<1>4. Payments(c)' = Payments(c)
  BY DEF Payments
<1> QED BY <1>1, <1>3, <1>4 DEF Behind

\* A new sale adds what it puts on account.
LEMMA BehindSold ==
  ASSUME Types, NEW s \in Sale, s \notin Sold, Sold' = Sold \cup {s}, returned' = returned, paid' = paid,
         \A x \in returned : x.sale # s, NEW c \in Customer
  PROVE  Behind(c)' = Behind(c) + (IF Bill[s].cust = c THEN OnAccount(Bill[s]) ELSE 0)
<1>1. PICK f : f = [k \in Sale |-> Due(k)]
  OBVIOUS
<1>2. \A k \in Sale : Due(k)' = Due(k)
  BY DEF Due, Credited
<1>3. [k \in Sale |-> Due(k)]' = f
  BY <1>1, <1>2
<1>4. PICK m \in Nat : m = Payments(c)
  BY DocumentSums
<1>5. PICK n \in Int : n = OnAccount(Bill[s])
  BY BillFacts
<1>6. Due(s) = n
  <2>1. {x \in returned : x.sale = s} = {}
    OBVIOUS
  <2>2. Credited(s) = 0
    BY <2>1, SumEmpty DEF Credited
  <2> QED BY <1>5, <2>2 DEF Due
<1>7. \A k \in Sale : f[k] \in Int
  BY <1>1, DocumentSums
<1>8. IsFiniteSet(SalesTo(c)) /\ SalesTo(c) \subseteq Sale /\ s \notin SalesTo(c)
  BY DocumentSums DEF SalesTo, Sold
<1>9. PICK b \in Int : b = SumFunctionOnSet(f, SalesTo(c))
  BY <1>7, <1>8, SumInt
<1>10. Behind(c) = b - m /\ Behind(c)' = SumFunctionOnSet(f, SalesTo(c)') - m
  <2>1. Payments(c)' = Payments(c)
    BY DEF Payments
  <2> QED BY <1>1, <1>3, <1>4, <1>9, <2>1 DEF Behind
<1>11. CASE Bill[s].cust = c
  <2>1. SalesTo(c)' = SalesTo(c) \cup {s}
    BY <1>11 DEF SalesTo
  <2>2. SumFunctionOnSet(f, SalesTo(c)') = b + f[s]
    BY <1>7, <1>8, <1>9, <2>1, SumAdd
  <2>3. f[s] = n
    BY <1>1, <1>6
  <2> QED BY <1>5, <1>10, <1>11, <2>2, <2>3
<1>12. CASE Bill[s].cust # c
  <2>1. SalesTo(c)' = SalesTo(c)
    BY <1>12 DEF SalesTo
  <2> QED BY <1>9, <1>10, <1>12, <2>1
<1> QED BY <1>11, <1>12

\* A return credits its sale and no other.
LEMMA CreditedReturned ==
  ASSUME Types, NEW x \in Returned, x \notin returned, returned' = returned \cup {x}, NEW k \in Sale
  PROVE  Credited(k)' = Credited(k) + (IF k = x.sale THEN x.credit ELSE 0)
<1>1. PICK n \in Nat : n = x.credit
  BY DEF Returned
<1>2. PICK h : h = [y \in returned |-> y.credit]
  OBVIOUS
<1>3. PICK j : j = [y \in returned' |-> y.credit]
  OBVIOUS
<1>4. IsFiniteSet(returned) /\ returned \subseteq Returned
  BY DEF Types
<1>5. PICK S : S = {y \in returned : y.sale = k}
  OBVIOUS
<1>6. IsFiniteSet(S) /\ S \subseteq returned /\ x \notin S
  BY <1>4, <1>5, FS_Subset
<1>7. \A y \in S : h[y] \in Int /\ j[y] = h[y]
  BY <1>2, <1>3, <1>4, <1>6 DEF Returned
<1>8. SumFunctionOnSet(j, S) = SumFunctionOnSet(h, S)
  BY <1>6, <1>7, SumSame
<1>9. PICK a \in Int : a = SumFunctionOnSet(h, S)
  BY <1>6, <1>7, SumInt
<1>10. PICK U : U = {y \in returned' : y.sale = k}
  OBVIOUS
<1>11. Credited(k) = a /\ Credited(k)' = SumFunctionOnSet(j, U)
  BY <1>2, <1>3, <1>5, <1>9, <1>10 DEF Credited
<1>12. CASE k = x.sale
  <2>1. U = S \cup {x}
    BY <1>5, <1>10, <1>12
  <2>2. x \in returned' /\ j[x] = n
    BY <1>1, <1>3
  <2>3. \A y \in S \cup {x} : j[y] \in Int
    BY <1>7, <2>2
  <2>4. SumFunctionOnSet(j, S \cup {x}) = SumFunctionOnSet(j, S) + j[x]
    BY <1>6, <2>3, SumAdd
  <2> QED BY <1>1, <1>8, <1>9, <1>11, <1>12, <2>1, <2>2, <2>4
<1>13. CASE k # x.sale
  <2>1. U = S
    BY <1>5, <1>10, <1>13
  <2> QED BY <1>8, <1>9, <1>13, <1>11, <2>1
<1> QED BY <1>1, <1>12, <1>13

\* A return takes off what it credits.
LEMMA BehindReturned ==
  ASSUME Types, NEW x \in Returned, x \notin returned, returned' = returned \cup {x}, x.sale \in Sold,
         Sold' = Sold, paid' = paid, NEW c \in Customer
  PROVE  Behind(c)' = Behind(c) - (IF Bill[x.sale].cust = c THEN x.credit ELSE 0)
<1> DEFINE s == x.sale
<1>1. PICK n \in Nat : n = x.credit
  BY DEF Returned
<1>2. PICK f : f = [k \in Sale |-> Due(k)]
  OBVIOUS
<1>3. PICK g : g = [k \in Sale |-> Due(k)]'
  OBVIOUS
<1>7. \A k \in Sale : Credited(k)' = Credited(k) + (IF k = s THEN n ELSE 0)
  BY <1>1, CreditedReturned
<1>8. s \in Sale /\ \A k \in Sale : Due(k) \in Int /\ Credited(k) \in Nat
  BY DocumentSums DEF Returned
<1>9. ASSUME NEW k \in Sale
      PROVE  g[k] = IF k = s THEN f[k] + (0 - n) ELSE f[k]
  <2>1. PICK a \in Nat : a = Credited(k)
    BY <1>8
  <2>2. PICK o \in Int : o = OnAccount(Bill[k])
    BY BillFacts
  <2>3. f[k] = o - a
    BY <1>2, <2>1, <2>2 DEF Due
  <2>4. g[k] = o - (a + (IF k = s THEN n ELSE 0))
    BY <1>3, <1>7, <2>1, <2>2 DEF Due
  <2> QED BY <2>3, <2>4
<1>10. \A k \in Sale : f[k] \in Int /\ g[k] \in Int
  <2>1. \A k \in Sale : f[k] \in Int
    BY <1>2, <1>8
  <2> QED BY <1>9, <2>1
<1>11. IsFiniteSet(SalesTo(c)) /\ SalesTo(c) \subseteq Sale /\ SalesTo(c)' = SalesTo(c)
  BY <1>8, DocumentSums DEF SalesTo, Sold
<1>12. PICK m \in Nat : m = Payments(c)
  BY <1>8, DocumentSums
<1>13. PICK b \in Int : b = SumFunctionOnSet(f, SalesTo(c))
  BY <1>10, <1>11, SumInt
<1>14. Behind(c) = b - m /\ Behind(c)' = SumFunctionOnSet(g, SalesTo(c)) - m
  <2>1. Payments(c)' = Payments(c)
    BY DEF Payments
  <2> QED BY <1>2, <1>3, <1>11, <1>12, <1>13, <2>1 DEF Behind
<1>15. CASE Bill[s].cust = c
  <2>1. s \in SalesTo(c)
    BY <1>15 DEF SalesTo
  <2>2. \A k \in SalesTo(c) : f[k] \in Int
    BY <1>10, <1>11
  <2>3. \A k \in SalesTo(c) : g[k] = IF k = s THEN f[k] + (0 - n) ELSE f[k]
    BY <1>9, <1>11
  <2>4. 0 - n \in Int
    OBVIOUS
  <2>5. SumFunctionOnSet(g, SalesTo(c)) = SumFunctionOnSet(f, SalesTo(c)) + (0 - n)
    <3> HIDE DEF s
    <3> QED BY <1>11, <2>1, <2>2, <2>3, <2>4, SumBump
  <2> QED BY <1>1, <1>13, <1>14, <1>15, <2>5
<1>16. CASE Bill[s].cust # c
  <2>1. \A k \in SalesTo(c) : k # s
    BY <1>16 DEF SalesTo
  <2>2. \A k \in SalesTo(c) : g[k] = f[k]
    BY <1>9, <1>11, <2>1
  <2>3. SumFunctionOnSet(g, SalesTo(c)) = b
    BY <1>11, <1>13, <2>2, SumSame
  <2> QED BY <1>13, <1>14, <1>16, <2>3
<1> QED BY <1>15, <1>16

\* A repayment counts for its customer and no other.
LEMMA PaymentsPaid ==
  ASSUME Types, NEW x \in Paid, x \notin paid, paid' = paid \cup {x}, NEW c \in Customer
  PROVE  Payments(c)' = Payments(c) + (IF x.cust = c THEN x.amount ELSE 0)
<1>1. PICK n \in Nat : n = x.amount
  BY DEF Paid
<1>2. PICK h : h = [y \in paid |-> y.amount]
  OBVIOUS
<1>3. PICK j : j = [y \in paid' |-> y.amount]
  OBVIOUS
<1>4. PICK S : S = {y \in paid : y.cust = c}
  OBVIOUS
<1>5. IsFiniteSet(S) /\ S \subseteq paid /\ x \notin S
  BY <1>4, FS_Subset DEF Types
<1>6. \A y \in S : h[y] \in Int /\ j[y] = h[y]
  BY <1>2, <1>3, <1>5 DEF Types, Paid
<1>7. PICK a \in Int : a = SumFunctionOnSet(h, S)
  BY <1>5, <1>6, SumInt
<1>8. SumFunctionOnSet(j, S) = a
  BY <1>5, <1>6, <1>7, SumSame
<1>9. PICK U : U = {y \in paid' : y.cust = c}
  OBVIOUS
<1>10. Payments(c) = a /\ Payments(c)' = SumFunctionOnSet(j, U)
  BY <1>2, <1>3, <1>4, <1>7, <1>9 DEF Payments
<1>11. CASE x.cust = c
  <2>1. U = S \cup {x}
    BY <1>4, <1>9, <1>11
  <2>2. x \in paid' /\ j[x] = n
    BY <1>1, <1>3
  <2>3. \A y \in S \cup {x} : j[y] \in Int
    BY <1>6, <2>2
  <2>4. SumFunctionOnSet(j, S \cup {x}) = SumFunctionOnSet(j, S) + j[x]
    BY <1>5, <2>3, SumAdd
  <2> QED BY <1>1, <1>8, <1>10, <1>11, <2>1, <2>2, <2>4
<1>12. CASE x.cust # c
  <2>1. U = S
    BY <1>4, <1>9, <1>12
  <2> QED BY <1>8, <1>10, <1>12, <2>1
<1> QED BY <1>11, <1>12

\* A repayment takes off what it is.
LEMMA BehindPaid ==
  ASSUME Types, NEW x \in Paid, x \notin paid, paid' = paid \cup {x},
         Sold' = Sold, returned' = returned, NEW c \in Customer
  PROVE  Behind(c)' = Behind(c) - (IF x.cust = c THEN x.amount ELSE 0)
<1>1. PICK n \in Nat : n = x.amount
  BY DEF Paid
<1>2. PICK f : f = [k \in Sale |-> Due(k)]
  OBVIOUS
<1>3. [k \in Sale |-> Due(k)]' = f /\ SalesTo(c)' = SalesTo(c)
  <2>1. \A k \in Sale : Due(k)' = Due(k)
    BY DEF Due, Credited
  <2> QED BY <1>2, <2>1 DEF SalesTo
<1>4. PICK b \in Int : b = SumFunctionOnSet(f, SalesTo(c))
  <2>1. SalesTo(c) \subseteq Sale /\ IsFiniteSet(SalesTo(c))
    <3>1. SalesTo(c) \subseteq Sale /\ IsFiniteSet(Sale)
      BY CreditAssumption DEF SalesTo, Sold
    <3> QED BY <3>1, FS_Subset
  <2>2. \A k \in SalesTo(c) : f[k] \in Int
    BY <1>2, <2>1, DocumentSums
  <2> QED BY <2>1, <2>2, SumInt
<1>5. PICK a \in Nat : a = Payments(c)
  BY DocumentSums
<1>6. Payments(c)' = a + (IF x.cust = c THEN n ELSE 0)
  BY <1>1, <1>5, PaymentsPaid
<1>7. Behind(c) = b - a /\ Behind(c)' = b - Payments(c)'
  BY <1>2, <1>3, <1>4, <1>5 DEF Behind
<1> QED BY <1>1, <1>5, <1>6, <1>7

-----------------------------------------------------------------------------
(***************************************************************************)
(* Steps: what all of them share.                                          *)
(***************************************************************************)
\* What t's step leaves to the other sessions: their notes and the rows they hold.
Aside(t) == \A v \in Tx \ {t} :
  /\ tx'[v] = tx[v]
  /\ \A r \in Row : /\ lock'[r] = v <=> lock[r] = v
                    /\ lock[r] = v => cur'[r] = cur[r] /\ com'[r] = com[r]

\* What t's step unmakes, and what it makes a sale: only that of its own request.
Grows(t) ==
  /\ \A c \in Customer : Known(c) => Known(c)'
  /\ \A s \in Sale : com[s] # "none" => com'[s] # "none"
  /\ \A s \in Sale : com[s] = "none" /\ com'[s] # "none"
                       => tx[t].pc # "idle" /\ R(t).op = "sale" /\ R(t).sale = s

\* t goes on with its request.
Onward(t) == /\ tx' \in [Tx -> Serving] /\ \A v \in Tx \ {t} : tx'[v] = tx[v]
             /\ tx'[t].at = tx[t].at /\ tx'[t].req = tx[t].req

\* The rows a session holds are in the tables, and it is told from those that are free.
LEMMA LockFacts ==
  ASSUME Types, NEW t \in Tx
  PROVE  /\ t # NoTx /\ \A r \in Row : lock[r] \in Tx \cup {NoTx}
         /\ \A c \in Customer : com[c] \in Account /\ cur[c] \in Account
         /\ \A s \in Sale : com[s] \in Status /\ cur[s] \in Status
         /\ served \in Nat
<1>1. t # NoTx /\ \A r \in Row : lock[r] \in Tx \cup {NoTx}
  BY RowFacts DEF Types
<1>2. /\ \A c \in Customer : com[c] \in Account /\ cur[c] \in Account
      /\ \A s \in Sale : com[s] \in Status /\ cur[s] \in Status
  BY DEF Types, RowsType
<1>3. served \in Nat
  BY CreditAssumption DEF Types
<1> QED BY <1>1, <1>2, <1>3

\* What has been moved and not recorded is an amount.
LEMMA MovedInt ==
  ASSUME CreditInv, NEW t \in Tx, NEW c \in Customer
  PROVE  Moved(t, c) \in Int
<1> DEFINE o == R(t).op
<1>1. CASE tx[t].pc = "idle"
  BY <1>1 DEF Moved, At
<1>2. CASE tx[t].pc # "idle"
  <2>1. R(t) \in Request /\ tx[t].old \in Nat
    BY <1>2, Served, TxFacts DEF CreditInv
  <2>2. o = "sale" => OnAccount(B(t)) \in Int
    BY <2>1, ReqFacts, BillFacts DEF B
  <2>3. o \in Returns => 0 - CreditReduction(t) \in Int
    BY <1>2, ReductionFacts
  <2>4. o \in Repayments => 0 - R(t).amount \in Int
    BY <2>1, ReqFacts
  <2>5. 0 - tx[t].old \in Int
    BY <2>1
  <2> QED BY <2>2, <2>3, <2>4, <2>5 DEF Moved
<1> QED BY <1>1, <1>2

\* Another session is as it was, if the opening debt it is about to repay is there still.
LEMMA OthersKept ==
  ASSUME CreditInv, NEW t \in Tx, NEW u \in Tx, u # t, Aside(t), Grows(t), OldKept(u)',
         served' \in {served, served + 1}, tx'[t].at \in {tx[t].at, 0, served + 1},
         \A x \in returned' \cup paid' : x \in returned \cup paid \/ x.id = tx[t].at,
         R(t)' = R(t) \/ R(t)'.op # "sale" \/ \A v \in Tx : R(v) # R(t)'
  PROVE  Own(u)'
<1>1. /\ Own(u) /\ tx'[u] = tx[u] /\ R(u)' = R(u) /\ B(u)' = B(u) /\ \A s : At(u, s)' <=> At(u, s)
      /\ Types
  BY DEF CreditInv, Aside, R, B, At
<1>2. served \in Nat /\ tx[u].at \in Nat /\ tx[t].at \in Nat
  BY <1>1, TxFacts, LockFacts
<1>3. Numbered(u)'
  <2>6. tx[u].at <= served /\ tx[u].at <= served'
    BY <1>1, <1>2 DEF Own, Numbered
  <2> SUFFICES ASSUME ~At(u, "idle") PROVE /\ 0 < tx[u].at
                                           /\ \A v \in Tx \ {u} : tx'[v].at # tx[u].at
                                           /\ \A x \in returned' \cup paid' : x.id # tx[u].at
    BY <1>1, <2>6 DEF Numbered
  <2>1. /\ 0 < tx[u].at /\ \A v \in Tx \ {u} : tx[v].at # tx[u].at
        /\ \A x \in returned \cup paid : x.id # tx[u].at
    BY <1>1 DEF Own, Numbered
  <2>3. tx'[t].at # tx[u].at
    BY <1>2, <2>1, <2>6
  <2>4. \A v \in Tx \ {u} : tx'[v].at # tx[u].at
    BY <2>1, <2>3 DEF Aside
  <2>5. \A x \in returned' \cup paid' : x.id # tx[u].at
    BY <2>1
  <2> QED BY <2>1, <2>4, <2>5
<1>4. Shape(u)'
  <2>1. Shape(u) /\ tx'[u] = tx[u]
    BY <1>1 DEF Own
  <2> QED BY <2>1 DEF Shape, At, R, B
<1>5. Found(u)'
  <2> SUFFICES ASSUME ~At(u, "idle")
               PROVE  /\ R(u).op = "sale" => /\ com'[R(u).sale] = "none" /\ \A v \in Tx \ {u} : R(v)' # R(u)
                                             /\ B(u).cust # NoCustomer => Known(B(u).cust)'
                      /\ R(u).op \in Returns /\ ~At(u, "status") => com'[R(u).sale] # "none"
                      /\ R(u).op \in Repayments => Known(R(u).cust)'
    BY <1>1 DEF Found
  <2>1. Found(u) /\ R(u) \in Request
    BY <1>1, Served DEF Own, At
  <2>2. ASSUME R(u).op = "sale"
        PROVE  /\ com'[R(u).sale] = "none" /\ \A v \in Tx \ {u} : R(v)' # R(u)
               /\ B(u).cust # NoCustomer => Known(B(u).cust)'
    <3>1. /\ com[R(u).sale] = "none" /\ \A v \in Tx \ {u} : R(v) # R(u)
          /\ B(u).cust # NoCustomer => Known(B(u).cust)
      BY <2>1, <2>2 DEF Found
    <3>2. R(u).sale \in Sale /\ R(u) = [op |-> "sale", sale |-> R(u).sale] /\ B(u).cust \in Customer \cup {NoCustomer}
      BY <2>1, <2>2, ReqFacts, BillFacts DEF B
    <3>3. com'[R(u).sale] = "none"
      <4> SUFFICES ASSUME com'[R(u).sale] # "none" PROVE FALSE
        OBVIOUS
      <4>1. tx[t].pc # "idle" /\ R(t).op = "sale" /\ R(t).sale = R(u).sale
        BY <3>1, <3>2 DEF Grows
      <4>3. R(t) = [op |-> "sale", sale |-> R(t).sale]
        BY <4>1, Served, ReqFacts
      <4> QED BY <3>1, <3>2, <4>1, <4>3
    <3>4. \A v \in Tx \ {u} : R(v)' # R(u)
      <4>1. R(t)' # R(u)
        <5>1. CASE R(t)' = R(t)
          BY <3>1, <5>1
        <5>2. CASE R(t)'.op # "sale"
          BY <2>2, <5>2
        <5>3. CASE \A v \in Tx : R(v) # R(t)'
          BY <5>3
        <5> QED BY <5>1, <5>2, <5>3
      <4>2. \A v \in Tx \ {t} : R(v)' = R(v)
        BY DEF Aside, R
      <4> QED BY <3>1, <4>1, <4>2
    <3>5. PICK c : c = B(u).cust
      OBVIOUS
    <3>6. c # NoCustomer => Known(c)'
      BY <3>1, <3>2, <3>5 DEF Grows
    <3>7. B(u).cust # NoCustomer => Known(B(u).cust)'
      BY <1>1, <3>5, <3>6
    <3> QED BY <3>3, <3>4, <3>7
  <2>3. R(u).op \in Returns /\ ~At(u, "status") => com'[R(u).sale] # "none"
    BY <2>1, ReqFacts DEF Found, Grows
  <2>4. R(u).op \in Repayments => Known(R(u).cust)'
    <3> SUFFICES ASSUME R(u).op \in Repayments PROVE Known(R(u).cust)'
      OBVIOUS
    <3>1. PICK c \in Customer : c = R(u).cust
      BY <2>1, ReqFacts
    <3>2. Known(c)'
      BY <2>1, <3>1 DEF Found, Grows
    <3> QED BY <1>1, <3>1, <3>2
  <2> QED BY <2>2, <2>3, <2>4
<1>6. \A r \in Row : /\ lock'[r] = u <=> lock[r] = u
                     /\ lock[r] = u => cur'[r] = cur[r] /\ com'[r] = com[r]
  BY DEF Aside
<1>7. SaleHeld(u)'
  <2>1. \A s \in Sale : lock'[s] = u /\ com'[s] = "none" => R(u).op = "sale" /\ R(u).sale = s
    BY <1>1, <1>6, RowFacts DEF Own, SaleHeld
  <2>2. At(u, "commit") /\ R(u).op = "sale" => lock'[R(u).sale] = u /\ cur'[R(u).sale] # "none"
    <3> SUFFICES ASSUME At(u, "commit"), R(u).op = "sale"
                 PROVE  lock'[R(u).sale] = u /\ cur'[R(u).sale] # "none"
      OBVIOUS
    <3>1. R(u).sale \in Row
      BY Served, ReqFacts, RowFacts DEF At
    <3> QED BY <1>1, <1>6, <3>1 DEF Own, SaleHeld
  <2> QED BY <1>1, <2>1, <2>2 DEF SaleHeld
<1>8. Bare(u)'
  BY <1>1, <1>6 DEF Own, Bare
<1>9. ASSUME NEW c \in Customer PROVE Holds(u, c)'
  <2>1. Moved(u, c)' = Moved(u, c)
    BY <1>1 DEF Moved, CreditReduction, At
  <2>2. Holds(u, c) /\ c \in Row
    BY <1>1, RowFacts DEF Own
  <2>3. lock[c] = u => Net(cur[c])' = Net(cur[c]) /\ Net(com[c])' = Net(com[c]) /\ Known(c)' = Known(c)
                       /\ (cur[c].opening)' = cur[c].opening /\ (com[c].opening)' = com[c].opening
    BY <1>6, <2>2 DEF Known
  <2>4. Concerns(R(u), c)' <=> Concerns(R(u), c)
    BY <1>1 DEF Concerns
  <2> QED BY <1>6, <2>1, <2>2, <2>3, <2>4 DEF Holds, Told
<1> QED BY <1>3, <1>4, <1>5, <1>7, <1>8, <1>9 DEF Own

\* A session that is over.
LEMMA IdleOwn ==
  ASSUME NEW t \in Tx, \A r \in Row : lock'[r] # t, tx'[t] = Idle, served' \in Nat
  PROVE  Own(t)'
<1>1. tx'[t].pc = "idle" /\ tx'[t].req.op = "none" /\ tx'[t].at = 0
  BY IdleState DEF Idle
<1>2. Numbered(t)' /\ Found(t)' /\ OldKept(t)' /\ Bare(t)'
  BY <1>1 DEF Numbered, Found, OldKept, Bare, At
<1>3. Shape(t)'
  <2>1. R(t)'.op = "none" /\ tx'[t].pc = "idle"
    BY <1>1 DEF R
  <2> QED BY <2>1 DEF Shape, At, Returns, Repayments
<1>4. SaleHeld(t)'
  BY <1>1, RowFacts DEF SaleHeld, At
<1>5. \A c \in Customer : Holds(t, c)'
  <2>1. \A c \in Customer : Moved(t, c)' = 0
    BY <1>1 DEF Moved, At
  <2> QED BY <2>1, RowFacts DEF Holds
<1> QED BY <1>2, <1>3, <1>4, <1>5 DEF Own

\* The opening debt another session is about to repay is there still, if t's request
\* writes other columns or other customers, or is one of that customer's.
LEMMA OldStays ==
  ASSUME CreditInv, NEW t \in Tx, NEW u \in Tx, u # t, tx'[u] = tx[u], tx[t].pc # "idle",
         \A c \in Customer : Known(c) => cur'[c].opening = cur[c].opening \/ Concerns(R(t), c)
  PROVE  OldKept(u)'
<1>1. R(u)' = R(u) /\ (At(u, "old")' <=> At(u, "old"))
  BY DEF R, At
<1> SUFFICES ASSUME At(u, "old")
             PROVE  tx[u].old <= R(u).amount /\ (OldsApart => tx[u].old <= cur'[R(u).cust].opening /\ R(u).old)
  BY <1>1 DEF OldKept
<1>2. Shape(u) /\ Found(u) /\ OldKept(u)
  BY DEF CreditInv, Own
<1>3. R(u).op \in Repayments /\ R(u) \in Request /\ R(u) \in Desk[u] /\ R(t) \in Desk[t]
  BY <1>2, Served DEF Shape, At
<1>4. PICK c \in Customer : c = R(u).cust
  BY <1>3, ReqFacts
<1>5. Known(c)
  BY <1>2, <1>3, <1>4 DEF Found, At
<1>6. ASSUME OldsApart PROVE tx[u].old <= cur'[R(u).cust].opening /\ R(u).old
  <2>1. tx[u].old <= cur[c].opening /\ R(u).old
    BY <1>2, <1>4, <1>6 DEF OldKept
  <2>2. ~Concerns(R(t), c)
    BY <1>3, <1>4, <1>6, <2>1 DEF OldsApart
  <2> QED BY <1>4, <1>5, <2>1, <2>2
<1> QED BY <1>2, <1>6 DEF OldKept

\* The session whose request goes on, while nothing is committed.
LEMMA OwnOnward ==
  ASSUME CreditInv, NEW t \in Tx, tx[t].pc # "idle", Onward(t), com' = com, Tables,
         tx'[t].pc \notin {"idle"} \cup Single, Shape(t)', OldKept(t)', SaleHeld(t)',
         tx[t].pc = "status" => com[R(t).sale] # "none",
         \A c \in Customer : Holds(t, c)'
  PROVE  Own(t)'
<1>1. /\ R(t)' = R(t) /\ B(t)' = B(t) /\ tx'[t].at = tx[t].at /\ returned' = returned /\ paid' = paid /\ served' = served
      /\ \A v \in Tx \ {t} : tx'[v] = tx[v]
  BY DEF Onward, R, B, Tables
<1>2. Numbered(t) /\ Found(t)
  BY DEF CreditInv, Own
<1>3. Numbered(t)'
  BY <1>1, <1>2 DEF Numbered, At
<1>4. Found(t)'
  <2>1. \A v \in Tx \ {t} : R(v)' = R(v)
    BY <1>1 DEF R
  <2>2. \A c : Known(c)' <=> Known(c)
    BY DEF Known
  <2> QED BY <1>1, <1>2, <2>1, <2>2 DEF Found, At
<1>5. Bare(t)'
  BY DEF Bare
<1> QED BY <1>3, <1>4, <1>5 DEF Own

\* While nothing is committed, the documents and the committed balances stay.
LEMMA RecordsStay ==
  ASSUME CreditInv, com' = com, Tables
  PROVE  RecordsOK' /\ Booked'
<1>1. Sold' = Sold /\ returned' = returned /\ paid' = paid /\ served' = served
  BY DEF Sold, Tables
<1>2. RecordsOK'
  BY <1>1 DEF CreditInv, RecordsOK, Known
<1>3. ASSUME NEW c \in Customer PROVE Told(Net(com[c]), Behind(c))'
  <2>1. Behind(c)' = Behind(c) /\ Net(com[c])' = Net(com[c])
    BY <1>1, BehindKept
  <2> QED BY <2>1 DEF CreditInv, Booked, Told
<1> QED BY <1>2, <1>3 DEF Booked

\* A statement that only reads.
LEMMA ReadStep ==
  ASSUME CreditInv, NEW t \in Tx, tx[t].pc # "idle", Onward(t), UNCHANGED rowVars, Tables,
         tx'[t].pc \notin {"idle"} \cup Single, Shape(t)', OldKept(t)',
         \A c \in Customer : Moved(t, c)' = Moved(t, c),
         tx[t].pc = "status" => com[R(t).sale] # "none",
         tx'[t].pc = "commit" => R(t).op # "sale"
  PROVE  CreditInv'
<1>1. com' = com /\ cur' = cur /\ lock' = lock /\ R(t)' = R(t)
  BY DEF rowVars, Onward, R
<1>2. Types'
  BY <1>1 DEF CreditInv, Types, RowsType, Tables, Onward
<1>3. RowsOK'
  BY <1>1 DEF CreditInv, RowsOK, Known
<1>4. RecordsOK' /\ Booked'
  BY <1>1, RecordsStay
<1>5. Own(t)'
  <2>1. SaleHeld(t)'
    BY <1>1 DEF CreditInv, Own, SaleHeld, At
  <2>2. \A c \in Customer : Holds(t, c)'
    <3> SUFFICES ASSUME NEW c \in Customer PROVE Holds(t, c)'
      OBVIOUS
    <3>1. Holds(t, c) /\ (Concerns(R(t), c)' <=> Concerns(R(t), c)) /\ (Known(c)' <=> Known(c))
      BY <1>1 DEF CreditInv, Own, Concerns, Known
    <3> QED BY <1>1, <3>1 DEF Holds
  <2> QED BY <1>1, <2>1, <2>2, OwnOnward
<1>6. ASSUME NEW u \in Tx, u # t PROVE Own(u)'
  <2>1. Aside(t) /\ Grows(t)
    BY <1>1 DEF Aside, Grows, Onward, Known
  <2>2. OldKept(u)'
    <3>1. tx'[u] = tx[u] /\ \A c \in Customer : cur'[c].opening = cur[c].opening
      BY <1>1, <1>6 DEF Onward
    <3> QED BY <1>6, <3>1, OldStays
  <2>3. served' = served /\ tx'[t].at = tx[t].at /\ returned' \cup paid' = returned \cup paid
    BY DEF Onward, Tables
  <2> QED BY <1>1, <1>6, <2>1, <2>2, <2>3, OthersKept
<1> QED BY <1>2, <1>3, <1>4, <1>5, <1>6 DEF CreditInv

\* What t's request may write to a row.
Fits(t, r, v) ==
  /\ r \in Customer => /\ v \in Account
                       /\ cur[r].state # "none" => v.state # "none"
                       /\ v.state = "none" => Net(v) = 0
                       /\ Known(r) => Concerns(R(t), r) \/ v.opening = cur[r].opening
                       /\ Told(Net(v), Net(cur[r]) + (Moved(t, r)' - Moved(t, r)))
  /\ r \in Sale => v \in Status \ {"none"} /\ (com[r] # "none" \/ (R(t).op = "sale" /\ R(t).sale = r))
  /\ r \in Item => v \in Nat
  /\ r \in Product => v \in Int

\* A statement that writes one row of t's transaction.
LEMMA WriteStep ==
  ASSUME CreditInv, NEW t \in Tx, tx[t].pc # "idle", Onward(t), Tables,
         NEW r \in Row, NEW v, DB!Write(t, r, v), Fits(t, r, v),
         tx'[t].pc \notin {"idle"} \cup Single, Shape(t)', OldKept(t)',
         \A c \in Customer \ {r} : Moved(t, c)' = Moved(t, c),
         r \in Customer => Moved(t, r)' \in Int,
         tx[t].pc # "status",
         tx'[t].pc = "commit" /\ R(t).op = "sale" => r = R(t).sale
  PROVE  CreditInv'
<1>1. /\ lock[r] \in {t, NoTx} /\ com' = com /\ R(t)' = R(t)
      /\ lock' = [lock EXCEPT ![r] = t] /\ cur' = [cur EXCEPT ![r] = v]
  BY DEF DB!Write, DB!Available, Onward, R
<1>2. Types /\ RowsOK /\ Own(t)
  BY DEF CreditInv
<1>3. /\ lock \in [Row -> Tx \cup {NoTx}] /\ cur = [k \in Row |-> cur[k]]
      /\ \A c \in Customer : cur[c] \in Account /\ com[c] \in Account
  BY <1>2 DEF Types, RowsType
<1>4. /\ cur'[r] = v /\ lock'[r] = t
      /\ \A k \in Row \ {r} : cur'[k] = cur[k] /\ lock'[k] = lock[k]
  BY <1>1, <1>3
<1>5. Types'
  <2>1. RowsType(cur)'
    <3>1. cur' = [k \in Row |-> cur'[k]]
      BY <1>1, <1>3
    <3>2. \A c \in Customer : cur'[c] \in Account
      BY <1>3, <1>4, RowFacts DEF Fits
    <3>3. \A s \in Sale : cur'[s] \in Status
      BY <1>2, <1>4, RowFacts DEF Fits, Types, RowsType
    <3>4. \A i \in Item : cur'[i] \in Nat
      BY <1>2, <1>4, RowFacts DEF Fits, Types, RowsType
    <3>5. \A p \in Product : cur'[p] \in Int
      BY <1>2, <1>4, RowFacts DEF Fits, Types, RowsType
    <3> QED BY <3>1, <3>2, <3>3, <3>4, <3>5 DEF RowsType
  <2>2. RowsType(com)'
    BY <1>1, <1>2 DEF Types, RowsType
  <2>3. lock' \in [Row -> Tx \cup {NoTx}]
    BY <1>1, <1>3
  <2> QED BY <1>2, <2>1, <2>2, <2>3 DEF Types, Tables, Onward
<1>6. RowsOK'
  <2>1. \A k \in Row : lock'[k] = NoTx => cur'[k] = com'[k]
    BY <1>1, <1>2, <1>4, RowFacts DEF RowsOK
  <2>2. \A s \in Sale : com'[s] # "none" => cur'[s] # "none"
    BY <1>1, <1>2, <1>4, RowFacts DEF RowsOK, Fits
  <2>3. ASSUME NEW c \in Customer
        PROVE  /\ Known(c)' => cur'[c].state # "none"
               /\ \A a \in {com'[c], cur'[c]} : a.state = "none" => Net(a) = 0
    <3>1. /\ Known(c) => cur[c].state # "none"
          /\ \A a \in {com[c], cur[c]} : a.state = "none" => Net(a) = 0
      BY <1>2 DEF RowsOK
    <3>2. Known(c)' <=> Known(c)
      BY <1>1 DEF Known
    <3>3. CASE c = r
      BY <1>1, <1>4, <3>1, <3>2, <3>3 DEF Fits
    <3>4. CASE c # r
      BY <1>1, <1>4, <3>1, <3>2, <3>4, RowFacts
    <3> QED BY <3>3, <3>4
  <2> QED BY <2>1, <2>2, <2>3 DEF RowsOK
<1>7. RecordsOK' /\ Booked'
  BY <1>1, RecordsStay
<1>8. ASSUME NEW c \in Customer PROVE Holds(t, c)'
  <2>1. Holds(t, c) /\ (Concerns(R(t), c)' <=> Concerns(R(t), c)) /\ (Known(c)' <=> Known(c)) /\ c \in Row
    BY <1>1, <1>2, RowFacts DEF Own, Concerns, Known
  <2>2. CASE c # r
    <3>1. /\ Moved(t, c)' = Moved(t, c) /\ lock'[c] = lock[c] /\ cur'[c] = cur[c]
      BY <1>4, <2>1, <2>2
    <3> QED BY <1>1, <2>1, <3>1 DEF Holds
  <2>3. CASE c = r
    <3>1. Net(cur[c])' = Net(v) /\ Net(com[c])' = Net(com[c]) /\ (cur[c].opening)' = v.opening
          /\ (com[c].opening)' = com[c].opening
      BY <1>1, <1>4, <2>3
    <3>2. PICK m \in Int : m = Moved(t, c)
      BY MovedInt
    <3>3. PICK n \in Int : n = Moved(t, c)'
      BY <2>3
    <3>4. PICK p \in Int : p = Net(com[c])
      BY <1>3, AccountFacts
    <3>5. PICK q \in Int : q = Net(cur[c])
      BY <1>3, AccountFacts
    <3>6. PICK w \in Int : w = Net(v)
      BY <2>3, AccountFacts DEF Fits
    <3>7. Told(q, p + m)
      <4>1. CASE lock[c] = t
        BY <2>1, <3>2, <3>4, <3>5, <4>1 DEF Holds
      <4>2. CASE lock[c] = NoTx
        <5>1. m = 0
          BY <2>1, <3>2, <4>2, RowFacts DEF Holds
        <5>2. q = p
          BY <1>2, <2>1, <3>4, <3>5, <4>2 DEF RowsOK
        <5> QED BY <5>1, <5>2 DEF Told
      <4> QED BY <1>1, <2>3, <4>1, <4>2
    <3>8. Told(w, q + (n - m))
      BY <2>3, <3>2, <3>3, <3>5, <3>6 DEF Fits
    <3>9. Told(w, p + n)
      BY <3>7, <3>8 DEF Told
    <3>10. lock[c] = t /\ Known(c) /\ ~Concerns(R(t), c) => cur[c].opening = com[c].opening
      BY <2>1 DEF Holds
    <3>11. Known(c) /\ ~Concerns(R(t), c) => v.opening = com[c].opening
      <4>1. lock[c] = NoTx => cur[c].opening = com[c].opening
        BY <1>2, <2>1 DEF RowsOK
      <4> QED BY <1>1, <2>3, <3>10, <4>1 DEF Fits
    <3>12. Told(Net(cur[c]), Net(com[c]) + Moved(t, c))'
      BY <3>1, <3>3, <3>4, <3>6, <3>9 DEF Told
    <3>13. lock'[c] = t
      BY <1>4, <2>3
    <3> QED BY <2>1, <3>1, <3>11, <3>12, <3>13 DEF Holds
  <2> QED BY <2>2, <2>3
<1>9. SaleHeld(t)'
  <2>1. SaleHeld(t)
    BY <1>2 DEF Own
  <2>2. \A s \in Sale : lock'[s] = t /\ com'[s] = "none" => R(t).op = "sale" /\ R(t).sale = s
    BY <1>1, <1>4, <2>1, RowFacts DEF SaleHeld, Fits
  <2>3. At(t, "commit")' /\ R(t).op = "sale" => lock'[R(t).sale] = t /\ cur'[R(t).sale] # "none"
    <3> SUFFICES ASSUME At(t, "commit")', R(t).op = "sale"
                 PROVE  lock'[R(t).sale] = t /\ cur'[R(t).sale] # "none"
      OBVIOUS
    <3>1. r = R(t).sale
      BY DEF At
    <3>2. r \in Sale
      BY <3>1, Served, ReqFacts
    <3> QED BY <1>4, <3>1, <3>2 DEF Fits
  <2> QED BY <1>1, <2>2, <2>3 DEF SaleHeld
<1>10. Own(t)'
  BY <1>1, <1>8, <1>9, OwnOnward
<1>11. ASSUME NEW u \in Tx, u # t PROVE Own(u)'
  <2>1. Aside(t)
    BY <1>1, <1>4, RowFacts DEF Aside, Onward
  <2>2. Grows(t)
    BY <1>1 DEF Grows, Known
  <2>3. OldKept(u)'
    <3>1. tx'[u] = tx[u]
      BY <1>11 DEF Onward
    <3>2. \A c \in Customer : Known(c) => cur'[c].opening = cur[c].opening \/ Concerns(R(t), c)
      BY <1>4, RowFacts DEF Fits
    <3> QED BY <1>11, <3>1, <3>2, OldStays
  <2>4. served' = served /\ tx'[t].at = tx[t].at /\ returned' \cup paid' = returned \cup paid
    BY DEF Onward, Tables
  <2> QED BY <1>1, <1>11, <2>1, <2>2, <2>3, <2>4, OthersKept
<1> QED BY <1>5, <1>6, <1>7, <1>10, <1>11 DEF CreditInv

\* One UPDATE of a customer, committed by itself.
LEMMA UpdateStep ==
  ASSUME CreditInv, NEW t \in Tx, tx[t].pc \in Single, NEW c \in Customer, NEW v \in Account,
         Update(t, c, v), Known(c), v.state # "none", Net(v) = Net(com[c]),
         Concerns(R(t), c) \/ v.opening = com[c].opening
  PROVE  CreditInv'
<1>1. /\ lock[c] = NoTx /\ com' = [com EXCEPT ![c] = v] /\ cur' = [cur EXCEPT ![c] = v] /\ lock' = lock
      /\ tx' = [tx EXCEPT ![t] = Idle]
      /\ returned' = returned /\ paid' = paid /\ served' = served
  BY DEF Update, DB!Update, Tables
<1>2. Types /\ RowsOK /\ RecordsOK /\ Booked /\ c \in Row /\ tx[t].pc # "idle"
  BY RowFacts DEF CreditInv, Single
<1>3. /\ com = [k \in Row |-> com[k]] /\ cur = [k \in Row |-> cur[k]] /\ tx \in [Tx -> Serving]
      /\ \A k \in Customer : cur[k] \in Account /\ com[k] \in Account
  BY <1>2 DEF Types, RowsType
<1>4. /\ cur'[c] = v /\ com'[c] = v /\ cur[c] = com[c]
      /\ \A k \in Row \ {c} : cur'[k] = cur[k] /\ com'[k] = com[k]
  BY <1>1, <1>2, <1>3 DEF RowsOK
<1>5. tx'[t] = Idle /\ tx' \in [Tx -> Serving] /\ \A u \in Tx \ {t} : tx'[u] = tx[u]
  BY <1>1, <1>3, IdleState
<1>6. Types'
  <2>1. RowsType(com)'
    <3>1. com' = [k \in Row |-> com'[k]]
      BY <1>1, <1>3
    <3>2. \A k \in Customer : com'[k] \in Account
      BY <1>3, <1>4, RowFacts
    <3>3. (\A s \in Sale : com'[s] \in Status) /\ (\A i \in Item : com'[i] \in Nat) /\ \A p \in Product : com'[p] \in Int
      BY <1>2, <1>4, RowFacts DEF Types, RowsType
    <3> QED BY <3>1, <3>2, <3>3 DEF RowsType
  <2>2. RowsType(cur)'
    <3>1. cur' = [k \in Row |-> cur'[k]]
      BY <1>1, <1>3
    <3>2. \A k \in Customer : cur'[k] \in Account
      BY <1>3, <1>4, RowFacts
    <3>3. (\A s \in Sale : cur'[s] \in Status) /\ (\A i \in Item : cur'[i] \in Nat) /\ \A p \in Product : cur'[p] \in Int
      BY <1>2, <1>4, RowFacts DEF Types, RowsType
    <3> QED BY <3>1, <3>2, <3>3 DEF RowsType
  <2> QED BY <1>1, <1>2, <1>5, <2>1, <2>2 DEF Types
<1>7. /\ \A k \in Customer : Known(k)' <=> Known(k)
      /\ \A s \in Sale : com'[s] = com[s] /\ cur'[s] = cur[s]
  BY <1>2, <1>4, RowFacts DEF Known
<1>8. Sold' = Sold
  BY <1>7 DEF Sold
<1>9. RowsOK'
  <2>1. \A r \in Row : lock'[r] = NoTx => cur'[r] = com'[r]
    BY <1>1, <1>2, <1>4 DEF RowsOK
  <2>2. \A s \in Sale : com'[s] # "none" => cur'[s] # "none"
    BY <1>2, <1>7 DEF RowsOK
  <2>3. ASSUME NEW k \in Customer
        PROVE  /\ Known(k)' => cur'[k].state # "none"
               /\ \A a \in {com'[k], cur'[k]} : a.state = "none" => Net(a) = 0
    <3>1. CASE k = c
      BY <1>4, <3>1
    <3>2. CASE k # c
      BY <1>2, <1>4, <1>7, <3>2, RowFacts DEF RowsOK
    <3> QED BY <3>1, <3>2
  <2> QED BY <2>1, <2>2, <2>3 DEF RowsOK
<1>10. RecordsOK'
  <2>1. \A x \in returned' : x.id <= served' /\ com'[x.sale] # "none"
    BY <1>1, <1>2, <1>7 DEF RecordsOK, Types, Returned
  <2>2. \A x \in paid' : x.id <= served' /\ Known(x.cust)'
    BY <1>1, <1>2, <1>7 DEF RecordsOK, Types, Paid
  <2>3. ASSUME NEW s \in Sold, Bill[s].cust # NoCustomer PROVE Known(Bill[s].cust)'
    <3>1. Bill[s].cust \in Customer
      BY <2>3, BillFacts DEF Sold
    <3> QED BY <1>2, <1>7, <2>3, <3>1 DEF RecordsOK
  <2> QED BY <1>8, <2>1, <2>2, <2>3 DEF RecordsOK
<1>11. ASSUME NEW k \in Customer PROVE Told(Net(com[k]), Behind(k))'
  <2>1. Behind(k)' = Behind(k)
    BY <1>1, <1>8, BehindKept
  <2>2. Net(com[k])' = Net(com[k])
    <3>1. CASE k = c
      BY <1>4, <3>1
    <3>2. CASE k # c
      BY <1>4, <3>2, RowFacts
    <3> QED BY <3>1, <3>2
  <2> QED BY <1>2, <2>1, <2>2 DEF Booked, Told
<1>12. Own(t)'
  <2>1. \A r \in Row : lock'[r] # t
    BY <1>1 DEF CreditInv, Own, Bare
  <2>2. served' \in Nat
    BY <1>1, <1>2, LockFacts
  <2> QED BY <1>5, <2>1, <2>2, IdleOwn
<1>13. ASSUME NEW u \in Tx, u # t PROVE Own(u)'
  <2>1. Aside(t)
    BY <1>1, <1>4, <1>5, RowFacts DEF Aside
  <2>2. Grows(t)
    BY <1>7 DEF Grows
  <2>3. OldKept(u)'
    <3>1. \A k \in Customer : Known(k) => cur'[k].opening = cur[k].opening \/ Concerns(R(t), k)
      BY <1>4, RowFacts
    <3> QED BY <1>2, <1>5, <1>13, <3>1, OldStays
  <2>4. served' = served /\ tx'[t].at = 0 /\ returned' \cup paid' = returned \cup paid
    BY <1>1, <1>5 DEF Idle
  <2>5. R(t)'.op # "sale"
    BY <1>5, IdleState DEF R
  <2> QED BY <1>13, <2>1, <2>2, <2>3, <2>4, <2>5, OthersKept
<1> QED BY <1>6, <1>9, <1>10, <1>11, <1>12, <1>13 DEF CreditInv, Booked

\* A request refused or cancelled leaves what was committed.
LEMMA FailStep ==
  ASSUME CreditInv, NEW t \in Tx, tx[t].pc # "idle", Fail(t)
  PROVE  CreditInv'
<1>1. /\ com' = com /\ cur' = [r \in Row |-> IF lock[r] = t THEN com[r] ELSE cur[r]]
      /\ lock' = [r \in Row |-> IF lock[r] = t THEN NoTx ELSE lock[r]]
      /\ tx' = [tx EXCEPT ![t] = Idle] /\ Tables
      /\ returned' = returned /\ paid' = paid /\ served' = served
  BY DEF Fail, DB!Rollback, DB!Release, Tables
<1>2. Types /\ RowsOK /\ Own(t)
  BY DEF CreditInv
<1>3. tx'[t] = Idle /\ tx' \in [Tx -> Serving] /\ \A u \in Tx \ {t} : tx'[u] = tx[u]
  BY <1>1, <1>2, IdleState DEF Types
<1>4. \A r \in Row : /\ lock[r] = t => cur'[r] = com[r] /\ lock'[r] = NoTx
                     /\ lock[r] # t => cur'[r] = cur[r] /\ lock'[r] = lock[r]
  BY <1>1
<1>5. Types'
  <2>1. RowsType(cur)'
    <3>1. cur' = [k \in Row |-> cur'[k]]
      BY <1>1
    <3>2. \A k \in Customer : cur'[k] \in Account
      BY <1>2, <1>4, RowFacts DEF Types, RowsType
    <3>3. \A s \in Sale : cur'[s] \in Status
      BY <1>2, <1>4, RowFacts DEF Types, RowsType
    <3>4. \A i \in Item : cur'[i] \in Nat
      BY <1>2, <1>4, RowFacts DEF Types, RowsType
    <3>5. \A p \in Product : cur'[p] \in Int
      BY <1>2, <1>4, RowFacts DEF Types, RowsType
    <3> QED BY <3>1, <3>2, <3>3, <3>4, <3>5 DEF RowsType
  <2>2. lock' \in [Row -> Tx \cup {NoTx}]
    BY <1>1, <1>2 DEF Types
  <2>3. RowsType(com)'
    BY <1>1, <1>2 DEF Types, RowsType
  <2> QED BY <1>1, <1>2, <1>3, <2>1, <2>2, <2>3 DEF Types
<1>6. RowsOK'
  <2>1. \A r \in Row : lock'[r] = NoTx => cur'[r] = com'[r]
    BY <1>1, <1>2, <1>4 DEF RowsOK
  <2>2. \A s \in Sale : com'[s] # "none" => cur'[s] # "none"
    BY <1>1, <1>2, <1>4, RowFacts DEF RowsOK
  <2>3. ASSUME NEW k \in Customer
        PROVE  /\ Known(k)' => cur'[k].state # "none"
               /\ \A a \in {com'[k], cur'[k]} : a.state = "none" => Net(a) = 0
    <3>1. k \in Row /\ (Known(k)' <=> Known(k))
      BY <1>1, RowFacts DEF Known
    <3>2. CASE lock[k] = t
      BY <1>1, <1>2, <1>4, <3>1, <3>2 DEF RowsOK, Known
    <3>3. CASE lock[k] # t
      BY <1>1, <1>2, <1>4, <3>1, <3>3 DEF RowsOK
    <3> QED BY <3>2, <3>3
  <2> QED BY <2>1, <2>2, <2>3 DEF RowsOK
<1>7. RecordsOK' /\ Booked'
  BY <1>1, RecordsStay
<1>8. Own(t)'
  <2>1. \A r \in Row : lock'[r] # t
    BY <1>4, RowFacts
  <2>2. served' \in Nat
    BY <1>1, <1>2, LockFacts
  <2> QED BY <1>3, <2>1, <2>2, IdleOwn
<1>9. ASSUME NEW u \in Tx, u # t PROVE Own(u)'
  <2>1. Aside(t)
    BY <1>1, <1>3, <1>4, RowFacts DEF Aside
  <2>2. Grows(t)
    BY <1>1 DEF Grows, Known
  <2>3. OldKept(u)'
    <3>1. \A k \in Customer : Known(k) => cur'[k].opening = cur[k].opening \/ Concerns(R(t), k)
      BY <1>2, <1>4, RowFacts DEF Own, Holds
    <3> QED BY <1>3, <1>9, <3>1, OldStays
  <2>4. served' = served /\ tx'[t].at = 0 /\ returned' \cup paid' = returned \cup paid
    BY <1>1, <1>3 DEF Idle
  <2>5. R(t)'.op # "sale"
    BY <1>3, IdleState DEF R
  <2> QED BY <1>9, <2>1, <2>2, <2>3, <2>4, <2>5, OthersKept
<1> QED BY <1>5, <1>6, <1>7, <1>8, <1>9 DEF CreditInv

\* A request is taken.
LEMMA ServeStep ==
  ASSUME CreditInv, NEW t \in Tx, NEW r \in Request,
         NEW start \in {"goods", "status", "load"} \cup Single, NEW todo \in Seq(Left),
         Serve(t, r, start, todo), Shape(t)', Found(t)',
         r.op = "sale" => \A u \in Tx : R(u) # r
  PROVE  CreditInv'
<1>1. /\ tx[t].pc = "idle" /\ r \in Desk[t] /\ served < MaxRequests /\ served' = served + 1
      /\ com' = com /\ cur' = cur /\ lock' = lock /\ returned' = returned /\ paid' = paid
  BY DEF Serve, At, rowVars
<1>2. Types /\ RowsOK /\ RecordsOK /\ Booked /\ Bare(t)
  BY DEF CreditInv, Own
<1>3. served \in Nat /\ MaxRequests \in Nat
  BY <1>2, LockFacts, CreditAssumption
<1>4. PICK x : x = [Idle EXCEPT !.pc = start, !.req = r, !.at = served', !.todo = todo]
  OBVIOUS
<1>5. x = [pc |-> start, req |-> r, at |-> served + 1, todo |-> todo, value |-> 0,
           before |-> 0, old |-> 0, match |-> NoCustomer, status |-> "none"]
  BY <1>1, <1>4 DEF Idle
<1>6. x \in Serving /\ x.pc = start /\ x.req = r /\ x.at = served + 1
  <2>1. start \in Steps /\ "none" \in Status
    BY DEF Steps, Single, Status
  <2>2. PICK n \in Nat : n = served + 1
    BY <1>3
  <2> QED BY <1>5, <2>1, <2>2 DEF Serving
<1>7. tx'[t] = x /\ tx' \in [Tx -> Serving] /\ \A u \in Tx \ {t} : tx'[u] = tx[u]
  <2>1. tx' = [tx EXCEPT ![t] = x]
    BY <1>4 DEF Serve
  <2> QED BY <1>2, <1>6, <2>1 DEF Types
<1>8. Types'
  <2>1. served' \in 0 .. MaxRequests
    BY <1>1, <1>3
  <2>2. RowsType(com)' /\ RowsType(cur)'
    BY <1>1, <1>2 DEF Types, RowsType
  <2> QED BY <1>1, <1>2, <1>7, <2>1, <2>2 DEF Types
<1>9. RowsOK'
  BY <1>1, <1>2 DEF RowsOK, Known
<1>10. Sold' = Sold
  BY <1>1 DEF Sold
<1>11. RecordsOK'
  <2>1. \A y \in returned \cup paid : y.id <= served => y.id <= served + 1
    BY <1>2, <1>3 DEF Types, Returned, Paid
  <2> QED BY <1>1, <1>2, <1>10, <2>1 DEF RecordsOK, Known
<1>12. ASSUME NEW c \in Customer PROVE Told(Net(com[c]), Behind(c))'
  <2>1. Behind(c)' = Behind(c) /\ Net(com[c])' = Net(com[c])
    BY <1>1, <1>10, BehindKept
  <2> QED BY <1>2, <2>1 DEF Booked, Told
<1>13. Own(t)'
  <2>1. \A k \in Row : lock'[k] # t
    BY <1>1, <1>2 DEF Bare
  <2>2. tx'[t].pc \notin {"idle", "old", "settle", "cash", "insert", "outstanding", "close", "commit"}
    BY <1>6, <1>7 DEF Single
  <2>3. Numbered(t)'
    <3>1. ASSUME NEW u \in Tx \ {t} PROVE tx'[u].at # served + 1
      <4>1. tx'[u] = tx[u]
        BY <1>7
      <4>2. tx[u].at <= served
        BY DEF CreditInv, Own, Numbered
      <4>3. tx[u].at \in Nat
        BY <1>2, TxFacts
      <4> QED BY <1>3, <4>1, <4>2, <4>3
    <3>2. \A y \in returned \cup paid : y.id # served + 1
      BY <1>2, <1>3 DEF RecordsOK, Types, Returned, Paid
    <3> QED BY <1>1, <1>3, <1>6, <1>7, <3>1, <3>2 DEF Numbered
  <2>4. OldKept(t)' /\ Bare(t)'
    BY <2>1, <2>2 DEF OldKept, Bare, At
  <2>5. SaleHeld(t)'
    BY <2>1, <2>2, RowFacts DEF SaleHeld, At
  <2>6. \A c \in Customer : Holds(t, c)'
    <3>1. \A c \in Customer : Moved(t, c)' = 0
      BY <2>2 DEF Moved, At
    <3> QED BY <2>1, <3>1, RowFacts DEF Holds
  <2> QED BY <2>3, <2>4, <2>5, <2>6 DEF Own
<1>14. ASSUME NEW u \in Tx, u # t PROVE Own(u)'
  <2>1. Aside(t) /\ Grows(t)
    BY <1>1, <1>7 DEF Aside, Grows, Known
  <2>2. OldKept(u)'
    <3>1. OldKept(u) /\ tx'[u] = tx[u]
      BY <1>7, <1>14 DEF CreditInv, Own
    <3> QED BY <1>1, <3>1 DEF OldKept, At, R
  <2>3. tx'[t].at = served + 1 /\ returned' \cup paid' = returned \cup paid
    BY <1>1, <1>6, <1>7
  <2>4. Own(u)'
    <3>1. CASE r.op = "sale"
      <4>1. \A v \in Tx : R(v) # R(t)'
        BY <1>6, <1>7, <3>1 DEF R
      <4> QED BY <1>1, <1>14, <2>1, <2>2, <2>3, <4>1, OthersKept
    <3>2. CASE r.op # "sale"
      BY <1>1, <1>6, <1>7, <1>14, <2>1, <2>2, <2>3, <3>2, OthersKept DEF R
    <3> QED BY <3>1, <3>2
  <2> QED BY <2>4
<1> QED BY <1>8, <1>9, <1>11, <1>12, <1>13, <1>14 DEF CreditInv, Booked

-----------------------------------------------------------------------------
(***************************************************************************)
(* The statements, one lemma each.                                         *)
(***************************************************************************)
\* The session's new notes.
LEMMA Noted ==
  ASSUME Types, NEW t \in Tx, NEW x \in Serving, tx' = [tx EXCEPT ![t] = x],
         x.at = tx[t].at, x.req = tx[t].req
  PROVE  Onward(t) /\ tx'[t] = x /\ R(t)' = R(t) /\ B(t)' = B(t)
<1>1. tx \in [Tx -> Serving]
  BY DEF Types
<1>2. tx'[t] = x /\ tx' \in [Tx -> Serving] /\ \A v \in Tx \ {t} : tx'[v] = tx[v]
  BY <1>1
<1> QED BY <1>2 DEF Onward, R, B

\* The next statement.
LEMMA GotoFacts ==
  ASSUME Types, NEW t \in Tx, NEW s \in Steps, Goto(t, s)
  PROVE  /\ Onward(t) /\ Tables /\ tx'[t].pc = s /\ R(t)' = R(t) /\ B(t)' = B(t)
         /\ tx'[t].todo = tx[t].todo /\ tx'[t].value = tx[t].value /\ tx'[t].before = tx[t].before
         /\ tx'[t].old = tx[t].old /\ tx'[t].match = tx[t].match /\ tx'[t].status = tx[t].status
<1>1. tx[t] \in Serving
  BY TxFacts
<1>2. PICK x : x = [tx[t] EXCEPT !.pc = s]
  OBVIOUS
<1>3. /\ x \in Serving /\ x.pc = s /\ x.at = tx[t].at /\ x.req = tx[t].req /\ x.todo = tx[t].todo
      /\ x.value = tx[t].value /\ x.before = tx[t].before /\ x.old = tx[t].old /\ x.match = tx[t].match
      /\ x.status = tx[t].status
  BY <1>1, <1>2 DEF Serving
<1>4. tx' = [tx EXCEPT ![t] = x] /\ Tables
  BY <1>2 DEF Goto
<1> QED BY <1>3, <1>4, Noted

\* The next line.
LEMMA NextFacts ==
  ASSUME Types, NEW t \in Tx, NEW first \in Steps, NEW last \in Steps, tx[t].todo # <<>>,
         tx' = [tx EXCEPT ![t].todo = Tail(@), ![t].pc = NextPart(t, first, last)]
  PROVE  /\ Onward(t) /\ R(t)' = R(t) /\ B(t)' = B(t)
         /\ (tx'[t].pc = first /\ tx'[t].todo # <<>>) \/ tx'[t].pc = last
         /\ tx[t].todo \in Seq(Part) => tx'[t].todo \in Seq(Part)
         /\ tx'[t].value = tx[t].value /\ tx'[t].old = tx[t].old /\ tx'[t].status = tx[t].status
<1>1. tx[t] \in Serving /\ tx[t].todo \in Seq(Left)
  BY TxFacts
<1>2. PICK q : q = Tail(tx[t].todo)
  OBVIOUS
<1>3. q \in Seq(Left) /\ (tx[t].todo \in Seq(Part) => q \in Seq(Part)) /\ Len(q) = Len(tx[t].todo) - 1
  BY <1>1, <1>2, HeadTailProperties
<1>4. PICK s : s = NextPart(t, first, last)
  OBVIOUS
<1>5. s \in Steps /\ ((s = first /\ q # <<>>) \/ s = last)
  BY <1>1, <1>3, <1>4, EmptySeq DEF NextPart
<1>6. PICK x : x = [tx[t] EXCEPT !.todo = q, !.pc = s]
  OBVIOUS
<1>7. /\ x \in Serving /\ x.pc = s /\ x.todo = q /\ x.at = tx[t].at /\ x.req = tx[t].req
      /\ x.value = tx[t].value /\ x.old = tx[t].old /\ x.status = tx[t].status
  BY <1>1, <1>3, <1>5, <1>6 DEF Serving
<1>8. tx' = [tx EXCEPT ![t] = x]
  BY <1>2, <1>4, <1>6
<1> QED BY <1>3, <1>5, <1>7, <1>8, Noted

\* The first line left.
LEMMA ThisFacts ==
  ASSUME Types, NEW t \in Tx, tx[t].todo # <<>>
  PROVE  /\ This(t).item \in Item /\ This(t).n \in Int
         /\ tx[t].todo \in Seq(Part) => This(t).n \in Nat \ {0}
<1>1. tx[t].todo \in Seq(Left)
  BY TxFacts
<1>2. This(t) \in Left /\ (tx[t].todo \in Seq(Part) => This(t) \in Part)
  BY <1>1, HeadTailProperties DEF This
<1> QED BY <1>2 DEF Left, Part

\* Steps at which nothing is moved that is not recorded.
Quiet == Steps \ {"insert", "outstanding", "close", "settle", "cash", "commit"}

\* At a step that moves nothing unrecorded, a transaction accounts for nothing.
LEMMA QuietFacts ==
  ASSUME NEW t \in Tx, NEW c \in Customer
  PROVE  /\ tx[t].pc \in Quiet => Moved(t, c) = 0
         /\ tx'[t].pc \in Quiet => Moved(t, c)' = 0
BY DEF Moved, Quiet, At

\* A line of a sale takes its goods off the shelf; without enough of them the sale ends.
LEMMA GoodsStep ==
  ASSUME CreditInv, NEW t \in Tx, Goods(t)
  PROVE  CreditInv'
<1>1. tx[t].pc = "goods" /\ Types /\ Shape(t)
  BY DEF Goods, At, CreditInv, Own
<1>2. R(t).op = "sale" /\ tx[t].todo # <<>> /\ R(t) \in Desk[t]
  BY <1>1 DEF Shape, At
<1>3. This(t).item \in Item /\ This(t).n \in Int
  BY <1>1, <1>2, ThisFacts
<1>4. PICK p \in Product : p = LineOf[This(t).item].product
  BY <1>3, LineFacts
<1>5. CASE DB!Visible(t, p) < This(t).n
  <2>1. Fail(t)
    BY <1>4, <1>5 DEF Goods
  <2> QED BY <1>1, <2>1, FailStep
<1>6. CASE ~(DB!Visible(t, p) < This(t).n)
  <2>1. /\ DB!Write(t, p, cur[p] - This(t).n) /\ Tables
        /\ tx' = [tx EXCEPT ![t].todo = Tail(@), ![t].pc = NextPart(t, "goods", "tender")]
    BY <1>4, <1>6 DEF Goods
  <2>2. "goods" \in Steps /\ "tender" \in Steps
    BY DEF Steps
  <2>3. /\ Onward(t) /\ R(t)' = R(t) /\ B(t)' = B(t)
        /\ (tx'[t].pc = "goods" /\ tx'[t].todo # <<>>) \/ tx'[t].pc = "tender"
    BY <1>1, <1>2, <2>1, <2>2, NextFacts
  <2>4. p \in Row /\ p \notin Customer \cup Sale \cup Item
    BY RowFacts
  <2>5. cur[p] - This(t).n \in Int
    BY <1>1, <1>3 DEF Types, RowsType
  <2>6. Fits(t, p, cur[p] - This(t).n)
    BY <2>4, <2>5 DEF Fits
  <2>7. Shape(t)' /\ OldKept(t)'
    BY <1>2, <2>3 DEF Shape, OldKept, At, Returns, Repayments
  <2>8. \A c \in Customer : Moved(t, c)' = Moved(t, c)
    BY <1>1, <2>3, QuietFacts DEF Quiet, Steps
  <2>9. tx'[t].pc \notin {"idle", "commit"} \cup Single
    BY <2>3 DEF Single
  <2> QED BY <1>1, <2>1, <2>3, <2>4, <2>6, <2>7, <2>8, <2>9, WriteStep
<1> QED BY <1>5, <1>6

\* The tender is checked: a credit or an advance needs a customer with a phone.
LEMMA CheckTenderStep ==
  ASSUME CreditInv, NEW t \in Tx, CheckTender(t)
  PROVE  CreditInv'
<1>1. tx[t].pc = "tender" /\ Types /\ Shape(t)
  BY DEF CheckTender, At, CreditInv, Own
<1>2. R(t).op = "sale" /\ R(t) \in Desk[t] /\ R(t).sale \in Sale
  BY <1>1, Served, ReqFacts DEF Shape, At
<1>3. PICK b : b = B(t)
  OBVIOUS
<1>4. /\ b.cust \in Customer \cup {NoCustomer} /\ b.account \in Nat /\ Kept(b) \in Nat
      /\ Kept(b) > 0 => b.cust # NoCustomer
  BY <1>2, <1>3, BillFacts DEF B
<1>5. PICK available : available = IF b.account > 0 /\ b.cust # NoCustomer
                                     THEN DB!Visible(t, b.cust).limit - DB!Visible(t, b.cust).out ELSE 0
  OBVIOUS
<1>6. CASE ~Accepted(b, available)
  <2>1. Fail(t)
    BY <1>3, <1>5, <1>6 DEF CheckTender
  <2> QED BY <1>1, <2>1, FailStep
<1>7. CASE Accepted(b, available)
  <2> DEFINE s == IF b.account > 0 \/ Kept(b) > 0 THEN "charge" ELSE "insert"
  <2>1. Goto(t, s) /\ UNCHANGED rowVars
    BY <1>3, <1>5, <1>7 DEF CheckTender
  <2>2. s \in Steps
    BY DEF Steps
  <2>3. /\ Onward(t) /\ Tables /\ tx'[t].pc = s /\ R(t)' = R(t) /\ B(t)' = B(t)
    BY <1>1, <2>1, <2>2, GotoFacts
  <2>4. s = "charge" => b.cust # NoCustomer
    BY <1>4, <1>7 DEF Accepted
  <2>5. s = "insert" => OnAccount(b) = 0
    BY <1>4 DEF OnAccount
  <2>6. Shape(t)' /\ OldKept(t)'
    BY <1>2, <1>3, <2>3, <2>4, <2>5 DEF Shape, OldKept, At, Returns, Repayments
  <2>7. ASSUME NEW c \in Customer PROVE Moved(t, c)' = Moved(t, c)
    <3>1. Moved(t, c) = 0
      BY <1>1, QuietFacts DEF Quiet, Steps
    <3>2. Moved(t, c)' = 0
      BY <1>2, <1>3, <2>3, <2>5 DEF Moved, At, Returns, Repayments
    <3> QED BY <3>1, <3>2
  <2>8. tx'[t].pc \notin {"idle", "commit"} \cup Single
    BY <2>3 DEF Single
  <2> QED BY <1>1, <2>1, <2>3, <2>6, <2>7, <2>8, ReadStep
<1> QED BY <1>6, <1>7

\* The balance takes what the sale puts on account, and the sale is still to be inserted.
LEMMA ChargeStep ==
  ASSUME CreditInv, NEW t \in Tx, Charge(t)
  PROVE  CreditInv'
<1>1. tx[t].pc = "charge" /\ Types /\ Shape(t)
  BY DEF Charge, At, CreditInv, Own
<1>2. R(t).op = "sale" /\ R(t) \in Desk[t] /\ R(t).sale \in Sale /\ B(t).cust # NoCustomer
  BY <1>1, Served, ReqFacts DEF Shape, At
<1>3. PICK c \in Customer : c = B(t).cust
  BY <1>2, BillFacts DEF B
<1>4. PICK d \in Int : d = OnAccount(B(t))
  BY <1>2, BillFacts DEF B
<1>5. PICK v : v = AddBalance(cur[c], d)
  OBVIOUS
<1>6. cur[c] \in Account /\ v \in Account /\ Net(v) = Net(cur[c]) + d /\ v.state = cur[c].state
  BY <1>1, <1>5, AddBalanceFacts DEF Types, RowsType
<1>7. DB!Write(t, c, v) /\ Goto(t, "insert")
  BY <1>3, <1>4, <1>5 DEF Charge
<1>8. "insert" \in Steps
  BY DEF Steps
<1>9. Onward(t) /\ Tables /\ tx'[t].pc = "insert" /\ R(t)' = R(t) /\ B(t)' = B(t)
  BY <1>1, <1>7, <1>8, GotoFacts
<1>10. ASSUME NEW k \in Customer PROVE Moved(t, k) = 0 /\ Moved(t, k)' = IF k = c THEN d ELSE 0
  <2>1. Moved(t, k) = 0
    BY <1>1, QuietFacts DEF Quiet, Steps
  <2>2. Moved(t, k)' = IF k = c THEN d ELSE 0
    BY <1>2, <1>3, <1>4, <1>9 DEF Moved, At, Returns, Repayments
  <2> QED BY <2>1, <2>2
<1>11. Fits(t, c, v)
  <2>1. c \notin Sale \cup Item \cup Product
    BY RowFacts
  <2>2. v.state = "none" => Net(v) = 0
    <3>1. Known(c) /\ (Known(c) => cur[c].state # "none")
      BY <1>1, <1>2, <1>3 DEF CreditInv, Own, Found, RowsOK, At
    <3> QED BY <1>6, <3>1
  <2>3. Concerns(R(t), c)
    BY <1>2, <1>3 DEF Concerns, B
  <2>4. Told(Net(v), Net(cur[c]) + (Moved(t, c)' - Moved(t, c)))
    <3>1. PICK n \in Int : n = Net(cur[c])
      BY <1>6, AccountFacts
    <3> QED BY <1>6, <1>10, <3>1 DEF Told
  <2> QED BY <1>6, <2>1, <2>2, <2>3, <2>4 DEF Fits
<1>12. Shape(t)' /\ OldKept(t)'
  BY <1>2, <1>9 DEF Shape, OldKept, At, Returns, Repayments
<1>13. c \in Row /\ tx'[t].pc \notin {"idle", "commit"} \cup Single
  BY <1>9, RowFacts DEF Single
<1>14. (\A k \in Customer \ {c} : Moved(t, k)' = Moved(t, k)) /\ Moved(t, c)' \in Int
  BY <1>10
<1> QED BY <1>1, <1>7, <1>9, <1>11, <1>12, <1>13, <1>14, WriteStep

\* The sale joins the documents of its customer: what was charged is now explained.
LEMMA InsertSaleStep ==
  ASSUME CreditInv, NEW t \in Tx, InsertSale(t)
  PROVE  CreditInv'
<1>1. tx[t].pc = "insert" /\ Types /\ Shape(t)
  BY DEF InsertSale, At, CreditInv, Own
<1>2. R(t).op = "sale" /\ R(t) \in Desk[t] /\ R(t).sale \in Sale
  BY <1>1, Served, ReqFacts DEF Shape, At
<1>3. PICK s \in Sale : s = R(t).sale
  BY <1>2
<1>4. PICK v \in {"credit", "completed"} : v = IF B(t).account > 0 THEN "credit" ELSE "completed"
  OBVIOUS
<1>5. DB!Write(t, s, v) /\ Goto(t, "commit")
  BY <1>3, <1>4 DEF InsertSale
<1>6. "commit" \in Steps
  BY DEF Steps
<1>7. Onward(t) /\ Tables /\ tx'[t].pc = "commit" /\ R(t)' = R(t) /\ B(t)' = B(t)
  BY <1>1, <1>5, <1>6, GotoFacts
<1>8. Fits(t, s, v)
  <2>1. s \notin Customer \cup Item \cup Product
    BY RowFacts
  <2> QED BY <1>2, <1>3, <2>1 DEF Fits, Status
<1>9. Shape(t)' /\ OldKept(t)'
  BY <1>1, <1>2, <1>7 DEF Shape, OldKept, At, Returns, Repayments
<1>10. \A c \in Customer : Moved(t, c)' = Moved(t, c)
  BY <1>1, <1>2, <1>7 DEF Moved, At, Returns, Repayments
<1>11. s \in Row /\ s \notin Customer /\ tx'[t].pc \notin {"idle"} \cup Single
  BY <1>7, RowFacts DEF Single
<1> QED BY <1>1, <1>3, <1>5, <1>7, <1>8, <1>9, <1>10, <1>11, WriteStep

\* A return reads its sale, and ends if it is cancelled.
LEMMA FindSaleStep ==
  ASSUME CreditInv, NEW t \in Tx, FindSale(t)
  PROVE  CreditInv'
<1>1. tx[t].pc = "status" /\ Types /\ Shape(t) /\ SaleHeld(t)
  BY DEF FindSale, At, CreditInv, Own
<1>2. R(t).op \in Returns /\ R(t) \in Desk[t] /\ R(t) \in Request
  BY <1>1, Served DEF Shape, At
<1>3. PICK s \in Sale : s = R(t).sale
  BY <1>2, ReqFacts
<1>4. PICK refused : refused = {"none", "returned"}
                               \cup (IF R(t).op = "return" THEN {"partially_returned"} ELSE {})
  OBVIOUS
<1>5. CASE DB!Visible(t, s) \in refused
  <2>1. Fail(t)
    BY <1>3, <1>4, <1>5 DEF FindSale
  <2> QED BY <1>1, <2>1, FailStep
<1>6. CASE DB!Visible(t, s) \notin refused
  <2> DEFINE q == IF R(t).op = "return" THEN "items" ELSE "find"
  <2>1. Goto(t, q) /\ UNCHANGED rowVars
    BY <1>3, <1>4, <1>6 DEF FindSale
  <2>2. q \in Steps
    BY DEF Steps
  <2>3. /\ Onward(t) /\ Tables /\ tx'[t].pc = q /\ R(t)' = R(t) /\ B(t)' = B(t)
        /\ tx'[t].todo = tx[t].todo
    BY <1>1, <2>1, <2>2, GotoFacts
  <2>4. com[s] # "none"
    <3> SUFFICES ASSUME com[s] = "none" PROVE FALSE
      OBVIOUS
    <3>1. DB!Visible(t, s) # "none"
      BY <1>4, <1>6
    <3>2. lock[s] = t
      BY <3>1 DEF DB!Visible
    <3>3. R(t).op = "sale"
      BY <1>1, <3>2 DEF SaleHeld
    <3> QED BY <1>2, <3>3 DEF Returns
  <2>5. Shape(t)' /\ OldKept(t)'
    BY <1>1, <1>2, <2>3 DEF Shape, OldKept, At, Returns, Repayments
  <2>6. \A c \in Customer : Moved(t, c)' = Moved(t, c)
    BY <1>1, <2>3, QuietFacts DEF Quiet, Steps
  <2>7. tx'[t].pc \notin {"idle", "commit"} \cup Single
    BY <2>3 DEF Single
  <2> QED BY <1>1, <1>3, <2>1, <2>3, <2>4, <2>5, <2>6, <2>7, ReadStep
<1> QED BY <1>5, <1>6

\* A full return takes every line with what is left of it.
LEMMA FindItemsStep ==
  ASSUME CreditInv, NEW t \in Tx, FindItems(t)
  PROVE  CreditInv'
<1>1. tx[t].pc = "items" /\ Types /\ Shape(t)
  BY DEF FindItems, At, CreditInv, Own
<1>2. R(t).op = "return" /\ R(t) \in Desk[t] /\ R(t).sale \in Sale
  BY <1>1, Served, ReqFacts DEF Shape, At, Returns
<1>3. PICK lines \in Seq(Item) : lines = Lines(R(t).sale) /\ lines # <<>>
  BY <1>2, BillFacts DEF Lines
<1>4. PICK q : q = [k \in DOMAIN lines |-> [item |-> lines[k], n |-> Unreturned(t, lines[k])]]
  OBVIOUS
<1>5. q \in Seq(Left) /\ q # <<>>
  <2>1. ASSUME NEW k \in DOMAIN lines PROVE q[k] \in Left
    <3>1. lines[k] \in Item
      BY <1>3
    <3>2. PICK i \in Item : i = lines[k]
      BY <3>1
    <3>3. Unreturned(t, i) \in Int
      <4>1. PICK v \in Nat : v = DB!Visible(t, i)
        BY <1>1 DEF DB!Visible, Types, RowsType
      <4>2. PICK m \in Nat : m = LineOf[i].qty
        BY LineFacts
      <4> QED BY <4>1, <4>2 DEF Unreturned
    <3> QED BY <1>4, <3>2, <3>3 DEF Left
  <2>2. q \in [1 .. Len(lines) -> Left]
    BY <1>3, <1>4, <2>1
  <2>3. Len(lines) \in Nat \ {0}
    BY <1>3, EmptySeq, LenProperties
  <2>4. q \in Seq(Left)
    BY <2>2, <2>3
  <2>5. Len(q) = Len(lines)
    BY <2>2, <2>3, <2>4, LenProperties
  <2> QED BY <2>3, <2>4, <2>5, EmptySeq
<1>6. PICK x : x = [tx[t] EXCEPT !.todo = q, !.pc = "restock"]
  OBVIOUS
<1>7. x \in Serving /\ x.pc = "restock" /\ x.todo = q /\ x.at = tx[t].at /\ x.req = tx[t].req
  <2>1. tx[t] \in Serving /\ "restock" \in Steps
    BY <1>1, TxFacts DEF Steps
  <2> QED BY <1>5, <1>6, <2>1 DEF Serving
<1>8. tx' = [tx EXCEPT ![t] = x] /\ UNCHANGED rowVars /\ Tables
  BY <1>3, <1>4, <1>6 DEF FindItems
<1>9. Onward(t) /\ tx'[t] = x /\ R(t)' = R(t) /\ B(t)' = B(t)
  BY <1>1, <1>7, <1>8, Noted
<1>10. Shape(t)' /\ OldKept(t)'
  BY <1>2, <1>5, <1>7, <1>9 DEF Shape, OldKept, At, Returns, Repayments
<1>11. \A c \in Customer : Moved(t, c)' = Moved(t, c)
  BY <1>1, <1>7, <1>9, QuietFacts DEF Quiet, Steps
<1>12. tx'[t].pc \notin {"idle", "commit"} \cup Single
  BY <1>7, <1>9 DEF Single
<1> QED BY <1>1, <1>8, <1>9, <1>10, <1>11, <1>12, ReadStep

\* A partial return reads the line of its next part.
LEMMA FindItemStep ==
  ASSUME CreditInv, NEW t \in Tx, FindItem(t)
  PROVE  CreditInv'
<1>1. tx[t].pc = "find" /\ Types /\ Shape(t)
  BY DEF FindItem, At, CreditInv, Own
<1>2. R(t).op = "partial" /\ R(t) \in Desk[t]
  BY <1>1 DEF Shape, At
<1>3. CASE Fail(t)
  BY <1>1, <1>3, FailStep
<1>4. CASE Goto(t, "take") /\ UNCHANGED rowVars
  <2>1. "take" \in Steps
    BY DEF Steps
  <2>2. /\ Onward(t) /\ Tables /\ tx'[t].pc = "take" /\ R(t)' = R(t) /\ B(t)' = B(t)
        /\ tx'[t].todo = tx[t].todo
    BY <1>1, <1>4, <2>1, GotoFacts
  <2>3. Shape(t)' /\ OldKept(t)'
    BY <1>1, <1>2, <2>2 DEF Shape, OldKept, At, Returns, Repayments
  <2>4. \A c \in Customer : Moved(t, c)' = Moved(t, c)
    BY <1>1, <2>2, QuietFacts DEF Quiet, Steps
  <2>5. tx'[t].pc \notin {"idle", "commit"} \cup Single
    BY <2>2 DEF Single
  <2> QED BY <1>1, <1>4, <2>2, <2>3, <2>4, <2>5, ReadStep
<1> QED BY <1>3, <1>4 DEF FindItem

\* A partial return marks a quantity returned and adds its refund.
LEMMA AddReturnedQtyStep ==
  ASSUME CreditInv, NEW t \in Tx, AddReturnedQty(t)
  PROVE  CreditInv'
<1>1. tx[t].pc = "take" /\ Types /\ Shape(t)
  BY DEF AddReturnedQty, At, CreditInv, Own
<1>2. R(t).op = "partial" /\ R(t) \in Desk[t] /\ tx[t].todo # <<>> /\ tx[t].todo \in Seq(Part)
  BY <1>1 DEF Shape, At
<1>3. PICK i \in Item : i = This(t).item
  BY <1>1, <1>2, ThisFacts
<1>4. PICK n \in Nat \ {0} : n = This(t).n
  BY <1>1, <1>2, ThisFacts
<1>5. CASE n > Unreturned(t, i)
  <2>1. Fail(t)
    BY <1>3, <1>4, <1>5 DEF AddReturnedQty
  <2> QED BY <1>1, <2>1, FailStep
<1>6. CASE ~(n > Unreturned(t, i))
  <2>1. PICK m \in Nat : m = tx[t].value + LineRefund(i, n)
    <3>1. PICK v \in Nat : v = tx[t].value
      BY <1>1, TxFacts
    <3>2. PICK w \in Nat : w = LineRefund(i, n)
      BY LineFacts
    <3> QED BY <3>1, <3>2
  <2>2. /\ DB!Write(t, i, cur[i] + n) /\ Tables
        /\ tx' = [tx EXCEPT ![t].pc = "restock", ![t].value = @ + LineRefund(i, n)]
    BY <1>3, <1>4, <1>6 DEF AddReturnedQty
  <2>3. PICK x : x = [tx[t] EXCEPT !.pc = "restock", !.value = m]
    OBVIOUS
  <2>4. tx' = [tx EXCEPT ![t] = x]
    BY <2>1, <2>2, <2>3
  <2>5. x \in Serving /\ x.pc = "restock" /\ x.todo = tx[t].todo /\ x.at = tx[t].at /\ x.req = tx[t].req
    <3>1. tx[t] \in Serving /\ "restock" \in Steps
      BY <1>1, TxFacts DEF Steps
    <3> QED BY <2>3, <3>1 DEF Serving
  <2>6. Onward(t) /\ tx'[t] = x /\ R(t)' = R(t) /\ B(t)' = B(t)
    BY <1>1, <2>4, <2>5, Noted
  <2>7. Fits(t, i, cur[i] + n)
    <3>1. i \notin Customer \cup Sale \cup Product
      BY RowFacts
    <3>2. cur[i] + n \in Nat
      BY <1>1 DEF Types, RowsType
    <3> QED BY <3>1, <3>2 DEF Fits
  <2>8. Shape(t)' /\ OldKept(t)'
    BY <1>2, <2>5, <2>6 DEF Shape, OldKept, At, Returns, Repayments
  <2>9. \A c \in Customer : Moved(t, c)' = Moved(t, c)
    BY <1>1, <2>5, <2>6, QuietFacts DEF Quiet, Steps
  <2>10. i \in Row /\ i \notin Customer /\ tx'[t].pc \notin {"idle", "commit"} \cup Single
    BY <2>5, <2>6, RowFacts DEF Single
  <2> QED BY <1>1, <2>2, <2>6, <2>7, <2>8, <2>9, <2>10, WriteStep
<1> QED BY <1>5, <1>6

\* The goods of a part go back on the shelf, or its line is passed over.
LEMMA RestockStep ==
  ASSUME CreditInv, NEW t \in Tx, Restock(t)
  PROVE  CreditInv'
<1>1. tx[t].pc = "restock" /\ Types /\ Shape(t)
  BY DEF Restock, At, CreditInv, Own
<1>2. R(t).op \in Returns /\ R(t) \in Desk[t] /\ tx[t].todo # <<>>
  BY <1>1 DEF Shape, At
<1>3. PICK p \in Product : p = LineOf[This(t).item].product
  BY <1>1, <1>2, LineFacts, ThisFacts
<1>4. /\ Onward(t) /\ Tables /\ R(t)' = R(t) /\ B(t)' = B(t)
      /\ R(t).op = "partial" => tx'[t].todo \in Seq(Part)
      /\ \/ tx'[t].pc = "mark" /\ R(t).op = "return" /\ tx'[t].todo # <<>>
         \/ tx'[t].pc = "restock" /\ R(t).op = "return" /\ tx'[t].todo # <<>>
         \/ tx'[t].pc = "find" /\ R(t).op = "partial" /\ tx'[t].todo # <<>>
         \/ tx'[t].pc = "credit"
  <2>1. CASE R(t).op = "return" /\ This(t).n > 0
    <3>1. Goto(t, "mark") /\ "mark" \in Steps
      BY <2>1 DEF Restock, Steps
    <3>2. Onward(t) /\ Tables /\ tx'[t].pc = "mark" /\ R(t)' = R(t) /\ B(t)' = B(t) /\ tx'[t].todo = tx[t].todo
      BY <1>1, <3>1, GotoFacts
    <3> QED BY <1>2, <2>1, <3>2
  <2>2. CASE ~(R(t).op = "return" /\ This(t).n > 0)
    <3>1. PICK first \in {"restock", "find"} : first = IF R(t).op = "return" THEN "restock" ELSE "find"
      OBVIOUS
    <3>2. tx' = [tx EXCEPT ![t].todo = Tail(@), ![t].pc = NextPart(t, first, "credit")] /\ Tables
      BY <2>2, <3>1 DEF Restock
    <3>3. first \in Steps /\ "credit" \in Steps
      BY DEF Steps
    <3>4. /\ Onward(t) /\ R(t)' = R(t) /\ B(t)' = B(t)
          /\ (tx'[t].pc = first /\ tx'[t].todo # <<>>) \/ tx'[t].pc = "credit"
          /\ tx[t].todo \in Seq(Part) => tx'[t].todo \in Seq(Part)
      BY <1>1, <1>2, <3>2, <3>3, NextFacts
    <3>5. R(t).op = "partial" => tx[t].todo \in Seq(Part)
      BY <1>1 DEF Shape
    <3>6. first = "restock" => R(t).op = "return"
      BY <3>1
    <3>7. first = "find" => R(t).op = "partial"
      BY <1>2, <3>1 DEF Returns
    <3> QED BY <3>1, <3>2, <3>4, <3>5, <3>6, <3>7
  <2> QED BY <2>1, <2>2
<1>5. Shape(t)' /\ OldKept(t)'
  BY <1>2, <1>4 DEF Shape, OldKept, At, Returns, Repayments
<1>6. \A c \in Customer : Moved(t, c)' = Moved(t, c)
  BY <1>1, <1>4, QuietFacts DEF Quiet, Steps
<1>7. tx'[t].pc \notin {"idle", "commit"} \cup Single
  BY <1>4 DEF Single
<1>8. CASE This(t).n > 0
  <2>1. DB!Write(t, p, cur[p] + This(t).n)
    BY <1>3, <1>8 DEF Restock
  <2>2. Fits(t, p, cur[p] + This(t).n)
    <3>1. p \notin Customer \cup Sale \cup Item
      BY RowFacts
    <3>2. cur[p] + This(t).n \in Int
      <4>1. PICK n \in Int : n = This(t).n
        BY <1>1, <1>2, ThisFacts
      <4>2. PICK m \in Int : m = cur[p]
        BY <1>1 DEF Types, RowsType
      <4> QED BY <4>1, <4>2
    <3> QED BY <3>1, <3>2 DEF Fits
  <2>3. p \in Row /\ p \notin Customer
    BY RowFacts
  <2> QED BY <1>1, <1>4, <1>5, <1>6, <1>7, <2>1, <2>2, <2>3, WriteStep
<1>9. CASE ~(This(t).n > 0)
  <2>1. UNCHANGED rowVars
    BY <1>9 DEF Restock
  <2> QED BY <1>1, <1>4, <1>5, <1>6, <1>7, <2>1, ReadStep
<1> QED BY <1>8, <1>9

\* A full return marks its line returned in full.
LEMMA MarkItemStep ==
  ASSUME CreditInv, NEW t \in Tx, MarkItem(t)
  PROVE  CreditInv'
<1>1. tx[t].pc = "mark" /\ Types /\ Shape(t)
  BY DEF MarkItem, At, CreditInv, Own
<1>2. R(t).op = "return" /\ R(t) \in Desk[t] /\ tx[t].todo # <<>>
  BY <1>1 DEF Shape, At
<1>3. PICK i \in Item : i = This(t).item
  BY <1>1, <1>2, ThisFacts
<1>4. PICK q \in Nat : q = LineOf[i].qty
  BY LineFacts
<1>5. /\ DB!Write(t, i, q) /\ Tables
      /\ tx' = [tx EXCEPT ![t].todo = Tail(@), ![t].pc = NextPart(t, "restock", "credit")]
  BY <1>3, <1>4 DEF MarkItem
<1>6. "restock" \in Steps /\ "credit" \in Steps
  BY DEF Steps
<1>7. /\ Onward(t) /\ R(t)' = R(t) /\ B(t)' = B(t)
      /\ (tx'[t].pc = "restock" /\ tx'[t].todo # <<>>) \/ tx'[t].pc = "credit"
  BY <1>1, <1>2, <1>5, <1>6, NextFacts
<1>8. Fits(t, i, q)
  <2>1. i \notin Customer \cup Sale \cup Product
    BY RowFacts
  <2> QED BY <2>1 DEF Fits
<1>9. Shape(t)' /\ OldKept(t)'
  BY <1>2, <1>7 DEF Shape, OldKept, At, Returns, Repayments
<1>10. \A c \in Customer : Moved(t, c)' = Moved(t, c)
  BY <1>1, <1>7, QuietFacts DEF Quiet, Steps
<1>11. i \in Row /\ i \notin Customer /\ tx'[t].pc \notin {"idle", "commit"} \cup Single
  BY <1>7, RowFacts DEF Single
<1> QED BY <1>1, <1>5, <1>7, <1>8, <1>9, <1>10, <1>11, WriteStep

\* The balance gives back what the return takes off it, which its document will explain.
LEMMA UnchargeStep ==
  ASSUME CreditInv, NEW t \in Tx, Uncharge(t)
  PROVE  CreditInv'
<1>1. tx[t].pc = "credit" /\ Types /\ Shape(t)
  BY DEF Uncharge, At, CreditInv, Own
<1>2. R(t).op \in Returns /\ R(t) \in Desk[t] /\ R(t).sale \in Sale
  BY <1>1, Served, ReqFacts DEF Shape, At
<1>3. PICK d \in Nat : d = CreditReduction(t)
  BY <1>1, <1>2, ReductionFacts
<1>4. /\ Onward(t) /\ Tables /\ R(t)' = R(t) /\ B(t)' = B(t) /\ tx'[t].value = tx[t].value
      /\ tx'[t].todo = tx[t].todo
      /\ \/ tx'[t].pc = "outstanding" /\ R(t).op = "partial"
         \/ tx'[t].pc = "close" /\ R(t).op = "return" /\ tx'[t].status = "returned"
  <2>1. CASE R(t).op = "partial"
    <3>1. Goto(t, "outstanding") /\ "outstanding" \in Steps
      BY <2>1 DEF Uncharge, Steps
    <3> QED BY <1>1, <2>1, <3>1, GotoFacts
  <2>2. CASE R(t).op = "return"
    <3>1. PICK x : x = [tx[t] EXCEPT !.pc = "close", !.status = "returned"]
      OBVIOUS
    <3>2. tx' = [tx EXCEPT ![t] = x] /\ Tables
      BY <2>2, <3>1 DEF Uncharge
    <3>3. /\ x \in Serving /\ x.pc = "close" /\ x.status = "returned" /\ x.at = tx[t].at /\ x.req = tx[t].req
          /\ x.value = tx[t].value /\ x.todo = tx[t].todo
      <4>1. tx[t] \in Serving /\ "close" \in Steps /\ "returned" \in Status
        BY <1>1, TxFacts DEF Steps, Status
      <4> QED BY <3>1, <4>1 DEF Serving
    <3> QED BY <1>1, <2>2, <3>2, <3>3, Noted
  <2> QED BY <1>2, <2>1, <2>2 DEF Returns
<1>5. Shape(t)' /\ OldKept(t)'
  BY <1>1, <1>2, <1>4 DEF Shape, OldKept, At, Returns, Repayments
<1>6. ASSUME NEW k \in Customer PROVE Moved(t, k) = 0 /\ Moved(t, k)' = IF B(t).cust = k THEN 0 - d ELSE 0
  <2>1. Moved(t, k) = 0
    BY <1>1, QuietFacts DEF Quiet, Steps
  <2>2. CreditReduction(t)' = d
    BY <1>3, <1>4 DEF CreditReduction
  <2>3. Moved(t, k)' = IF B(t).cust = k THEN 0 - d ELSE 0
    BY <1>2, <1>4, <2>2 DEF Moved, At, Returns, Repayments
  <2> QED BY <2>1, <2>3
<1>7. tx'[t].pc \notin {"idle", "commit"} \cup Single
  BY <1>4 DEF Single
<1>8. CASE B(t).cust # NoCustomer /\ Owed(R(t).sale) > 0
  <2>1. PICK c \in Customer : c = B(t).cust
    BY <1>2, <1>8, BillFacts DEF B
  <2>2. PICK m \in Int : m = 0 - d
    OBVIOUS
  <2>3. PICK v : v = AddBalance(cur[c], m)
    OBVIOUS
  <2>4. cur[c] \in Account /\ v \in Account /\ Net(v) = Net(cur[c]) + m /\ v.state = cur[c].state
    BY <1>1, <2>3, AddBalanceFacts DEF Types, RowsType
  <2>5. DB!Write(t, c, v)
    <3>1. -d = m
      BY <2>2
    <3> QED BY <1>3, <1>8, <2>1, <2>3, <3>1 DEF Uncharge
  <2>6. Fits(t, c, v)
    <3>1. c \notin Sale \cup Item \cup Product
      BY RowFacts
    <3>2. cur[c].state # "none"
      <4>1. com[R(t).sale] # "none"
        BY <1>1, <1>2 DEF CreditInv, Own, Found, At
      <4>2. R(t).sale \in Sold
        BY <1>2, <4>1 DEF Sold
      <4>3. Known(c)
        BY <1>8, <2>1, <4>2 DEF CreditInv, RecordsOK, B
      <4> QED BY <4>3 DEF CreditInv, RowsOK
    <3>3. Concerns(R(t), c)
      BY <1>2, <2>1 DEF Concerns, B
    <3>4. Told(Net(v), Net(cur[c]) + (Moved(t, c)' - Moved(t, c)))
      <4>1. PICK n \in Int : n = Net(cur[c])
        BY <2>4, AccountFacts
      <4>2. Moved(t, c)' = m /\ Moved(t, c) = 0
        BY <1>6, <2>1, <2>2
      <4> QED BY <2>4, <4>1, <4>2 DEF Told
    <3> QED BY <2>4, <3>1, <3>2, <3>3, <3>4 DEF Fits
  <2>7. c \in Row
    BY RowFacts
  <2>8. (\A k \in Customer \ {c} : Moved(t, k)' = Moved(t, k)) /\ Moved(t, c)' \in Int
    BY <1>6, <2>1
  <2> QED BY <1>1, <1>4, <1>5, <1>7, <2>5, <2>6, <2>7, <2>8, WriteStep
<1>9. CASE ~(B(t).cust # NoCustomer /\ Owed(R(t).sale) > 0)
  <2>1. UNCHANGED rowVars
    BY <1>9 DEF Uncharge
  <2>2. d = 0
    BY <1>1, <1>2, <1>3, <1>9, ReductionFacts
  <2>3. \A c \in Customer : Moved(t, c)' = Moved(t, c)
    BY <1>6, <2>2
  <2> QED BY <1>1, <1>4, <1>5, <1>7, <2>1, <2>3, ReadStep
<1> QED BY <1>8, <1>9

\* A return looks for lines that are not wholly back yet.
LEMMA OutstandingItemsStep ==
  ASSUME CreditInv, NEW t \in Tx, OutstandingItems(t)
  PROVE  CreditInv'
<1>1. tx[t].pc = "outstanding" /\ Types /\ Shape(t)
  BY DEF OutstandingItems, At, CreditInv, Own
<1>2. R(t).op = "partial" /\ R(t) \in Desk[t]
  BY <1>1 DEF Shape, At
<1>3. PICK s \in {"returned", "partially_returned"} :
        s = IF Outstanding(t, R(t).sale) = {} THEN "returned" ELSE "partially_returned"
  OBVIOUS
<1>4. PICK x : x = [tx[t] EXCEPT !.pc = "close", !.status = s]
  OBVIOUS
<1>5. tx' = [tx EXCEPT ![t] = x] /\ Tables /\ UNCHANGED rowVars
  BY <1>3, <1>4 DEF OutstandingItems
<1>6. /\ x \in Serving /\ x.pc = "close" /\ x.status = s /\ x.at = tx[t].at /\ x.req = tx[t].req
      /\ x.value = tx[t].value /\ x.todo = tx[t].todo
  <2>1. tx[t] \in Serving /\ "close" \in Steps /\ s \in Status
    BY <1>1, TxFacts DEF Steps, Status
  <2> QED BY <1>4, <2>1 DEF Serving
<1>7. Onward(t) /\ tx'[t] = x /\ R(t)' = R(t) /\ B(t)' = B(t)
  BY <1>1, <1>5, <1>6, Noted
<1>8. Shape(t)' /\ OldKept(t)'
  BY <1>1, <1>2, <1>6, <1>7 DEF Shape, OldKept, At, Returns, Repayments
<1>9. \A c \in Customer : Moved(t, c)' = Moved(t, c)
  <2>1. CreditReduction(t)' = CreditReduction(t)
    BY <1>6, <1>7 DEF CreditReduction
  <2> QED BY <1>1, <1>2, <1>6, <1>7, <2>1 DEF Moved, At, Returns, Repayments
<1>10. tx'[t].pc \notin {"idle", "commit"} \cup Single
  BY <1>6, <1>7 DEF Single
<1> QED BY <1>1, <1>5, <1>7, <1>8, <1>9, <1>10, ReadStep

\* The sale is marked returned, one of the statuses of a sale that stands.
LEMMA UpdateStatusStep ==
  ASSUME CreditInv, NEW t \in Tx, UpdateStatus(t)
  PROVE  CreditInv'
<1>1. tx[t].pc = "close" /\ Types /\ Shape(t)
  BY DEF UpdateStatus, At, CreditInv, Own
<1>2. R(t).op \in Returns /\ R(t) \in Desk[t] /\ R(t).sale \in Sale
  BY <1>1, Served, ReqFacts DEF Shape, At
<1>3. PICK s \in Sale : s = R(t).sale
  BY <1>2
<1>4. DB!Write(t, s, tx[t].status) /\ Goto(t, "commit")
  BY <1>3 DEF UpdateStatus
<1>5. "commit" \in Steps
  BY DEF Steps
<1>6. /\ Onward(t) /\ Tables /\ tx'[t].pc = "commit" /\ R(t)' = R(t) /\ B(t)' = B(t)
      /\ tx'[t].value = tx[t].value /\ tx'[t].todo = tx[t].todo
  BY <1>1, <1>4, <1>5, GotoFacts
<1>7. Fits(t, s, tx[t].status)
  <2>1. s \notin Customer \cup Item \cup Product
    BY RowFacts
  <2>2. tx[t].status \in Status \ {"none"}
    BY <1>1, TxFacts DEF Shape, At
  <2>3. com[s] # "none"
    BY <1>1, <1>2, <1>3 DEF CreditInv, Own, Found, At
  <2> QED BY <2>1, <2>2, <2>3 DEF Fits
<1>8. Shape(t)' /\ OldKept(t)'
  BY <1>1, <1>2, <1>6 DEF Shape, OldKept, At, Returns, Repayments
<1>9. \A c \in Customer : Moved(t, c)' = Moved(t, c)
  <2>1. CreditReduction(t)' = CreditReduction(t)
    BY <1>6 DEF CreditReduction
  <2> QED BY <1>1, <1>2, <1>6, <2>1 DEF Moved, At, Returns, Repayments
<1>10. s \in Row /\ s \notin Customer /\ tx'[t].pc \notin {"idle"} \cup Single /\ R(t).op # "sale"
  BY <1>2, <1>6, RowFacts DEF Single, Returns
<1> QED BY <1>1, <1>4, <1>6, <1>7, <1>8, <1>9, <1>10, WriteStep

\* A repayment reads its customer and the dues it may settle.
LEMMA LoadStep ==
  ASSUME CreditInv, NEW t \in Tx, Load(t)
  PROVE  CreditInv'
<1>1. tx[t].pc = "load" /\ Types /\ Shape(t) /\ Found(t)
  BY DEF Load, At, CreditInv, Own
<1>2. /\ R(t).op \in Repayments /\ R(t) \in Desk[t] /\ R(t).cust \in Customer /\ R(t).amount \in Nat \ {0}
      /\ R(t).old \in BOOLEAN
  BY <1>1, Served, ReqFacts DEF Shape, At
<1>3. PICK c \in Customer : c = R(t).cust
  BY <1>2
<1>4. PICK m \in Nat \ {0} : m = R(t).amount
  BY <1>2
<1>5. PICK a \in Account : a = DB!Visible(t, c)
  BY <1>1 DEF DB!Visible, Types, RowsType
<1>6. PICK n \in Nat : n = IF R(t).old THEN Larger(Smaller(m, a.opening), 0) ELSE 0
  <2>1. PICK o \in Int : o = a.opening
    BY AccountFacts
  <2> QED BY <2>1 DEF Larger, Smaller
<1>7. PICK s \in {"old", "settle"} : s = IF n > 0 THEN "old" ELSE "settle"
  OBVIOUS
<1>8. PICK out \in Int : out = a.out
  BY AccountFacts
<1>9. PICK x : x = [tx[t] EXCEPT !.before = out, !.old = n, !.pc = s]
  OBVIOUS
<1>10. tx' = [tx EXCEPT ![t] = x] /\ Tables /\ UNCHANGED rowVars
  BY <1>3, <1>4, <1>5, <1>6, <1>7, <1>8, <1>9 DEF Load
<1>11. x \in Serving /\ x.pc = s /\ x.old = n /\ x.at = tx[t].at /\ x.req = tx[t].req
  <2>1. tx[t] \in Serving /\ s \in Steps
    BY <1>1, TxFacts DEF Steps
  <2> QED BY <1>9, <2>1 DEF Serving
<1>12. Onward(t) /\ tx'[t] = x /\ R(t)' = R(t) /\ B(t)' = B(t)
  BY <1>1, <1>10, <1>11, Noted
<1>13. Shape(t)'
  <2>1. s = "settle" => n <= m
    BY <1>7
  <2> QED BY <1>2, <1>4, <1>11, <1>12, <2>1 DEF Shape, At, Returns, Repayments
<1>14. OldKept(t)'
  <2> SUFFICES ASSUME n > 0
               PROVE  n <= m /\ (OldsApart => n <= cur[c].opening /\ R(t).old)
    BY <1>3, <1>4, <1>7, <1>10, <1>11, <1>12 DEF OldKept, At, rowVars
  <2>1. PICK o \in Int : o = a.opening
    BY AccountFacts
  <2>2. R(t).old /\ n <= m /\ n <= o
    BY <1>6, <2>1 DEF Larger, Smaller
  <2>3. ASSUME OldsApart PROVE a.opening = cur[c].opening
    <3>1. CASE lock[c] = t
      BY <1>5, <3>1 DEF DB!Visible
    <3>2. CASE lock[c] = NoTx
      BY <1>5, <3>2, LockFacts, <1>1, RowFacts DEF DB!Visible, CreditInv, RowsOK
    <3>3. CASE lock[c] \in Tx \ {t}
      <4>1. PICK u \in Tx \ {t} : lock[c] = u
        BY <3>3
      <4>2. Own(u) /\ c \in Row
        BY RowFacts DEF CreditInv
      <4>3. tx[u].pc # "idle"
        BY <4>1, <4>2 DEF Own, Bare
      <4>4. R(u) \in Desk[u]
        BY <4>3, Served
      <4>5. ~Concerns(R(u), c)
        BY <1>2, <1>3, <2>2, <2>3, <4>1, <4>4 DEF OldsApart
      <4>6. Known(c)
        BY <1>1, <1>2, <1>3 DEF Found, At
      <4>7. cur[c].opening = com[c].opening
        BY <4>1, <4>2, <4>5, <4>6 DEF Own, Holds
      <4> QED BY <1>5, <3>3, <4>7 DEF DB!Visible
    <3>4. lock[c] \in Tx \cup {NoTx}
      BY <1>1, LockFacts, RowFacts
    <3> QED BY <3>1, <3>2, <3>3, <3>4
  <2> QED BY <2>1, <2>2, <2>3
<1>15. ASSUME NEW k \in Customer PROVE Moved(t, k)' = Moved(t, k)
  <2>1. Moved(t, k) = 0
    BY <1>1, QuietFacts DEF Quiet, Steps
  <2>2. CASE s = "old"
    BY <1>11, <1>12, <2>1, <2>2, QuietFacts DEF Quiet, Steps
  <2>3. CASE s = "settle"
    <3>1. n = 0
      BY <1>7, <2>3
    <3>2. Moved(t, k)' = 0
      BY <1>2, <1>11, <1>12, <2>3, <3>1 DEF Moved, At, Returns, Repayments
    <3> QED BY <2>1, <3>2
  <2> QED BY <2>2, <2>3
<1>16. tx'[t].pc \notin {"idle", "commit"} \cup Single
  BY <1>11, <1>12 DEF Single
<1> QED BY <1>1, <1>10, <1>12, <1>13, <1>14, <1>15, <1>16, ReadStep

\* A repayment pays an old sale, whose amounts the balance does not follow.
LEMMA PayOldStep ==
  ASSUME CreditInv, NEW t \in Tx, PayOld(t)
  PROVE  CreditInv'
<1>1. tx[t].pc = "old" /\ Types /\ Shape(t) /\ Found(t) /\ OldKept(t)
  BY DEF PayOld, At, CreditInv, Own
<1>2. R(t).op \in Repayments /\ R(t) \in Desk[t] /\ R(t).cust \in Customer /\ R(t).amount \in Nat \ {0}
  BY <1>1, Served, ReqFacts DEF Shape, At
<1>3. PICK c \in Customer : c = R(t).cust
  BY <1>2
<1>4. PICK m \in Nat \ {0} : m = R(t).amount
  BY <1>2
<1>5. PICK n \in Nat : n = tx[t].old
  BY <1>1, TxFacts
<1>6. n <= m /\ (OldsApart => n <= cur[c].opening)
  BY <1>1, <1>3, <1>4, <1>5 DEF OldKept, At
<1>7. PICK v : v = PayOpening(cur[c], n)
  OBVIOUS
<1>8. /\ cur[c] \in Account /\ v \in Account /\ v.state = cur[c].state
      /\ Net(v) >= Net(cur[c]) - n /\ (n <= cur[c].opening => Net(v) = Net(cur[c]) - n)
  BY <1>1, <1>7, PayOpeningFacts DEF Types, RowsType
<1>9. PICK s \in {"settle", "cash"} : s = IF m > n THEN "settle" ELSE "cash"
  OBVIOUS
<1>10. DB!Write(t, c, v) /\ Goto(t, s)
  BY <1>3, <1>4, <1>5, <1>7, <1>9 DEF PayOld
<1>11. s \in Steps
  BY DEF Steps
<1>12. Onward(t) /\ Tables /\ tx'[t].pc = s /\ R(t)' = R(t) /\ B(t)' = B(t) /\ tx'[t].old = n
  BY <1>1, <1>5, <1>10, <1>11, GotoFacts
<1>13. Shape(t)' /\ OldKept(t)'
  BY <1>2, <1>4, <1>6, <1>12 DEF Shape, OldKept, At, Returns, Repayments
<1>14. ASSUME NEW k \in Customer PROVE Moved(t, k) = 0 /\ Moved(t, k)' = IF k = c THEN 0 - n ELSE 0
  <2>1. Moved(t, k) = 0
    BY <1>1, QuietFacts DEF Quiet, Steps
  <2>2. CASE s = "settle"
    BY <1>2, <1>3, <1>12, <2>1, <2>2 DEF Moved, At, Returns, Repayments
  <2>3. CASE s = "cash"
    <3>1. m = n
      BY <1>6, <1>9, <2>3
    <3> QED BY <1>2, <1>3, <1>4, <1>12, <2>1, <2>3, <3>1 DEF Moved, At, Returns, Repayments
  <2> QED BY <2>2, <2>3
<1>15. Fits(t, c, v)
  <2>1. c \notin Sale \cup Item \cup Product
    BY RowFacts
  <2>2. cur[c].state # "none"
    <3>1. Known(c)
      BY <1>1, <1>2, <1>3 DEF Found, At
    <3> QED BY <3>1 DEF CreditInv, RowsOK
  <2>3. Concerns(R(t), c)
    BY <1>2, <1>3 DEF Concerns
  <2>4. Told(Net(v), Net(cur[c]) + (Moved(t, c)' - Moved(t, c)))
    <3>1. PICK w \in Int : w = Net(cur[c])
      BY <1>8, AccountFacts
    <3>2. PICK y \in Int : y = Net(v)
      BY <1>8, AccountFacts
    <3>3. PICK o \in Int : o = cur[c].opening
      BY <1>8, AccountFacts
    <3>4. Moved(t, c)' = 0 - n /\ Moved(t, c) = 0
      BY <1>14
    <3>5. y >= w - n /\ (OldsApart => y = w - n)
      BY <1>6, <1>8, <3>1, <3>2, <3>3
    <3> QED BY <3>1, <3>2, <3>4, <3>5 DEF Told
  <2> QED BY <1>8, <2>1, <2>2, <2>3, <2>4 DEF Fits
<1>16. c \in Row /\ tx'[t].pc \notin {"idle", "commit"} \cup Single
  BY <1>12, RowFacts DEF Single
<1>17. (\A k \in Customer \ {c} : Moved(t, k)' = Moved(t, k)) /\ Moved(t, c)' \in Int
  BY <1>14
<1> QED BY <1>1, <1>10, <1>12, <1>13, <1>15, <1>16, <1>17, WriteStep

\* The balance gives back what was repaid, which the repayment will explain.
LEMMA SettleStep ==
  ASSUME CreditInv, NEW t \in Tx, Settle(t)
  PROVE  CreditInv'
<1>1. tx[t].pc = "settle" /\ Types /\ Shape(t) /\ Found(t)
  BY DEF Settle, At, CreditInv, Own
<1>2. R(t).op \in Repayments /\ R(t) \in Desk[t] /\ R(t).cust \in Customer /\ R(t).amount \in Nat \ {0}
  BY <1>1, Served, ReqFacts DEF Shape, At
<1>3. PICK c \in Customer : c = R(t).cust
  BY <1>2
<1>4. PICK m \in Nat \ {0} : m = R(t).amount
  BY <1>2
<1>5. PICK n \in Nat : n = tx[t].old
  BY <1>1, TxFacts
<1>6. PICK d \in Int : d = -(m - n)
  OBVIOUS
<1>7. PICK v : v = AddBalance(cur[c], d)
  OBVIOUS
<1>8. cur[c] \in Account /\ v \in Account /\ v.state = cur[c].state /\ Net(v) = Net(cur[c]) + d
  BY <1>1, <1>7, AddBalanceFacts DEF Types, RowsType
<1>9. DB!Write(t, c, v) /\ Goto(t, "cash")
  BY <1>3, <1>4, <1>5, <1>6, <1>7 DEF Settle
<1>10. "cash" \in Steps
  BY DEF Steps
<1>11. Onward(t) /\ Tables /\ tx'[t].pc = "cash" /\ R(t)' = R(t) /\ B(t)' = B(t)
  BY <1>1, <1>9, <1>10, GotoFacts
<1>12. Shape(t)' /\ OldKept(t)'
  BY <1>2, <1>11 DEF Shape, OldKept, At, Returns, Repayments
<1>13. ASSUME NEW k \in Customer
       PROVE  Moved(t, k) = (IF k = c THEN 0 - n ELSE 0) /\ Moved(t, k)' = IF k = c THEN 0 - m ELSE 0
  <2>1. Moved(t, k) = IF k = c THEN 0 - n ELSE 0
    BY <1>1, <1>2, <1>3, <1>5 DEF Moved, At, Returns, Repayments
  <2>2. Moved(t, k)' = IF k = c THEN 0 - m ELSE 0
    BY <1>2, <1>3, <1>4, <1>11 DEF Moved, At, Returns, Repayments
  <2> QED BY <2>1, <2>2
<1>14. Fits(t, c, v)
  <2>1. c \notin Sale \cup Item \cup Product
    BY RowFacts
  <2>2. cur[c].state # "none"
    <3>1. Known(c)
      BY <1>1, <1>2, <1>3 DEF Found, At
    <3> QED BY <3>1 DEF CreditInv, RowsOK
  <2>3. Concerns(R(t), c)
    BY <1>2, <1>3 DEF Concerns
  <2>4. Told(Net(v), Net(cur[c]) + (Moved(t, c)' - Moved(t, c)))
    <3>1. PICK w \in Int : w = Net(cur[c])
      BY <1>8, AccountFacts
    <3>2. Moved(t, c)' = 0 - m /\ Moved(t, c) = 0 - n
      BY <1>13
    <3>3. Net(v) = w + ((0 - m) - (0 - n))
      BY <1>6, <1>8, <3>1
    <3> QED BY <3>1, <3>2, <3>3 DEF Told
  <2> QED BY <1>8, <2>1, <2>2, <2>3, <2>4 DEF Fits
<1>15. c \in Row /\ tx'[t].pc \notin {"idle", "commit"} \cup Single
  BY <1>11, RowFacts DEF Single
<1>16. (\A k \in Customer \ {c} : Moved(t, k)' = Moved(t, k)) /\ Moved(t, c)' \in Int
  BY <1>13
<1> QED BY <1>1, <1>9, <1>11, <1>12, <1>14, <1>15, <1>16, WriteStep

\* The money of a repayment goes to its place.
LEMMA MoveCashStep ==
  ASSUME CreditInv, NEW t \in Tx, MoveCash(t)
  PROVE  CreditInv'
<1>1. tx[t].pc = "cash" /\ Types /\ Shape(t)
  BY DEF MoveCash, At, CreditInv, Own
<1>2. R(t).op \in Repayments /\ R(t) \in Desk[t]
  BY <1>1 DEF Shape, At
<1>3. CASE Fail(t)
  BY <1>1, <1>3, FailStep
<1>4. CASE Goto(t, "commit") /\ UNCHANGED rowVars
  <2>1. "commit" \in Steps
    BY DEF Steps
  <2>2. Onward(t) /\ Tables /\ tx'[t].pc = "commit" /\ R(t)' = R(t) /\ B(t)' = B(t)
    BY <1>1, <1>4, <2>1, GotoFacts
  <2>3. Shape(t)' /\ OldKept(t)'
    BY <1>1, <1>2, <2>2 DEF Shape, OldKept, At, Returns, Repayments
  <2>4. \A c \in Customer : Moved(t, c)' = Moved(t, c)
    BY <1>1, <1>2, <2>2 DEF Moved, At, Returns, Repayments
  <2>5. tx'[t].pc \notin {"idle"} \cup Single /\ R(t).op # "sale"
    BY <1>2, <2>2 DEF Single, Repayments
  <2> QED BY <1>1, <1>4, <2>2, <2>3, <2>4, <2>5, ReadStep
<1> QED BY <1>3, <1>4 DEF MoveCash

\* What an owner does to the customer's row.
LEMMA OwnerSteps ==
  ASSUME CreditInv, NEW t \in Tx,
         Adjust(t) \/ SetCreditLimit(t) \/ Edit(t) \/ Deactivate(t) \/ Reactivate(t)
  PROVE  CreditInv'
<1>1. Types /\ Shape(t)
  BY DEF CreditInv, Own
<1>2. ASSUME NEW c \in Customer, NEW v \in Account, tx[t].pc \in Single, UpdateActive(t, c, v),
             v.state = com[c].state, Net(v) = Net(com[c]),
             Concerns(R(t), c) \/ v.opening = com[c].opening
      PROVE  CreditInv'
  <2>1. CASE com[c].state = "active"
    <3>1. Update(t, c, v) /\ Known(c) /\ v.state # "none"
      BY <1>2, <2>1 DEF UpdateActive, Known
    <3> QED BY <1>2, <3>1, UpdateStep
  <2>2. CASE com[c].state # "active"
    <3>1. Fail(t) /\ tx[t].pc # "idle"
      BY <1>2, <2>2 DEF UpdateActive, Single
    <3> QED BY <3>1, FailStep
  <2> QED BY <2>1, <2>2
<1>3. CASE Adjust(t)
  <2>1. tx[t].pc = "adjust" /\ R(t).op = "adjust"
    BY <1>1, <1>3 DEF Adjust, Shape, At
  <2>2. R(t).cust \in Customer /\ R(t).amount \in Int
    BY <2>1, Served, ReqFacts
  <2>3. PICK c \in Customer : c = R(t).cust
    BY <2>2
  <2>4. PICK v : v = AdjustOpening(com[c], R(t).amount)
    OBVIOUS
  <2>5. v \in Account /\ v.state = com[c].state /\ Net(v) = Net(com[c])
    BY <1>1, <2>2, <2>4, AdjustOpeningFacts DEF Types, RowsType
  <2>6. Concerns(R(t), c)
    BY <2>1, <2>3 DEF Concerns
  <2>7. UpdateActive(t, c, v) /\ tx[t].pc \in Single
    BY <1>3, <2>1, <2>3, <2>4 DEF Adjust, Single
  <2> QED BY <1>2, <2>5, <2>6, <2>7
<1>4. CASE SetCreditLimit(t)
  <2>1. tx[t].pc = "limit" /\ R(t).op = "limit"
    BY <1>1, <1>4 DEF SetCreditLimit, Shape, At
  <2>2. R(t).cust \in Customer /\ R(t).amount \in Nat
    BY <2>1, Served, ReqFacts
  <2>3. PICK c \in Customer : c = R(t).cust
    BY <2>2
  <2>4. PICK v : v = [com[c] EXCEPT !.limit = R(t).amount]
    OBVIOUS
  <2>5. v \in Account /\ v.state = com[c].state /\ Net(v) = Net(com[c]) /\ v.opening = com[c].opening
    <3>1. com[c] \in Account
      BY <1>1 DEF Types, RowsType
    <3> QED BY <2>2, <2>4, <3>1 DEF Account, Net
  <2>6. UpdateActive(t, c, v) /\ tx[t].pc \in Single
    BY <1>4, <2>1, <2>3, <2>4 DEF SetCreditLimit, Single
  <2> QED BY <1>2, <2>5, <2>6
<1>5. CASE Edit(t)
  <2>1. tx[t].pc = "edit" /\ R(t).op = "edit"
    BY <1>1, <1>5 DEF Edit, Shape, At
  <2>2. R(t).cust \in Customer /\ R(t).amount \in Nat /\ R(t).phone \in Phone \cup {NoPhone}
    BY <2>1, Served, ReqFacts
  <2>3. PICK c \in Customer : c = R(t).cust
    BY <2>2
  <2>4. PICK v : v = Edited(com[c], R(t).amount, R(t).phone)
    OBVIOUS
  <2>5. v \in Account /\ v.state = com[c].state /\ Net(v) = Net(com[c]) /\ v.opening = com[c].opening
    <3>1. com[c] \in Account
      BY <1>1 DEF Types, RowsType
    <3> QED BY <2>2, <2>4, <3>1 DEF Edited, Account, Net
  <2>6. UpdateActive(t, c, v) /\ tx[t].pc \in Single
    BY <1>5, <2>1, <2>3, <2>4 DEF Edit, Single
  <2> QED BY <1>2, <2>5, <2>6
<1>6. ASSUME NEW s \in {"disabled", "active"}, tx[t].pc \in {"disable", "restore"}, Known(R(t).cust),
             Update(t, R(t).cust, [com[R(t).cust] EXCEPT !.state = s])
      PROVE  CreditInv'
  <2>1. R(t).op \in {"disable", "restore"} /\ tx[t].pc # "idle"
    BY <1>1, <1>6 DEF Shape, At
  <2>2. PICK c \in Customer : c = R(t).cust
    BY <2>1, Served, ReqFacts
  <2>3. PICK v : v = [com[c] EXCEPT !.state = s]
    OBVIOUS
  <2>4. v \in Account /\ v.state = s /\ Net(v) = Net(com[c]) /\ v.opening = com[c].opening
    <3>1. com[c] \in Account
      BY <1>1 DEF Types, RowsType
    <3> QED BY <2>3, <3>1 DEF Account, Net, State
  <2>5. Update(t, c, v) /\ Known(c) /\ tx[t].pc \in Single
    BY <1>6, <2>2, <2>3 DEF Single
  <2> QED BY <2>4, <2>5, UpdateStep
<1>7. CASE Deactivate(t)
  BY <1>6, <1>7 DEF Deactivate, At
<1>8. CASE Reactivate(t)
  BY <1>6, <1>8 DEF Reactivate, At
<1> QED BY <1>3, <1>4, <1>5, <1>7, <1>8

\* The customer a number is found under is one of the customers.
LEMMA PhoneFacts ==
  ASSUME NEW d, NEW phone
  PROVE  FindByPhone(d, phone) \in Customer \cup {NoCustomer}
<1>1. PICK same \in SUBSET Customer : same = {c \in Customer : d[c].state = "active" /\ d[c].phone = phone}
  OBVIOUS
<1>2. same # {} => Min(same) \in Customer
  BY FirstCustomer
<1> QED BY <1>1, <1>2 DEF FindByPhone

\* A customer is looked up by phone, and is reused, rewritten or registered.
LEMMA MatchStep ==
  ASSUME CreditInv, NEW t \in Tx, Match(t)
  PROVE  CreditInv'
<1>1. tx[t].pc = "match" /\ Types /\ Shape(t) /\ Bare(t)
  BY DEF Match, At, CreditInv, Own
<1>2. R(t).op \in {"create", "import"} /\ R(t) \in Desk[t]
  BY <1>1 DEF Shape, At
<1>4. PICK c \in Customer \cup {NoCustomer} : c = Matched(t)
  BY PhoneFacts DEF Matched
<1>5. UNCHANGED rowVars
  BY DEF Match
<1>6. CASE c = NoCustomer
  <2>1. Goto(t, "register")
    BY <1>4, <1>6 DEF Match
  <2>6. "register" \in Steps
    BY DEF Steps
  <2>2. Onward(t) /\ Tables /\ tx'[t].pc = "register" /\ R(t)' = R(t) /\ B(t)' = B(t)
    BY <1>1, <2>1, <2>6, GotoFacts
  <2>3. Shape(t)' /\ OldKept(t)'
    BY <1>1, <1>2, <2>2 DEF Shape, OldKept, At, Returns, Repayments
  <2>4. \A k \in Customer : Moved(t, k)' = Moved(t, k)
    BY <1>1, <2>2, QuietFacts DEF Quiet, Steps
  <2>5. tx'[t].pc \notin {"idle", "commit"} \cup Single
    BY <2>2 DEF Single
  <2> QED BY <1>1, <1>5, <2>2, <2>3, <2>4, <2>5, ReadStep
<1>7. CASE c # NoCustomer /\ R(t).op = "create"
  <2>1. tx' = [tx EXCEPT ![t] = Idle] /\ Tables
    BY <1>4, <1>7 DEF Match
  <2>2. \A r \in Row : lock[r] # t
    BY <1>1 DEF Bare, Single
  <2>3. cur = [r \in Row |-> cur[r]] /\ lock \in [Row -> Tx \cup {NoTx}]
    BY <1>1 DEF Types, RowsType
  <2>4. DB!Rollback(t)
    <3>1. cur' = [r \in Row |-> IF lock[r] = t THEN com[r] ELSE cur[r]]
      BY <1>5, <2>2, <2>3 DEF rowVars
    <3>2. lock' = [r \in Row |-> IF lock[r] = t THEN NoTx ELSE lock[r]]
      BY <1>5, <2>2, <2>3 DEF rowVars
    <3> QED BY <1>5, <3>1, <3>2 DEF DB!Rollback, DB!Release, rowVars
  <2>5. Fail(t)
    BY <2>1, <2>4 DEF Fail
  <2> QED BY <1>1, <2>5, FailStep
<1>8. CASE c # NoCustomer /\ R(t).op # "create"
  <2>1. PICK x : x = [tx[t] EXCEPT !.match = c, !.pc = "rewrite"]
    OBVIOUS
  <2>2. tx' = [tx EXCEPT ![t] = x] /\ Tables
    BY <1>4, <1>8, <2>1 DEF Match
  <2>3. x \in Serving /\ x.pc = "rewrite" /\ x.match = c /\ x.at = tx[t].at /\ x.req = tx[t].req
    <3>1. tx[t] \in Serving /\ "rewrite" \in Steps
      BY <1>1, TxFacts DEF Steps
    <3> QED BY <2>1, <3>1 DEF Serving
  <2>4. Onward(t) /\ tx'[t] = x /\ R(t)' = R(t) /\ B(t)' = B(t)
    BY <1>1, <2>2, <2>3, Noted
  <2>5. Shape(t)' /\ OldKept(t)'
    BY <1>1, <1>2, <1>8, <2>3, <2>4 DEF Shape, OldKept, At, Returns, Repayments
  <2>6. \A k \in Customer : Moved(t, k)' = Moved(t, k)
    BY <1>1, <2>3, <2>4, QuietFacts DEF Quiet, Steps
  <2>7. tx'[t].pc \notin {"idle", "commit"} \cup Single
    BY <2>3, <2>4 DEF Single
  <2> QED BY <1>1, <1>5, <2>2, <2>4, <2>5, <2>6, <2>7, ReadStep
<1> QED BY <1>6, <1>7, <1>8

\* A customer's row rewritten by a request that moves no money.
LEMMA CustomerWritten ==
  ASSUME CreditInv, NEW t \in Tx, tx[t].pc \in {"rewrite", "register"},
         NEW c \in Customer, NEW v \in Account, DB!Write(t, c, v), Goto(t, "commit"),
         v.state # "none", Net(v) = Net(cur[c]),
         Known(c) => v.opening = cur[c].opening
  PROVE  CreditInv'
<1>1. Types /\ Shape(t)
  BY DEF CreditInv, Own
<1>2. R(t).op \in {"create", "import"} /\ R(t) \in Desk[t] /\ tx[t].pc # "idle"
  BY <1>1 DEF Shape, At
<1>3. "commit" \in Steps
  BY DEF Steps
<1>4. Onward(t) /\ Tables /\ tx'[t].pc = "commit" /\ R(t)' = R(t) /\ B(t)' = B(t)
  BY <1>1, <1>3, GotoFacts
<1>5. ASSUME NEW k \in Customer PROVE Moved(t, k) = 0 /\ Moved(t, k)' = 0
  BY <1>2, <1>4 DEF Moved, At, Returns, Repayments
<1>6. Fits(t, c, v)
  <2>1. c \notin Sale \cup Item \cup Product
    BY RowFacts
  <2>2. Told(Net(v), Net(cur[c]) + (Moved(t, c)' - Moved(t, c)))
    <3>1. PICK n \in Int : n = Net(cur[c]) /\ n = Net(v)
      BY AccountFacts
    <3>2. Moved(t, c) = 0 /\ Moved(t, c)' = 0
      BY <1>5
    <3> QED BY <3>1, <3>2 DEF Told
  <2> QED BY <2>1, <2>2 DEF Fits
<1>7. Shape(t)' /\ OldKept(t)'
  BY <1>1, <1>2, <1>4 DEF Shape, OldKept, At, Returns, Repayments
<1>8. c \in Row /\ tx'[t].pc \notin {"idle"} \cup Single /\ R(t).op # "sale" /\ tx[t].pc # "status"
  BY <1>2, <1>4, RowFacts DEF Single
<1>9. (\A k \in Customer \ {c} : Moved(t, k)' = Moved(t, k)) /\ Moved(t, c)' \in Int
  BY <1>5
<1> QED BY <1>2, <1>4, <1>6, <1>7, <1>8, <1>9, WriteStep

\* A merge rewrites the customer under the phone, whose balance it does not touch.
LEMMA RewriteStep ==
  ASSUME CreditInv, NEW t \in Tx, Rewrite(t)
  PROVE  CreditInv'
<1>1. tx[t].pc = "rewrite" /\ Types /\ Shape(t)
  BY DEF Rewrite, At, CreditInv, Own
<1>2. R(t).op = "import" /\ tx[t].match # NoCustomer
  BY <1>1 DEF Shape, At
<1>3. R(t).amount \in Nat /\ R(t).phone \in Phone \cup {NoPhone}
  BY <1>1, <1>2, Served, ReqFacts
<1>4. PICK c \in Customer : c = tx[t].match
  BY <1>1, <1>2, TxFacts
<1>5. CASE cur[c].state # "active"
  <2>1. Fail(t)
    BY <1>4, <1>5 DEF Rewrite
  <2> QED BY <1>1, <2>1, FailStep
<1>6. CASE cur[c].state = "active"
  <2>1. PICK v : v = Edited(cur[c], R(t).amount, R(t).phone)
    OBVIOUS
  <2>2. v \in Account /\ v.state = "active" /\ Net(v) = Net(cur[c]) /\ v.opening = cur[c].opening
    <3>1. cur[c] \in Account
      BY <1>1 DEF Types, RowsType
    <3> QED BY <1>3, <1>6, <2>1, <3>1 DEF Edited, Account, Net
  <2>3. DB!Write(t, c, v) /\ Goto(t, "commit")
    BY <1>4, <1>6, <2>1 DEF Rewrite
  <2> QED BY <1>1, <2>2, <2>3, CustomerWritten
<1> QED BY <1>5, <1>6

\* A new customer has the opening debt it is registered with.
LEMMA InsertCustomerStep ==
  ASSUME CreditInv, NEW t \in Tx, InsertCustomer(t)
  PROVE  CreditInv'
<1>1. tx[t].pc = "register" /\ Types /\ Shape(t)
  BY DEF InsertCustomer, At, CreditInv, Own
<1>2. R(t).op \in {"create", "import"}
  BY <1>1 DEF Shape, At
<1>3. R(t).amount \in Nat /\ R(t).opening \in Nat /\ Stored(R(t)) \in Phone \cup {NoPhone}
  <2>1. R(t).amount \in Nat /\ R(t).opening \in Nat /\ R(t).phone \in Phone \cup {NoPhone}
    BY <1>1, <1>2, Served, ReqFacts
  <2>2. R(t).op = "create" => Plain[R(t).phone] \in Phone \cup {NoPhone}
    <3>1. R(t).op = "create" => R(t).phone \in Phone
      BY <1>1, <2>1 DEF Shape
    <3> QED BY <3>1, CreditAssumption
  <2> QED BY <2>1, <2>2 DEF Stored
<1>4. PICK c \in Customer : c = Min(Unused(cur)) /\ cur[c].state = "none"
  <2>1. Unused(cur) \in SUBSET Customer /\ Unused(cur) # {}
    BY DEF InsertCustomer, Unused
  <2>2. Min(Unused(cur)) \in Unused(cur)
    BY <2>1, FirstCustomer
  <2> QED BY <2>2 DEF Unused
<1>5. PICK v : v = Fresh(Stored(R(t)), R(t).amount, R(t).opening)
  OBVIOUS
<1>6. v \in Account /\ Net(v) = 0 /\ v.state = "active"
  BY <1>3, <1>5, FreshFacts
<1>7. DB!Write(t, c, v) /\ Goto(t, "commit")
  BY <1>4, <1>5 DEF InsertCustomer
<1>8. Net(cur[c]) = 0 /\ ~Known(c)
  BY <1>4 DEF CreditInv, RowsOK
<1> QED BY <1>1, <1>6, <1>7, <1>8, CustomerWritten

-----------------------------------------------------------------------------
(***************************************************************************)
(* A transaction is committed, with its document.                          *)
(***************************************************************************)
\* The document of a return or a repayment, and of anything else none.
ReturnDoc(t) == [id |-> tx[t].at, sale |-> R(t).sale, credit |-> CreditReduction(t),
                 slip |-> R(t).op = "partial",
                 refund |-> IF R(t).op = "partial" THEN tx[t].value - CreditReduction(t) ELSE 0]
PaidDoc(t)   == [id |-> tx[t].at, cust |-> R(t).cust, amount |-> R(t).amount, before |-> tx[t].before,
                 move |-> IF Moves(R(t)) THEN {[to |-> R(t).to, amount |-> R(t).amount]} ELSE {}]

\* The documents a return and a repayment commit are new and have the amounts moved.
LEMMA DocFacts ==
  ASSUME CreditInv, NEW t \in Tx, tx[t].pc # "idle"
  PROVE  /\ R(t).op \in Returns => /\ ReturnDoc(t) \in Returned /\ ReturnDoc(t) \notin returned
                                   /\ ReturnDoc(t).sale = R(t).sale /\ ReturnDoc(t).credit = CreditReduction(t)
                                   /\ ReturnDoc(t).id = tx[t].at
         /\ R(t).op \in Repayments => /\ PaidDoc(t) \in Paid /\ PaidDoc(t) \notin paid
                                      /\ PaidDoc(t).cust = R(t).cust /\ PaidDoc(t).amount = R(t).amount
                                      /\ PaidDoc(t).id = tx[t].at
<1>1. Types /\ Numbered(t)
  BY DEF CreditInv, Own
<1>2. tx[t].at \in Nat /\ \A x \in returned \cup paid : x.id # tx[t].at
  BY <1>1, TxFacts DEF Numbered, At
<1>3. ASSUME R(t).op \in Returns
      PROVE  /\ ReturnDoc(t) \in Returned /\ ReturnDoc(t).id = tx[t].at
             /\ ReturnDoc(t).sale = R(t).sale /\ ReturnDoc(t).credit = CreditReduction(t)
  <2>1. PICK d \in Nat : d = CreditReduction(t)
    BY <1>3, ReductionFacts
  <2>2. PICK s \in Sale : s = R(t).sale
    BY <1>3, Served, ReqFacts
  <2>3. PICK v \in Nat : v = tx[t].value
    BY <1>1, TxFacts
  <2>4. PICK b \in BOOLEAN : b = (R(t).op = "partial")
    OBVIOUS
  <2>5. PICK n \in Int : n = IF R(t).op = "partial" THEN v - d ELSE 0
    <3>1. CASE R(t).op = "partial"
      <4>1. v - d \in Int
        OBVIOUS
      <4> QED BY <3>1, <4>1
    <3>2. CASE R(t).op # "partial"
      BY <3>2
    <3> QED BY <3>1, <3>2
  <2>6. PICK k \in Nat : k = tx[t].at
    BY <1>2
  <2>7. ReturnDoc(t) = [id |-> k, sale |-> s, credit |-> d, slip |-> b, refund |-> n]
    BY <2>1, <2>2, <2>3, <2>4, <2>5, <2>6 DEF ReturnDoc
  <2> QED BY <2>1, <2>2, <2>6, <2>7 DEF Returned
<1>4. ASSUME R(t).op \in Repayments
      PROVE  /\ PaidDoc(t) \in Paid /\ PaidDoc(t).id = tx[t].at
             /\ PaidDoc(t).cust = R(t).cust /\ PaidDoc(t).amount = R(t).amount
  <2>1. PICK c \in Customer : c = R(t).cust
    BY <1>4, Served, ReqFacts
  <2>2. PICK n \in Nat : n = R(t).amount
    BY <1>4, Served, ReqFacts
  <2>3. PICK to \in Place : to = R(t).to
    BY <1>4, Served, ReqFacts
  <2>4. PICK b \in Int : b = tx[t].before
    BY <1>1, TxFacts
  <2>5. PICK m \in SUBSET [to : Place, amount : Nat] :
          m = IF Moves(R(t)) THEN {[to |-> to, amount |-> n]} ELSE {}
    <3>1. {[to |-> to, amount |-> n]} \in SUBSET [to : Place, amount : Nat] /\ {} \in SUBSET [to : Place, amount : Nat]
      OBVIOUS
    <3> QED BY <3>1
  <2>6. PICK k \in Nat : k = tx[t].at
    BY <1>2
  <2>7. PaidDoc(t) = [id |-> k, cust |-> c, amount |-> n, before |-> b, move |-> m]
    BY <2>1, <2>2, <2>3, <2>4, <2>5, <2>6 DEF PaidDoc
  <2> QED BY <2>1, <2>2, <2>6, <2>7 DEF Paid
<1> QED BY <1>2, <1>3, <1>4

\* What is committed: the rows the session held become what it made of them.
LEMMA CommitRows ==
  ASSUME CreditInv, NEW t \in Tx, Commit(t)
  PROVE  /\ cur' = cur /\ com' = [r \in Row |-> DB!Visible(t, r)]
         /\ \A r \in Row : com'[r] = IF lock[r] = t THEN cur[r] ELSE com[r]
         /\ \A r \in Row : lock'[r] = IF lock[r] = t THEN NoTx ELSE lock[r]
         /\ lock' \in [Row -> Tx \cup {NoTx}]
         /\ tx'[t] = Idle /\ tx' \in [Tx -> Serving] /\ \A u \in Tx \ {t} : tx'[u] = tx[u]
         /\ tx[t].pc = "commit" /\ served' = served /\ Aside(t) /\ Grows(t)
<1>1. /\ cur' = cur /\ com' = [r \in Row |-> DB!Visible(t, r)]
      /\ lock' = [r \in Row |-> IF lock[r] = t THEN NoTx ELSE lock[r]]
      /\ tx' = [tx EXCEPT ![t] = Idle] /\ tx[t].pc = "commit" /\ served' = served
  BY DEF Commit, DB!Commit, DB!Release, At
<1>2. Types /\ RowsOK /\ SaleHeld(t)
  BY DEF CreditInv, Own
<1>3. \A r \in Row : com'[r] = IF lock[r] = t THEN cur[r] ELSE com[r]
  BY <1>1 DEF DB!Visible
<1>4. \A r \in Row : lock'[r] = IF lock[r] = t THEN NoTx ELSE lock[r]
  BY <1>1
<1>5. lock' \in [Row -> Tx \cup {NoTx}]
  BY <1>1, <1>2 DEF Types
<1>6. tx'[t] = Idle /\ tx' \in [Tx -> Serving] /\ \A u \in Tx \ {t} : tx'[u] = tx[u]
  BY <1>1, <1>2, IdleState DEF Types
<1>7. Aside(t)
  BY <1>1, <1>3, <1>4, <1>6, RowFacts DEF Aside
<1>8. Grows(t)
  <2>1. ASSUME NEW c \in Customer, Known(c) PROVE Known(c)'
    BY <1>2, <1>3, <2>1, RowFacts DEF RowsOK, Known
  <2>2. \A s \in Sale : com[s] # "none" => com'[s] # "none"
    BY <1>2, <1>3, RowFacts DEF RowsOK
  <2>3. \A s \in Sale : com[s] = "none" /\ com'[s] # "none"
                          => tx[t].pc # "idle" /\ R(t).op = "sale" /\ R(t).sale = s
    BY <1>1, <1>2, <1>3, RowFacts DEF SaleHeld
  <2> QED BY <2>1, <2>2, <2>3 DEF Grows
<1> QED BY <1>1, <1>3, <1>4, <1>5, <1>6, <1>7, <1>8

\* What a commit puts on record.
LEMMA CommitRecords ==
  ASSUME CreditInv, NEW t \in Tx, Commit(t)
  PROVE  /\ R(t) \in Request /\ R(t).op \in {"sale", "create", "import"} \cup Returns \cup Repayments
         /\ R(t).op # "sale" => Sold' = Sold
         /\ R(t).op \notin Returns => returned' = returned
         /\ R(t).op \notin Repayments => paid' = paid
         /\ R(t).op = "sale" => /\ R(t).sale \in Sale /\ R(t).sale \notin Sold
                                /\ Sold' = Sold \cup {R(t).sale} /\ \A x \in returned : x.sale # R(t).sale
         /\ R(t).op \in Returns => /\ ReturnDoc(t) \in Returned /\ ReturnDoc(t) \notin returned
                                   /\ returned' = returned \cup {ReturnDoc(t)}
                                   /\ R(t).sale \in Sold /\ ReturnDoc(t).sale = R(t).sale
                                   /\ ReturnDoc(t).credit = CreditReduction(t)
         /\ R(t).op \in Repayments => /\ PaidDoc(t) \in Paid /\ PaidDoc(t) \notin paid
                                      /\ paid' = paid \cup {PaidDoc(t)}
                                      /\ R(t).cust \in Customer /\ PaidDoc(t).cust = R(t).cust
                                      /\ PaidDoc(t).amount = R(t).amount /\ R(t).amount \in Nat
<1>1. Types /\ Shape(t) /\ Found(t) /\ SaleHeld(t) /\ tx[t].pc = "commit" /\ Grows(t)
  BY CommitRows DEF CreditInv, Own
<1>2. R(t) \in Request /\ R(t).op \in {"sale", "create", "import"} \cup Returns \cup Repayments
  BY <1>1, Served DEF Shape, At
<1>3. R(t).op # "sale" => Sold' = Sold
  <2> SUFFICES ASSUME R(t).op # "sale" PROVE Sold' = Sold
    OBVIOUS
  <2>1. \A s \in Sale : com'[s] # "none" <=> com[s] # "none"
    BY <1>1 DEF Grows
  <2> QED BY <2>1 DEF Sold
<1>4. /\ R(t).op \notin Returns => returned' = returned
      /\ R(t).op \notin Repayments => paid' = paid
  BY DEF Commit, Returns
<1>5. ASSUME R(t).op = "sale"
      PROVE  /\ R(t).sale \in Sale /\ R(t).sale \notin Sold
             /\ Sold' = Sold \cup {R(t).sale} /\ \A x \in returned : x.sale # R(t).sale
  <2>1. PICK s \in Sale : s = R(t).sale
    BY <1>2, <1>5, ReqFacts
  <2>2. com[s] = "none"
    BY <1>1, <1>5, <2>1 DEF Found, At
  <2>3. com'[s] # "none"
    <3>1. lock[s] = t /\ cur[s] # "none"
      BY <1>1, <1>5, <2>1 DEF SaleHeld, At
    <3> QED BY <3>1, CommitRows, RowFacts
  <2>4. \A k \in Sale : com'[k] # "none" <=> com[k] # "none" \/ k = s
    BY <1>1, <2>1, <2>3 DEF Grows
  <2>5. \A x \in returned : x.sale # s
    BY <2>2 DEF CreditInv, RecordsOK
  <2> QED BY <2>1, <2>2, <2>3, <2>4, <2>5 DEF Sold
<1>6. ASSUME R(t).op \in Returns
      PROVE  /\ ReturnDoc(t) \in Returned /\ ReturnDoc(t) \notin returned
             /\ returned' = returned \cup {ReturnDoc(t)}
             /\ R(t).sale \in Sold /\ ReturnDoc(t).sale = R(t).sale
             /\ ReturnDoc(t).credit = CreditReduction(t)
  <2>1. returned' = returned \cup {ReturnDoc(t)}
    BY <1>6 DEF Commit, ReturnDoc, Returns
  <2>2. R(t).sale \in Sold
    BY <1>1, <1>2, <1>6, ReqFacts DEF Found, Sold, At
  <2> QED BY <1>1, <1>6, <2>1, <2>2, DocFacts
<1>7. ASSUME R(t).op \in Repayments
      PROVE  /\ PaidDoc(t) \in Paid /\ PaidDoc(t) \notin paid
             /\ paid' = paid \cup {PaidDoc(t)}
             /\ R(t).cust \in Customer /\ PaidDoc(t).cust = R(t).cust
             /\ PaidDoc(t).amount = R(t).amount /\ R(t).amount \in Nat
  <2>1. paid' = paid \cup {PaidDoc(t)}
    BY <1>7 DEF Commit, PaidDoc
  <2> QED BY <1>1, <1>2, <1>7, <2>1, DocFacts, ReqFacts
<1> QED BY <1>2, <1>3, <1>4, <1>5, <1>6, <1>7

\* The document, or the sale, says what the transaction moved.
LEMMA CommitBehind ==
  ASSUME CreditInv, NEW t \in Tx, Commit(t), NEW c \in Customer
  PROVE  Behind(c)' = Behind(c) + Moved(t, c)
<1>1. Types /\ Shape(t) /\ tx[t].pc = "commit"
  BY CommitRows DEF CreditInv, Own
<1>2. R(t) \in Request /\ R(t).op \in {"sale", "create", "import"} \cup Returns \cup Repayments
  BY CommitRecords
<1>3. PICK b \in Int : b = Behind(c)
  BY <1>1, DocumentSums
<1>5. CASE R(t).op = "sale"
  <2>1. PICK s \in Sale : s = R(t).sale
    BY <1>2, <1>5, ReqFacts
  <2>2. returned' = returned /\ paid' = paid
    BY <1>5, CommitRecords DEF Returns, Repayments
  <2>3. s \notin Sold /\ Sold' = Sold \cup {s} /\ \A x \in returned : x.sale # s
    BY <1>5, <2>1, CommitRecords
  <2>4. Behind(c)' = Behind(c) + (IF Bill[s].cust = c THEN OnAccount(Bill[s]) ELSE 0)
    BY <1>1, <2>2, <2>3, BehindSold
  <2>5. Moved(t, c) = IF Bill[s].cust = c THEN OnAccount(Bill[s]) ELSE 0
    BY <1>1, <1>5, <2>1 DEF Moved, At, B, Returns, Repayments
  <2> QED BY <2>4, <2>5
<1>6. CASE R(t).op \in Returns
  <2>1. PICK x : x = ReturnDoc(t)
    OBVIOUS
  <2>2. /\ x \in Returned /\ x \notin returned /\ x.sale = R(t).sale /\ x.credit = CreditReduction(t)
        /\ returned' = returned \cup {x} /\ x.sale \in Sold
    BY <1>6, <2>1, CommitRecords
  <2>3. paid' = paid /\ Sold' = Sold
    BY <1>6, CommitRecords DEF Returns, Repayments
  <2>4. Behind(c)' = Behind(c) - (IF Bill[x.sale].cust = c THEN x.credit ELSE 0)
    BY <1>1, <2>2, <2>3, BehindReturned
  <2>5. PICK d \in Nat : d = CreditReduction(t)
    BY <1>1, <1>6, ReductionFacts
  <2>6. Moved(t, c) = IF Bill[x.sale].cust = c THEN 0 - d ELSE 0
    BY <1>1, <1>6, <2>2, <2>5 DEF Moved, At, B, Returns, Repayments
  <2>7. Behind(c)' = b - (IF Bill[x.sale].cust = c THEN d ELSE 0)
    BY <1>3, <2>2, <2>4, <2>5
  <2> QED BY <1>3, <2>6, <2>7
<1>7. CASE R(t).op \in Repayments
  <2>1. PICK x : x = PaidDoc(t)
    OBVIOUS
  <2>2. /\ x \in Paid /\ x \notin paid /\ x.cust = R(t).cust /\ x.amount = R(t).amount
        /\ paid' = paid \cup {x}
    BY <1>7, <2>1, CommitRecords
  <2>3. returned' = returned /\ Sold' = Sold
    BY <1>7, CommitRecords DEF Returns, Repayments
  <2>4. Behind(c)' = Behind(c) - (IF x.cust = c THEN x.amount ELSE 0)
    BY <1>1, <2>2, <2>3, BehindPaid
  <2>5. PICK d \in Nat : d = R(t).amount
    BY <1>7, CommitRecords
  <2>6. Moved(t, c) = IF R(t).cust = c THEN 0 - d ELSE 0
    BY <1>1, <1>7, <2>5 DEF Moved, At, Returns, Repayments
  <2>7. Behind(c)' = b - (IF R(t).cust = c THEN d ELSE 0)
    BY <1>3, <2>2, <2>4, <2>5
  <2> QED BY <1>3, <2>6, <2>7
<1>8. CASE R(t).op \in {"create", "import"}
  <2>1. returned' = returned /\ paid' = paid /\ Sold' = Sold
    BY <1>8, CommitRecords DEF Returns, Repayments
  <2>2. Behind(c)' = Behind(c)
    BY <2>1, BehindKept
  <2>3. Moved(t, c) = 0
    BY <1>1, <1>8 DEF Moved, At, Returns, Repayments
  <2> QED BY <1>3, <2>2, <2>3
<1> QED BY <1>2, <1>5, <1>6, <1>7, <1>8

\* A commit adds the document that explains what the transaction moved.
LEMMA CommitStep ==
  ASSUME CreditInv, NEW t \in Tx, Commit(t)
  PROVE  CreditInv'
<1>1. /\ Types /\ RowsOK /\ RecordsOK /\ Booked /\ Shape(t) /\ Found(t) /\ Numbered(t)
      /\ tx[t].pc = "commit" /\ Aside(t) /\ Grows(t) /\ served' = served
      /\ R(t) \in Request
  BY CommitRows, Served DEF CreditInv, Own
<1>2. \A r \in Row : com'[r] = IF lock[r] = t THEN cur[r] ELSE com[r]
  BY CommitRows
<1>3. /\ returned' = returned \/ (R(t).op \in Returns /\ returned' = returned \cup {ReturnDoc(t)})
      /\ paid' = paid \/ (R(t).op \in Repayments /\ paid' = paid \cup {PaidDoc(t)})
  <2>1. returned' = returned \/ (R(t).op \in Returns /\ returned' = returned \cup {ReturnDoc(t)})
    BY DEF Commit, ReturnDoc, Returns
  <2>2. paid' = paid \/ (R(t).op \in Repayments /\ paid' = paid \cup {PaidDoc(t)})
    BY DEF Commit, PaidDoc
  <2> QED BY <2>1, <2>2
<1>4. Types'
  <2>1. RowsType(com)'
    <3>1. com' = [r \in Row |-> com'[r]]
      BY CommitRows
    <3>2. \A c \in Customer : com'[c] \in Account
      BY <1>1, <1>2, RowFacts DEF Types, RowsType
    <3>3. \A s \in Sale : com'[s] \in Status
      BY <1>1, <1>2, RowFacts DEF Types, RowsType
    <3>4. \A i \in Item : com'[i] \in Nat
      BY <1>1, <1>2, RowFacts DEF Types, RowsType
    <3>5. \A p \in Product : com'[p] \in Int
      BY <1>1, <1>2, RowFacts DEF Types, RowsType
    <3> QED BY <3>1, <3>2, <3>3, <3>4, <3>5 DEF RowsType
  <2>2. RowsType(cur)'
    BY <1>1, CommitRows DEF Types, RowsType
  <2>3. returned' \subseteq Returned /\ IsFiniteSet(returned')
    BY <1>1, <1>3, DocFacts, FS_AddElement DEF Types
  <2>4. paid' \subseteq Paid /\ IsFiniteSet(paid')
    BY <1>1, <1>3, DocFacts, FS_AddElement DEF Types
  <2> QED BY <1>1, <2>1, <2>2, <2>3, <2>4, CommitRows DEF Types
<1>5. RowsOK'
  <2>1. ASSUME NEW r \in Row, lock'[r] = NoTx PROVE cur'[r] = com'[r]
    BY <1>1, <2>1, CommitRows DEF RowsOK
  <2>2. \A s \in Sale : com'[s] # "none" => cur'[s] # "none"
    BY <1>1, <1>2, CommitRows, RowFacts DEF RowsOK
  <2>3. ASSUME NEW c \in Customer
        PROVE  /\ Known(c)' => cur'[c].state # "none"
               /\ \A a \in {com'[c], cur'[c]} : a.state = "none" => Net(a) = 0
    <3>1. cur'[c] = cur[c] /\ com'[c] \in {cur[c], com[c]}
      BY <1>2, CommitRows, RowFacts
    <3>2. Known(c)' => cur'[c].state # "none"
      BY <1>1, <1>2, <3>1, RowFacts DEF RowsOK, Known
    <3>3. \A a \in {com[c], cur[c]} : a.state = "none" => Net(a) = 0
      BY <1>1 DEF RowsOK
    <3> QED BY <3>1, <3>2, <3>3
  <2> QED BY <2>1, <2>2, <2>3 DEF RowsOK
<1>6. RecordsOK'
  <2>1. ASSUME NEW x \in returned' PROVE x.id <= served' /\ com'[x.sale] # "none"
    <3>1. CASE x \in returned
      <4>1. x.sale \in Sale /\ x.id <= served /\ com[x.sale] # "none"
        BY <1>1, <3>1 DEF Types, Returned, RecordsOK
      <4> QED BY <1>1, <4>1 DEF Grows
    <3>2. CASE x \notin returned
      <4>1. R(t).op \in Returns /\ x = ReturnDoc(t)
        BY <1>3, <2>1, <3>2
      <4>2. x.id = tx[t].at /\ x.sale = R(t).sale /\ R(t).sale \in Sale
        BY <1>1, <4>1, DocFacts, ReqFacts
      <4>3. com[R(t).sale] # "none"
        BY <1>1, <4>1 DEF Found, At
      <4> QED BY <1>1, <4>2, <4>3 DEF Grows, Numbered
    <3> QED BY <3>1, <3>2
  <2>2. ASSUME NEW x \in paid' PROVE x.id <= served' /\ Known(x.cust)'
    <3>1. CASE x \in paid
      <4>1. PICK c \in Customer : c = x.cust
        BY <1>1, <3>1 DEF Types, Paid
      <4>2. x.id <= served /\ Known(c)
        BY <1>1, <3>1, <4>1 DEF RecordsOK
      <4>3. Known(c)'
        BY <1>1, <4>2 DEF Grows
      <4> QED BY <1>1, <4>1, <4>2, <4>3
    <3>2. CASE x \notin paid
      <4>1. R(t).op \in Repayments /\ x = PaidDoc(t)
        BY <1>3, <2>2, <3>2
      <4>2. x.id = tx[t].at /\ x.cust = R(t).cust
        BY <1>1, <4>1, DocFacts
      <4>3. PICK c \in Customer : c = R(t).cust
        BY <1>1, <4>1, ReqFacts
      <4>4. Known(c)'
        BY <1>1, <4>1, <4>3 DEF Found, Grows, At
      <4> QED BY <1>1, <4>2, <4>3, <4>4 DEF Numbered
    <3> QED BY <3>1, <3>2
  <2>3. ASSUME NEW s \in Sold', Bill[s].cust # NoCustomer PROVE Known(Bill[s].cust)'
    <3>1. s \in Sale /\ com'[s] # "none"
      BY DEF Sold
    <3>2. PICK c \in Customer : c = Bill[s].cust
      BY <2>3, <3>1, BillFacts
    <3>3. Known(c)
      <4>1. CASE com[s] # "none"
        BY <1>1, <2>3, <3>1, <3>2, <4>1 DEF RecordsOK, Sold
      <4>2. CASE com[s] = "none"
        <5>1. R(t).op = "sale" /\ R(t).sale = s
          BY <1>1, <3>1, <4>2 DEF Grows
        <5> QED BY <1>1, <2>3, <3>2, <5>1 DEF Found, At, B
      <4> QED BY <4>1, <4>2
    <3> QED BY <1>1, <3>2, <3>3 DEF Grows
  <2> QED BY <2>1, <2>2, <2>3 DEF RecordsOK
<1>7. ASSUME NEW c \in Customer PROVE Told(Net(com[c]), Behind(c))'
  <2>1. PICK b \in Int : b = Behind(c)
    BY <1>1, DocumentSums
  <2>2. PICK m \in Int : m = Moved(t, c)
    BY MovedInt
  <2>3. Behind(c)' = b + m
    BY <2>1, <2>2, CommitBehind
  <2>4. com[c] \in Account /\ cur[c] \in Account /\ Holds(t, c) /\ c \in Row
    BY <1>1, RowFacts, LockFacts DEF CreditInv, Own
  <2>5. PICK p \in Int : p = Net(com[c])
    BY <2>4, AccountFacts
  <2>6. PICK q \in Int : q = Net(cur[c])
    BY <2>4, AccountFacts
  <2>7. Told(p, b)
    BY <1>1, <2>1, <2>5 DEF Booked
  <2>8. CASE lock[c] = t
    <3>1. Told(q, p + m)
      BY <2>2, <2>4, <2>5, <2>6, <2>8 DEF Holds
    <3>2. Net(com[c])' = q
      BY <1>2, <2>4, <2>6, <2>8
    <3>3. Told(q, b + m)
      BY <2>7, <3>1 DEF Told
    <3> QED BY <2>3, <3>2, <3>3 DEF Told
  <2>9. CASE lock[c] # t
    <3>1. m = 0
      BY <2>2, <2>4, <2>9 DEF Holds
    <3>2. Net(com[c])' = p
      BY <1>2, <2>4, <2>5, <2>9
    <3>3. Told(p, b + m)
      BY <2>7, <3>1 DEF Told
    <3> QED BY <2>3, <3>2, <3>3 DEF Told
  <2> QED BY <2>8, <2>9
<1>8. Own(t)'
  <2>1. \A r \in Row : lock'[r] # t
    BY CommitRows, RowFacts
  <2>2. served' \in Nat
    BY <1>1, LockFacts
  <2> QED BY <2>1, <2>2, CommitRows, IdleOwn
<1>9. ASSUME NEW u \in Tx, u # t PROVE Own(u)'
  <2>1. OldKept(u)'
    <3>1. tx'[u] = tx[u] /\ tx[t].pc # "idle" /\ \A c \in Customer : cur'[c].opening = cur[c].opening
      BY <1>1, <1>9, CommitRows
    <3> QED BY <1>9, <3>1, OldStays
  <2>2. \A x \in returned' \cup paid' : x \in returned \cup paid \/ x.id = tx[t].at
    BY <1>1, <1>3, DocFacts
  <2>3. tx'[t].at = 0 /\ R(t)'.op # "sale"
    BY CommitRows, IdleState DEF R, Idle
  <2> QED BY <1>1, <1>9, <2>1, <2>2, <2>3, OthersKept
<1> QED BY <1>4, <1>5, <1>6, <1>7, <1>8, <1>9 DEF CreditInv, Booked

-----------------------------------------------------------------------------
(***************************************************************************)
(* The beginning, the requests taken, and the theorems.                    *)
(***************************************************************************)
\* A request is at its first statement.
LEMMA ServeFacts ==
  ASSUME Types, NEW t \in Tx, NEW r \in Request, NEW start \in Steps, NEW todo \in Seq(Left),
         Serve(t, r, start, todo)
  PROVE  /\ tx'[t].pc = start /\ R(t)' = r /\ tx'[t].todo = todo /\ B(t)' = Bill[r.sale]
         /\ r \in Desk[t] /\ com' = com /\ \A u \in Tx \ {t} : R(u)' = R(u)
<1>1. r \in Desk[t] /\ com' = com /\ tx \in [Tx -> Serving]
  BY DEF Serve, rowVars, Types
<1>2. PICK x : x = [Idle EXCEPT !.pc = start, !.req = r, !.at = served', !.todo = todo]
  OBVIOUS
<1>3. x = [pc |-> start, req |-> r, at |-> served', todo |-> todo, value |-> 0,
           before |-> 0, old |-> 0, match |-> NoCustomer, status |-> "none"]
  BY <1>2 DEF Idle
<1>4. x.pc = start /\ x.req = r /\ x.todo = todo
  BY <1>3
<1>5. tx' = [tx EXCEPT ![t] = x]
  BY <1>2 DEF Serve
<1>6. tx'[t] = x /\ \A u \in Tx \ {t} : tx'[u] = tx[u]
  BY <1>1, <1>5
<1> QED BY <1>1, <1>4, <1>6 DEF R, B

\* A request other than a sale.
LEMMA OtherBegins ==
  ASSUME CreditInv, NEW t \in Tx, NEW r \in Request, NEW start, NEW todo \in Seq(Left),
         Serve(t, r, start, todo),
         \/ r.op \in Returns /\ start = "status" /\ (r.op = "partial" => todo \in Seq(Part) /\ todo # <<>>)
         \/ r.op \in Repayments /\ start = "load" /\ Known(r.cust)
         \/ r.op \in {"adjust", "limit", "edit", "disable", "restore"} /\ start = r.op
         \/ r.op = "create" /\ start = "match" /\ r.phone # NoPhone
         \/ r.op = "import" /\ start = "match"
  PROVE  CreditInv'
<1>1. start \in {"goods", "status", "load"} \cup Single /\ start \in Steps
  BY DEF Single, Steps
<1>2. /\ tx'[t].pc = start /\ R(t)' = r /\ tx'[t].todo = todo /\ B(t)' = Bill[r.sale]
      /\ r \in Desk[t] /\ com' = com
  BY <1>1, ServeFacts DEF CreditInv
<1>3. r.op # "sale"
  BY DEF Returns, Repayments
<1>4. Shape(t)'
  BY <1>2 DEF Shape, At, Returns, Repayments
<1>5. Found(t)'
  <2>1. r.op \in Returns => start = "status"
    BY DEF Returns, Repayments
  <2>2. ASSUME r.op \in Repayments PROVE Known(R(t).cust)'
    <3>1. Known(r.cust)
      BY <2>2 DEF Returns, Repayments
    <3> QED BY <1>2, <3>1 DEF Known
  <2> QED BY <1>2, <1>3, <2>1, <2>2 DEF Found, At
<1> QED BY <1>1, <1>3, <1>4, <1>5, ServeStep

\* A sale begins with nothing moved, to a customer there is.
LEMMA SaleBegins ==
  ASSUME CreditInv, NEW t \in Tx, NEW r \in Request, SaleCreate(t, r)
  PROVE  CreditInv'
<1>1. r.op = "sale" /\ r.sale \in Sale /\ com[r.sale] = "none" /\ \A u \in Tx : R(u) # r
  BY ReqFacts DEF SaleCreate
<1>2. PICK lines \in Seq(Item) : lines = Lines(r.sale) /\ lines # <<>>
  BY <1>1, BillFacts DEF Lines
<1>3. PICK q : q = [k \in DOMAIN lines |-> [item |-> lines[k], n |-> LineOf[lines[k]].qty]]
  OBVIOUS
<1>4. q \in Seq(Left) /\ q # <<>>
  <2>1. ASSUME NEW k \in DOMAIN lines PROVE q[k] \in Left
    <3>1. PICK i \in Item : i = lines[k]
      BY <1>2
    <3>2. PICK n \in Nat : n = LineOf[i].qty
      BY LineFacts
    <3> QED BY <1>3, <3>1, <3>2 DEF Left
  <2>2. q \in [1 .. Len(lines) -> Left]
    BY <1>2, <1>3, <2>1
  <2>3. Len(lines) \in Nat \ {0}
    BY <1>2, EmptySeq, LenProperties
  <2>4. q \in Seq(Left)
    BY <2>2, <2>3
  <2>5. Len(q) = Len(lines)
    BY <2>2, <2>3, <2>4, LenProperties
  <2> QED BY <2>3, <2>4, <2>5, EmptySeq
<1>5. Serve(t, r, "goods", q)
  BY <1>2, <1>3 DEF SaleCreate
<1>6. "goods" \in Steps
  BY DEF Steps
<1>7. /\ tx'[t].pc = "goods" /\ R(t)' = r /\ tx'[t].todo = q /\ B(t)' = Bill[r.sale]
      /\ r \in Desk[t] /\ com' = com /\ \A u \in Tx \ {t} : R(u)' = R(u)
  BY <1>4, <1>5, <1>6, ServeFacts DEF CreditInv
<1>8. Shape(t)'
  BY <1>1, <1>4, <1>7 DEF Shape, At, Returns, Repayments
<1>9. Found(t)'
  <2>1. PICK c : c = Bill[r.sale].cust
    OBVIOUS
  <2>2. c # NoCustomer => Known(c)'
    BY <1>7, <2>1 DEF SaleCreate, Known
  <2>3. B(t)'.cust # NoCustomer => Known(B(t).cust)'
    BY <1>7, <2>1, <2>2
  <2>4. \A u \in Tx \ {t} : R(u)' # R(t)'
    BY <1>1, <1>7
  <2>5. com'[r.sale] = "none" /\ R(t)'.op \notin Returns \cup Repayments
    BY <1>1, <1>7 DEF Returns, Repayments
  <2> QED BY <1>7, <2>3, <2>4, <2>5 DEF Found
<1> QED BY <1>1, <1>4, <1>5, <1>8, <1>9, ServeStep DEF Single

\* A request begins with nothing moved.
LEMMA BeginStep ==
  ASSUME CreditInv, NEW t \in Tx, NEW r \in Request, Begin(t, r)
  PROVE  CreditInv'
<1>1. <<>> \in Seq(Left)
  OBVIOUS
<1>2. CASE SaleCreate(t, r)
  BY <1>2, SaleBegins
<1>3. CASE SaleReturn(t, r)
  BY <1>1, <1>3, OtherBegins DEF SaleReturn, Returns
<1>4. CASE PartialReturn(t, r)
  <2>1. r.op = "partial" /\ r.parts \in Seq(Part) /\ r.parts # <<>> /\ Serve(t, r, "status", r.parts)
    BY <1>4, ReqFacts DEF PartialReturn
  <2>2. PICK q \in Seq(Part) : q = r.parts
    BY <2>1
  <2>3. q \in Seq(Left)
    <3>1. Part \subseteq Left
      BY DEF Part, Left
    <3>2. q \in [1 .. Len(q) -> Part] /\ Len(q) \in Nat
      BY LenProperties
    <3> QED BY <3>1, <3>2
  <2> QED BY <2>1, <2>2, <2>3, OtherBegins DEF Returns
<1>5. CASE CreditPay(t, r) \/ CustomerPay(t, r) \/ Payment(t, r)
  BY <1>1, <1>5, OtherBegins DEF CreditPay, CustomerPay, Payment, Repayments
<1>6. CASE CustomerOpeningAdjust(t, r)
  BY <1>1, <1>6, OtherBegins DEF CustomerOpeningAdjust
<1>7. CASE SetLimit(t, r)
  BY <1>1, <1>7, OtherBegins DEF SetLimit
<1>8. CASE CustomerUpdate(t, r)
  BY <1>1, <1>8, OtherBegins DEF CustomerUpdate
<1>9. CASE CustomerDelete(t, r) \/ CustomerReactivate(t, r)
  BY <1>1, <1>9, OtherBegins DEF CustomerDelete, CustomerReactivate
<1>10. CASE CustomerCreate(t, r) \/ CustomerImport(t, r)
  BY <1>1, <1>10, OtherBegins DEF CustomerCreate, CustomerImport
<1> QED BY <1>2, <1>3, <1>4, <1>5, <1>6, <1>7, <1>8, <1>9, <1>10 DEF Begin

\* The customers there are at the start owe what the sales there are left on account.
LEMMA InitAccountFacts ==
  ASSUME NEW c \in Customer
  PROVE  /\ InitAccount(c) \in Account
         /\ Net(InitAccount(c)) = SumFunctionOnSet([s \in Sale |-> OnAccount(Bill[s])],
                                    {s \in Sale : InitStatus[s] # "none" /\ Bill[s].cust = c})
         /\ InitAccount(c).state = "none" <=> InitPhone[c] = NoPhone
         /\ InitAccount(c).state = "none" => Net(InitAccount(c)) = 0
<1>1. PICK f : f = [s \in Sale |-> OnAccount(Bill[s])]
  OBVIOUS
<1>2. PICK S : S = {s \in Sale : InitStatus[s] # "none" /\ Bill[s].cust = c}
  OBVIOUS
<1>3. IsFiniteSet(S) /\ S \subseteq Sale
  BY <1>2, CreditAssumption, FS_Subset
<1>4. \A s \in S : f[s] \in Int
  BY <1>1, <1>3, BillFacts
<1>5. PICK n \in Int : n = SumFunctionOnSet(f, S)
  BY <1>3, <1>4, SumInt
<1>6. PICK o \in Nat : o = InitOpening[c]
  BY CreditAssumption
<1>7. PICK l \in Nat : l = InitLimit[c]
  BY CreditAssumption
<1>8. PICK p \in Phone \cup {NoPhone} : p = InitPhone[c]
  BY CreditAssumption
<1>9. PICK d \in Int : d = o + n
  OBVIOUS
<1>10. PICK e \in {"none", "active"} : e = IF p = NoPhone THEN "none" ELSE "active"
  OBVIOUS
<1>11. InitAccount(c) = [out |-> d, opening |-> o, gross |-> o, limit |-> l, phone |-> p, state |-> e]
  BY <1>1, <1>2, <1>5, <1>6, <1>7, <1>8, <1>9, <1>10 DEF InitAccount
<1>12. InitAccount(c) \in Account /\ InitAccount(c).state = e
  BY <1>11 DEF Account, State
<1>13. Net(InitAccount(c)) = n
  BY <1>9, <1>11 DEF Net
<1>14. e = "none" => n = 0
  <2> SUFFICES ASSUME e = "none" PROVE n = 0
    OBVIOUS
  <2>1. InitPhone[c] = NoPhone
    BY <1>8, <1>10
  <2>2. S = {}
    BY <1>2, <2>1, CreditAssumption
  <2> QED BY <1>5, <2>2, SumEmpty
<1>15. e = "none" <=> InitPhone[c] = NoPhone
  BY <1>8, <1>10
<1> QED BY <1>1, <1>2, <1>5, <1>12, <1>13, <1>14, <1>15

\* What is in the tables at the start.
LEMMA InitRows ==
  ASSUME Init
  PROVE  /\ \A c \in Customer : com[c] = InitAccount(c)
         /\ \A s \in Sale : com[s] = InitStatus[s]
         /\ \A i \in Item : com[i] = 0
         /\ \A p \in Product : com[p] = InitGoods[p]
         /\ com = [r \in Row |-> com[r]]
<1>1. com = [r \in Row |-> IF r \in Customer THEN InitAccount(r) ELSE IF r \in Sale THEN InitStatus[r]
                          ELSE IF r \in Item THEN 0 ELSE InitGoods[r]]
  BY DEF Init, DB!DBInit
<1>2. \A c \in Customer : com[c] = InitAccount(c)
  BY <1>1, RowFacts
<1>3. \A s \in Sale : com[s] = InitStatus[s]
  BY <1>1, RowFacts
<1>4. \A i \in Item : com[i] = 0
  BY <1>1, RowFacts
<1>5. \A p \in Product : com[p] = InitGoods[p]
  BY <1>1, RowFacts
<1> QED BY <1>1, <1>2, <1>3, <1>4, <1>5

\* The invariant holds at the start.
LEMMA InitHolds == Init => CreditInv
<1> SUFFICES ASSUME Init PROVE CreditInv
  OBVIOUS
<1>1. PICK f : f = com
  OBVIOUS
<1>2. com = f /\ cur = f /\ lock = [r \in Row |-> NoTx] /\ returned = {} /\ paid = {} /\ served = 0
      /\ tx = [t \in Tx |-> Idle]
  BY <1>1 DEF Init, DB!DBInit
<1>3. /\ \A c \in Customer : f[c] = InitAccount(c)
      /\ \A s \in Sale : f[s] = InitStatus[s]
      /\ \A i \in Item : f[i] = 0
      /\ \A p \in Product : f[p] = InitGoods[p]
  BY <1>1, InitRows
<1>4. Types
  <2>1. RowsType(f)
    <3>1. f = [r \in Row |-> f[r]]
      BY <1>1, InitRows
    <3>2. \A c \in Customer : f[c] \in Account
      BY <1>3, InitAccountFacts
    <3>3. \A s \in Sale : f[s] \in Status
      BY <1>3, CreditAssumption DEF Status
    <3>4. (\A i \in Item : f[i] \in Nat) /\ (\A p \in Product : f[p] \in Int)
      BY <1>3, CreditAssumption
    <3> QED BY <3>1, <3>2, <3>3, <3>4 DEF RowsType
  <2>2. tx \in [Tx -> Serving] /\ lock \in [Row -> Tx \cup {NoTx}]
    BY <1>2, IdleState
  <2>3. IsFiniteSet(returned) /\ IsFiniteSet(paid)
    BY <1>2, FS_EmptySet
  <2>4. served \in 0 .. MaxRequests
    BY <1>2, CreditAssumption
  <2> QED BY <1>2, <2>1, <2>2, <2>3, <2>4 DEF Types
<1>5. RowsOK
  BY <1>2, <1>3, InitAccountFacts DEF RowsOK, Known
<1>6. \A c \in Customer : Known(c) <=> InitPhone[c] # NoPhone
  BY <1>2, <1>3, InitAccountFacts DEF Known
<1>7. RecordsOK
  <2>1. ASSUME NEW s \in Sold, Bill[s].cust # NoCustomer PROVE Known(Bill[s].cust)
    <3>1. s \in Sale /\ InitStatus[s] # "none"
      BY <1>2, <1>3 DEF Sold
    <3>2. Bill[s].cust \in Customer /\ InitPhone[Bill[s].cust] # NoPhone
      BY <2>1, <3>1, BillFacts, CreditAssumption
    <3> QED BY <1>6, <3>2
  <2> QED BY <1>2, <2>1 DEF RecordsOK
<1>8. ASSUME NEW t \in Tx PROVE Own(t)
  <2>1. tx[t] = Idle /\ \A r \in Row : lock[r] # t
    BY <1>2, RowFacts
  <2>2. tx[t].pc = "idle" /\ tx[t].req.op = "none" /\ tx[t].at = 0
    BY <2>1, IdleState DEF Idle
  <2>3. Numbered(t) /\ Found(t) /\ OldKept(t) /\ Bare(t)
    BY <1>2, <2>1, <2>2 DEF Numbered, Found, OldKept, Bare, At
  <2>4. Shape(t)
    <3>1. R(t).op = "none"
      BY <2>2 DEF R
    <3> QED BY <2>2, <3>1 DEF Shape, At, Returns, Repayments
  <2>5. SaleHeld(t)
    BY <2>1, <2>2, RowFacts DEF SaleHeld, At
  <2>6. \A c \in Customer : Holds(t, c)
    <3>1. \A c \in Customer : Moved(t, c) = 0
      BY <2>2 DEF Moved, At
    <3> QED BY <2>1, <3>1, RowFacts DEF Holds
  <2> QED BY <2>3, <2>4, <2>5, <2>6 DEF Own
<1>9. ASSUME NEW c \in Customer PROVE Told(Net(com[c]), Behind(c))
  <2>1. PICK g : g = [s \in Sale |-> OnAccount(Bill[s])]
    OBVIOUS
  <2>2. PICK S : S = {s \in Sale : InitStatus[s] # "none" /\ Bill[s].cust = c}
    OBVIOUS
  <2>3. Net(com[c]) = SumFunctionOnSet(g, S)
    BY <1>2, <1>3, <2>1, <2>2, InitAccountFacts
  <2>4. SalesTo(c) = S
    BY <1>2, <1>3, <2>2 DEF SalesTo, Sold
  <2>5. IsFiniteSet(S) /\ S \subseteq Sale
    BY <2>2, CreditAssumption, FS_Subset
  <2>6. ASSUME NEW s \in Sale PROVE Due(s) = g[s] /\ g[s] \in Int
    <3>1. {x \in returned : x.sale = s} = {}
      BY <1>2
    <3>2. Credited(s) = 0
      BY <3>1, SumEmpty DEF Credited
    <3>3. PICK n \in Int : n = OnAccount(Bill[s])
      BY BillFacts
    <3> QED BY <2>1, <3>2, <3>3 DEF Due
  <2>7. PICK h : h = [s \in Sale |-> Due(s)]
    OBVIOUS
  <2>8. \A s \in S : h[s] = g[s] /\ g[s] \in Int
    BY <2>5, <2>6, <2>7
  <2>9. SumFunctionOnSet(h, S) = SumFunctionOnSet(g, S)
    BY <2>5, <2>8, SumSame
  <2>10. PICK n \in Int : n = SumFunctionOnSet(g, S)
    BY <2>5, <2>8, SumInt
  <2>11. Payments(c) = 0
    <3>1. {x \in paid : x.cust = c} = {}
      BY <1>2
    <3> QED BY <3>1, SumEmpty DEF Payments
  <2>12. Behind(c) = n
    BY <2>4, <2>7, <2>9, <2>10, <2>11 DEF Behind
  <2> QED BY <2>3, <2>10, <2>12 DEF Told
<1> QED BY <1>4, <1>5, <1>7, <1>8, <1>9 DEF CreditInv, Booked

\* Where nothing changes the invariant goes on to hold.
LEMMA StutterStep ==
  ASSUME CreditInv, UNCHANGED vars
  PROVE  CreditInv'
<1>1. /\ com' = com /\ cur' = cur /\ lock' = lock /\ returned' = returned /\ paid' = paid
      /\ tx' = tx /\ served' = served
  BY DEF vars
<1>2. Types'
  BY <1>1 DEF CreditInv, Types, RowsType
<1>3. RowsOK'
  BY <1>1 DEF CreditInv, RowsOK, Known
<1>4. RecordsOK' /\ Booked'
  <2>1. Tables
    <3>1. rung' = rung
      BY DEF vars
    <3> QED BY <1>1, <3>1 DEF Tables
  <2> QED BY <1>1, <2>1, RecordsStay
<1>5. ASSUME NEW t \in Tx PROVE Own(t)'
  <2>1. Own(t) /\ R(t)' = R(t) /\ B(t)' = B(t)
    BY <1>1 DEF CreditInv, R, B
  <2>2. Numbered(t)' /\ OldKept(t)' /\ SaleHeld(t)' /\ Bare(t)'
    BY <1>1, <2>1 DEF Own, Numbered, OldKept, SaleHeld, Bare, At
  <2>3. Shape(t)'
    BY <1>1, <2>1 DEF Own, Shape, At, R, B
  <2>4. Found(t)'
    BY <1>1, <2>1 DEF Own, Found, Known, At, R, B
  <2>5. ASSUME NEW c \in Customer PROVE Holds(t, c)'
    <3>1. Moved(t, c)' = Moved(t, c)
      BY <1>1, <2>1 DEF Moved, CreditReduction, At
    <3>2. (Concerns(R(t), c)' <=> Concerns(R(t), c)) /\ (Known(c)' <=> Known(c))
      BY <1>1, <2>1 DEF Concerns, Known
    <3> QED BY <1>1, <2>1, <3>1, <3>2 DEF Own, Holds, Told
  <2> QED BY <2>2, <2>3, <2>4, <2>5 DEF Own
<1> QED BY <1>2, <1>3, <1>4, <1>5 DEF CreditInv

\* Every step keeps the invariant.
LEMMA NextHolds == CreditInv /\ [Next]_vars => CreditInv'
<1> SUFFICES ASSUME CreditInv, [Next]_vars PROVE CreditInv'
  OBVIOUS
<1>1. ASSUME NEW t \in Tx, NEW r \in Request, Begin(t, r) PROVE CreditInv'
  BY <1>1, BeginStep
<1>2. ASSUME NEW t \in Tx, Step(t) PROVE CreditInv'
  <2>1. CASE Goods(t) \/ CheckTender(t) \/ Charge(t) \/ InsertSale(t)
    BY <2>1, GoodsStep, CheckTenderStep, ChargeStep, InsertSaleStep
  <2>2. CASE \/ FindSale(t) \/ FindItems(t) \/ FindItem(t) \/ AddReturnedQty(t) \/ Restock(t)
             \/ MarkItem(t) \/ Uncharge(t) \/ OutstandingItems(t) \/ UpdateStatus(t)
    BY <2>2, FindSaleStep, FindItemsStep, FindItemStep, AddReturnedQtyStep, RestockStep, MarkItemStep,
       UnchargeStep, OutstandingItemsStep, UpdateStatusStep
  <2>3. CASE Load(t) \/ PayOld(t) \/ Settle(t) \/ MoveCash(t)
    BY <2>3, LoadStep, PayOldStep, SettleStep, MoveCashStep
  <2>4. CASE Adjust(t) \/ SetCreditLimit(t) \/ Edit(t) \/ Deactivate(t) \/ Reactivate(t)
    BY <2>4, OwnerSteps
  <2>5. CASE Match(t) \/ Rewrite(t) \/ InsertCustomer(t) \/ Commit(t)
    BY <2>5, MatchStep, RewriteStep, InsertCustomerStep, CommitStep
  <2> QED BY <1>2, <2>1, <2>2, <2>3, <2>4, <2>5 DEF Step
<1>3. ASSUME NEW t \in Tx, Cancel(t) PROVE CreditInv'
  BY <1>3, FailStep DEF Cancel, At
<1>4. CASE UNCHANGED vars
  BY <1>4, StutterStep
<1> QED BY <1>1, <1>2, <1>3, <1>4 DEF Next, Closed

\* The invariant says of the types what TypeOK says.
LEMMA TypesTold == CreditInv => TypeOK
<1> SUFFICES ASSUME CreditInv PROVE TypeOK
  OBVIOUS
<1>1. Types
  BY DEF CreditInv
<1>2. ASSUME NEW t \in Tx PROVE TxTypeOK(t)
  <2>1. tx[t].todo \in Seq(Left) /\ tx[t].value \in Nat /\ tx[t].old \in Nat /\ tx[t].status \in Status
        /\ tx[t].at \in Nat
    BY <1>1, TxFacts
  <2>2. \A k \in DOMAIN tx[t].todo : tx[t].todo[k] \in Left
    BY <2>1, ElementOfSeq, LenProperties
  <2>3. tx[t].at <= served /\ served \in Nat
    BY <1>1, LockFacts DEF CreditInv, Own, Numbered
  <2>4. tx[t].at \in 0 .. served
    BY <2>1, <2>3
  <2>5. tx[t].pc # "idle" => R(t) \in Request
    BY Served
  <2> QED BY <2>1, <2>2, <2>4, <2>5 DEF TxTypeOK, At
<1> QED BY <1>1, <1>2 DEF TypeOK, Types, RowsType

\* The rows and the sessions keep their types.
THEOREM CreditTypes == Spec => []TypeOK
<1> QED BY InitHolds, NextHolds, TypesTold, PTL DEF Spec

\* Whoever serves whom, a customer never owes less than the documents say: no sale on
\* account is lost, and nothing a return or a repayment takes off is taken off twice.
THEOREM NeverBelowDocuments == Spec => [](\A c \in Customer : com[c].out >= Explained(c))
<1>1. CreditInv => \A c \in Customer : com[c].out >= Explained(c)
  <2> SUFFICES ASSUME CreditInv, NEW c \in Customer PROVE com[c].out >= Explained(c)
    OBVIOUS
  <2>1. Told(Net(com[c]), Behind(c)) /\ Types
    BY DEF CreditInv, Booked
  <2> QED BY <2>1, ExplainedIs DEF Told
<1> QED BY <1>1, InitHolds, NextHolds, PTL DEF Spec

\* Where a customer whose old debt may be paid first is served at one terminal, the
\* balance is just what the documents say (BalanceExplained).
THEOREM BalanceIsDocuments == OldsApart => (Spec => []BalanceExplained)
<1>1. CreditInv /\ OldsApart => BalanceExplained
  <2> SUFFICES ASSUME CreditInv, OldsApart, NEW c \in Customer PROVE com[c].out = Explained(c)
    BY DEF BalanceExplained
  <2>1. Told(Net(com[c]), Behind(c)) /\ Types
    BY DEF CreditInv, Booked
  <2> QED BY <2>1, ExplainedIs DEF Told
<1>2. ASSUME OldsApart PROVE Spec => []BalanceExplained
  <2>1. CreditInv => BalanceExplained
    BY <1>1, <1>2
  <2> QED BY <2>1, InitHolds, NextHolds, PTL DEF Spec
<1> QED BY <1>2

-----------------------------------------------------------------------------
(***************************************************************************)
(* That the accounts are kept as Debts promises.                           *)
(***************************************************************************)
\* A statement puts nothing on record that is not committed with the rest.
LEMMA NothingRecorded ==
  ASSUME CreditInv, NEW t \in Tx, Step(t), ~Commit(t)
  PROVE  Sold' = Sold /\ returned' = returned /\ paid' = paid
<1>1. returned' = returned /\ paid' = paid
  <2>1. CASE Goods(t) \/ CheckTender(t) \/ Charge(t) \/ InsertSale(t)
    BY <2>1 DEF Goods, CheckTender, Charge, InsertSale, Fail, Goto, Tables
  <2>2. CASE \/ FindSale(t) \/ FindItems(t) \/ FindItem(t) \/ AddReturnedQty(t) \/ Restock(t)
             \/ MarkItem(t) \/ Uncharge(t) \/ OutstandingItems(t) \/ UpdateStatus(t)
    BY <2>2 DEF FindSale, FindItems, FindItem, AddReturnedQty, Restock, MarkItem, Uncharge, OutstandingItems,
                UpdateStatus, Fail, Goto, Tables
  <2>3. CASE Load(t) \/ PayOld(t) \/ Settle(t) \/ MoveCash(t)
    BY <2>3 DEF Load, PayOld, Settle, MoveCash, Fail, Goto, Tables
  <2>4. CASE Adjust(t) \/ SetCreditLimit(t) \/ Edit(t) \/ Deactivate(t) \/ Reactivate(t)
    BY <2>4 DEF Adjust, SetCreditLimit, Edit, Deactivate, Reactivate, UpdateActive, Update, Fail, Tables
  <2>5. CASE Match(t) \/ Rewrite(t) \/ InsertCustomer(t)
    BY <2>5 DEF Match, Rewrite, InsertCustomer, Fail, Goto, Tables
  <2> QED BY <2>1, <2>2, <2>3, <2>4, <2>5 DEF Step
<1>2. ASSUME NEW s \in Sale PROVE com'[s] = com[s]
  <2> SUFFICES com' # com => \E c \in Customer : \E a : DB!Update(c, a)
    <3>1. ASSUME NEW c \in Customer, NEW a, DB!Update(c, a) PROVE com'[s] = com[s]
      BY <3>1, RowFacts DEF DB!Update, CreditInv, Types, RowsType
    <3> QED BY <3>1
  <2>1. CASE Goods(t) \/ CheckTender(t) \/ Charge(t) \/ InsertSale(t)
    BY <2>1 DEF Goods, CheckTender, Charge, InsertSale, Fail, rowVars, DB!Write, DB!LockRow, DB!Rollback
  <2>2. CASE \/ FindSale(t) \/ FindItems(t) \/ FindItem(t) \/ AddReturnedQty(t) \/ Restock(t)
             \/ MarkItem(t) \/ Uncharge(t) \/ OutstandingItems(t) \/ UpdateStatus(t)
    BY <2>2 DEF FindSale, FindItems, FindItem, AddReturnedQty, Restock, MarkItem, Uncharge, OutstandingItems,
                UpdateStatus, Fail, rowVars, DB!Write, DB!LockRow, DB!Rollback
  <2>3. CASE Load(t) \/ PayOld(t) \/ Settle(t) \/ MoveCash(t)
    BY <2>3 DEF Load, PayOld, Settle, MoveCash, Fail, rowVars, DB!Write, DB!LockRow, DB!Rollback
  <2>4. CASE Adjust(t) \/ SetCreditLimit(t) \/ Edit(t) \/ Deactivate(t) \/ Reactivate(t)
    <3>1. R(t).cust \in Customer
      <4>1. tx[t].pc \in {"adjust", "limit", "edit", "disable", "restore"} /\ Shape(t)
        BY <2>4 DEF Adjust, SetCreditLimit, Edit, Deactivate, Reactivate, At, CreditInv, Own
      <4>2. R(t).op \in {"adjust", "limit", "edit", "disable", "restore"}
        BY <4>1 DEF Shape, At
      <4> QED BY <4>1, <4>2, Served, ReqFacts
    <3>2. com' # com => \E a : Update(t, R(t).cust, a)
      BY <2>4 DEF Adjust, SetCreditLimit, Edit, Deactivate, Reactivate, UpdateActive, Fail, DB!Rollback
    <3> QED BY <3>1, <3>2 DEF Update
  <2>5. CASE Match(t) \/ Rewrite(t) \/ InsertCustomer(t)
    BY <2>5 DEF Match, Rewrite, InsertCustomer, Fail, rowVars, DB!Write, DB!Rollback
  <2> QED BY <2>1, <2>2, <2>3, <2>4, <2>5 DEF Step
<1> QED BY <1>1, <1>2 DEF Sold

\* Where old debts are repaid apart, the balances are what is on record, and stay so.
LEMMA BalancesTold ==
  ASSUME CreditInv, CreditInv', OldsApart, NEW c \in Customer
  PROVE  /\ com[c].out - com[c].gross = Behind(c) /\ Behind(c) \in Int
         /\ (com[c].out - com[c].gross)' = Behind(c)'
<1>1. Types /\ Told(Net(com[c]), Behind(c)) /\ Told(Net(com[c]), Behind(c))'
  BY DEF CreditInv, Booked
<1>2. Net(com[c]) = Behind(c) /\ Net(com[c])' = Behind(c)'
  BY <1>1 DEF Told
<1> QED BY <1>1, <1>2, DocumentSums DEF Net

\* While nothing is put on record the accounts stand still.
LEMMA AccountsStand ==
  ASSUME CreditInv, CreditInv', OldsApart, Sold' = Sold, returned' = returned, paid' = paid
  PROVE  UNCHANGED Books!vars
<1>1. \A c \in Customer : (com[c].out - com[c].gross)' = com[c].out - com[c].gross
  <2> SUFFICES ASSUME NEW c \in Customer PROVE (com[c].out - com[c].gross)' = com[c].out - com[c].gross
    OBVIOUS
  <2>1. Behind(c)' = Behind(c)
    BY BehindKept
  <2> QED BY <2>1, BalancesTold
<1>2. [c \in Customer |-> com[c].out - com[c].gross]' = [c \in Customer |-> com[c].out - com[c].gross]
  BY <1>1
<1>3. [s \in Sale |-> Credited(s)]' = [s \in Sale |-> Credited(s)]
  BY DEF Credited
<1>4. [c \in Customer |-> Payments(c)]' = [c \in Customer |-> Payments(c)]
  BY DEF Payments
<1> QED BY <1>2, <1>3, <1>4 DEF Books!vars

\* What is moved is on the balance of its customer, and of no other.
LEMMA AccountsMove ==
  ASSUME CreditInv, CreditInv', OldsApart, NEW t \in Tx, Commit(t), NEW b, NEW n \in Int,
         \A c \in Customer : Moved(t, c) = IF b = c THEN n ELSE 0
  PROVE  Books!Owes(b, n)
<1>1. ASSUME NEW c \in Customer
      PROVE  (com[c].out - com[c].gross)' = (com[c].out - com[c].gross) + IF c = b THEN n ELSE 0
  <2>1. Behind(c)' = Behind(c) + Moved(t, c)
    BY CommitBehind
  <2>2. (com[c].out - com[c].gross)' = Behind(c)'
    BY BalancesTold
  <2> QED BY <2>1, <2>2, BalancesTold
<1> QED BY <1>1 DEF Books!Owes

\* A commit is one step of the accounts.
LEMMA CommitIsEntry ==
  ASSUME CreditInv, CreditInv', OldsApart, NEW t \in Tx, Commit(t)
  PROVE  [Books!Next]_(Books!vars)
<1>1. Types /\ Shape(t) /\ tx[t].pc = "commit"
  BY CommitRows DEF CreditInv, Own
<1>2. CASE R(t).op = "sale"
  <2>1. PICK s \in Sale : s = R(t).sale
    BY <1>2, CommitRecords
  <2>2. s \notin Sold /\ Sold' = Sold \cup {s} /\ returned' = returned /\ paid' = paid
    BY <1>2, <2>1, CommitRecords DEF Returns, Repayments
  <2>3. \A c \in Customer : Moved(t, c) = IF Bill[s].cust = c THEN OnAccount(Bill[s]) ELSE 0
    BY <1>1, <1>2, <2>1 DEF Moved, At, B, Returns, Repayments
  <2>4. OnAccount(Bill[s]) \in Int
    BY BillFacts
  <2>5. Books!Owes(Bill[s].cust, OnAccount(Bill[s]))
    BY <2>3, <2>4, AccountsMove
  <2>6. [k \in Sale |-> Credited(k)]' = [k \in Sale |-> Credited(k)]
    BY <2>2 DEF Credited
  <2>7. [c \in Customer |-> Payments(c)]' = [c \in Customer |-> Payments(c)]
    BY <2>2 DEF Payments
  <2>8. Books!Sell(s)
    BY <2>2, <2>5, <2>6, <2>7 DEF Books!Sell
  <2> QED BY <2>8 DEF Books!Next
<1>3. CASE R(t).op \in Returns
  <2>1. PICK x : x = ReturnDoc(t)
    OBVIOUS
  <2>2. /\ x \in Returned /\ x \notin returned /\ x.sale = R(t).sale /\ x.credit = CreditReduction(t)
        /\ returned' = returned \cup {x} /\ R(t).sale \in Sold
    BY <1>3, <2>1, CommitRecords
  <2>3. paid' = paid /\ Sold' = Sold
    BY <1>3, CommitRecords DEF Returns, Repayments
  <2>4. PICK s \in Sale : s = R(t).sale
    BY <2>2 DEF Sold
  <2>5. PICK d \in Nat : d = CreditReduction(t)
    BY <1>1, <1>3, ReductionFacts
  <2>6. \A c \in Customer : Moved(t, c) = IF Bill[s].cust = c THEN -d ELSE 0
    <3>1. 0 - d = -d
      OBVIOUS
    <3> QED BY <1>1, <1>3, <2>4, <2>5, <3>1 DEF Moved, At, B, Returns, Repayments
  <2>7. -d \in Int
    OBVIOUS
  <2>8. Books!Owes(Bill[s].cust, -d)
    BY <2>6, <2>7, AccountsMove
  <2>9. [k \in Sale |-> Credited(k)]' = [[k \in Sale |-> Credited(k)] EXCEPT ![s] = @ + d]
    <3>1. \A k \in Sale : Credited(k)' = Credited(k) + (IF k = s THEN d ELSE 0)
      BY <1>1, <2>2, <2>4, <2>5, CreditedReturned
    <3>2. PICK g : g = [k \in Sale |-> Credited(k)]
      OBVIOUS
    <3>3. \A k \in Sale : g[k] \in Nat /\ Credited(k)' = IF k = s THEN g[k] + d ELSE g[k]
      BY <1>1, <3>1, <3>2, CreditedNat
    <3>4. [k \in Sale |-> Credited(k)]' = [k \in Sale |-> IF k = s THEN g[k] + d ELSE g[k]]
      BY <3>3
    <3> QED BY <3>2, <3>4
  <2>10. d \in 0 .. (IF Bill[s].cust = NoCustomer THEN 0 ELSE Larger(Owed(s), 0))
    <3>1. PICK o \in Int : o = Owed(s)
      BY BillFacts
    <3>2. tx[t].value \in Nat
      BY <1>1, TxFacts
    <3>3. d = IF Bill[s].cust = NoCustomer THEN 0
              ELSE IF R(t).op = "return" THEN Larger(o, 0) ELSE Smaller(tx[t].value, Larger(o, 0))
      BY <2>4, <2>5, <3>1 DEF CreditReduction, B
    <3> QED BY <3>1, <3>2, <3>3 DEF Larger, Smaller
  <2>11. [c \in Customer |-> Payments(c)]' = [c \in Customer |-> Payments(c)]
    BY <2>3 DEF Payments
  <2>12. Books!Return(s, d)
    BY <2>2, <2>3, <2>4, <2>8, <2>9, <2>11 DEF Books!Return
  <2> QED BY <2>10, <2>12 DEF Books!Next
<1>4. CASE R(t).op \in Repayments
  <2>1. PICK x : x = PaidDoc(t)
    OBVIOUS
  <2>2. /\ x \in Paid /\ x \notin paid /\ x.cust = R(t).cust /\ x.amount = R(t).amount
        /\ paid' = paid \cup {x}
    BY <1>4, <2>1, CommitRecords
  <2>3. returned' = returned /\ Sold' = Sold
    BY <1>4, CommitRecords DEF Returns, Repayments
  <2>4. PICK c \in Customer : c = R(t).cust
    BY <1>4, CommitRecords
  <2>5. PICK d \in Nat : d = R(t).amount
    BY <1>4, CommitRecords
  <2>6. \A k \in Customer : Moved(t, k) = IF c = k THEN -d ELSE 0
    <3>1. 0 - d = -d
      OBVIOUS
    <3> QED BY <1>1, <1>4, <2>4, <2>5, <3>1 DEF Moved, At, Returns, Repayments
  <2>7. -d \in Int
    OBVIOUS
  <2>8. Books!Owes(c, -d)
    BY <2>6, <2>7, AccountsMove
  <2>9. [k \in Customer |-> Payments(k)]' = [[k \in Customer |-> Payments(k)] EXCEPT ![c] = @ + d]
    <3>1. \A k \in Customer : Payments(k)' = Payments(k) + (IF k = c THEN d ELSE 0)
      BY <1>1, <2>2, <2>4, <2>5, PaymentsPaid
    <3>2. PICK g : g = [k \in Customer |-> Payments(k)]
      OBVIOUS
    <3>3. \A k \in Customer : g[k] \in Nat /\ Payments(k)' = IF k = c THEN g[k] + d ELSE g[k]
      BY <1>1, <3>1, <3>2, DocumentSums
    <3>4. [k \in Customer |-> Payments(k)]' = [k \in Customer |-> IF k = c THEN g[k] + d ELSE g[k]]
      BY <3>3
    <3> QED BY <3>2, <3>4
  <2>10. [k \in Sale |-> Credited(k)]' = [k \in Sale |-> Credited(k)]
    BY <2>3 DEF Credited
  <2>11. Books!Repay(c, d)
    BY <2>3, <2>8, <2>9, <2>10 DEF Books!Repay
  <2>12. d \in {r.amount : r \in {q \in Request : q.op \in Repayments}}
    BY <1>4, <2>5, CommitRecords
  <2> QED BY <2>11, <2>12 DEF Books!Next
<1>5. CASE R(t).op \in {"create", "import"}
  <2>1. returned' = returned /\ paid' = paid /\ Sold' = Sold
    BY <1>5, CommitRecords DEF Returns, Repayments
  <2> QED BY <2>1, AccountsStand
<1> QED BY <1>2, <1>3, <1>4, <1>5, CommitRecords

\* The accounts begin as Debts says.
LEMMA AccountsBegin == Init => Books!Init
<1> SUFFICES ASSUME Init PROVE Books!Init
  OBVIOUS
<1>1. returned = {} /\ paid = {}
  BY DEF Init
<1>2. /\ \A s \in Sale : com[s] = InitStatus[s]
      /\ \A c \in Customer : com[c] = InitAccount(c)
  BY InitRows
<1>3. Sold = {s \in Sale : InitStatus[s] # "none"}
  BY <1>2 DEF Sold
<1>4. \A s \in Sale : Credited(s) = 0
  <2>1. \A s \in Sale : {x \in returned : x.sale = s} = {}
    BY <1>1
  <2> QED BY <2>1, SumEmpty DEF Credited
<1>5. \A c \in Customer : Payments(c) = 0
  <2>1. \A c \in Customer : {x \in paid : x.cust = c} = {}
    BY <1>1
  <2> QED BY <2>1, SumEmpty DEF Payments
<1>6. \A c \in Customer :
        com[c].out - com[c].gross = SumFunctionOnSet([s \in Sale |-> OnAccount(Bill[s])],
                                      {s \in Sale : InitStatus[s] # "none" /\ Bill[s].cust = c})
  BY <1>2, InitAccountFacts DEF Net
<1> QED BY <1>3, <1>4, <1>5, <1>6 DEF Books!Init

\* However the statements of requests fall between each other, a customer's account goes from
\* commit to commit by one sale, one return or one repayment at a time, each whole, where
\* old debts are repaid apart: Credit implements Debts (KeepsAccounts).
THEOREM RequestsAreSteps == OldsApart => (Spec => KeepsAccounts)
<1>1. ASSUME OldsApart, CreditInv, CreditInv', [Next]_vars PROVE [Books!Next]_(Books!vars)
  <2>1. ASSUME Sold' = Sold, returned' = returned, paid' = paid PROVE UNCHANGED Books!vars
    BY <1>1, <2>1, AccountsStand
  <2>2. ASSUME NEW t \in Tx, NEW r \in Request, Begin(t, r) PROVE UNCHANGED Books!vars
    <3>1. com' = com /\ returned' = returned /\ paid' = paid
      BY <2>2 DEF Begin, SaleCreate, SaleReturn, PartialReturn, CreditPay, CustomerPay, Payment,
                  CustomerOpeningAdjust, SetLimit, CustomerUpdate, CustomerDelete, CustomerReactivate,
                  CustomerCreate, CustomerImport, Serve, rowVars
    <3> QED BY <2>1, <3>1 DEF Sold
  <2>3. ASSUME NEW t \in Tx, Step(t) PROVE [Books!Next]_(Books!vars)
    BY <1>1, <2>1, <2>3, NothingRecorded, CommitIsEntry
  <2>4. ASSUME NEW t \in Tx, Cancel(t) PROVE UNCHANGED Books!vars
    <3>1. com' = com /\ returned' = returned /\ paid' = paid
      BY <2>4 DEF Cancel, Fail, DB!Rollback, Tables
    <3> QED BY <2>1, <3>1 DEF Sold
  <2>5. CASE UNCHANGED vars
    BY <2>1, <2>5 DEF vars, rowVars, Sold
  <2> QED BY <1>1, <2>2, <2>3, <2>4, <2>5 DEF Next, Closed
<1>2. ASSUME OldsApart PROVE Spec => KeepsAccounts
  <2>1. CreditInv /\ CreditInv' /\ [Next]_vars => [Books!Next]_(Books!vars)
    BY <1>1, <1>2
  <2> QED BY <2>1, InitHolds, NextHolds, AccountsBegin, PTL DEF Spec, KeepsAccounts, Books!Spec
<1> QED BY <1>2
=============================================================================
