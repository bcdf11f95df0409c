------------------------------ MODULE Recharge ------------------------------
(***************************************************************************)
(* The recharge plugin: e-money float on the shop's phones, sold as airtime *)
(* and moved for customers, beside the cash that pays for it.              *)
(*                                                                         *)
(* No float balance is stored.  A device's is derived from what was counted *)
(* on it when a till opened, or when one last closed, and from the rows of  *)
(* the plugin's ledger.  A row belongs to a till session, or to none (0).   *)
(*                                                                         *)
(* Only a refill, a bill paid from a bank and a reversal are transactions.  *)
(* The other operations are several, one after the other: each step below   *)
(* is one of them, and a request may end after any (refused, a crash, a     *)
(* lost call).  The office keeps the carriers and the devices meanwhile.    *)
(* A drawer's check of what it holds and the movement it then writes are    *)
(* one step here; module Cash takes them apart.                             *)
(*                                                                         *)
(* Counts are taken to be right.  The variables of phys are not in the      *)
(* program: they say what is on the devices and whose view of it is right.  *)
(***************************************************************************)
EXTENDS Integers, SequencesExt, TLC

CONSTANTS Tx,           \* requests handled at the same time
          Till,         \* cash drawers, one to a cashier
          Store,        \* where cash is kept outside a drawer: lockers, banks
          Device,
          None,         \* no till, no device, no place
          Name,         \* of carriers
          CashierAccess,\* the places of Store a cashier may use
          Request,      \* what may be asked; amounts the handlers' checks accept
          Edit,         \* what the office may change of carriers and devices
          MaxRequests,  \* bound: how many each of Tx serves
          MaxSession,   \* bound: till sessions
          MaxGift,      \* bound: commissions
          MaxClose,     \* bound: closing counts
          Desk,         \* the requests each of Tx may serve
          InitMoney,    \* the cash in each place
          InitHeld,     \* what each device holds
          InitDs,       \* device sessions closed before
          InitRow,      \* ledger rows of before
          InitDevs,     \* the devices there are
          InitCarriers  \* the carriers there are

VARIABLES till,     \* the open session of each till, 0 if closed
          started,  \* till sessions opened so far
          ds,       \* recharge_device_sessions
          rows,     \* recharge_transactions, in the order of their ids
          bills,    \* recharge_bill_tx, in the order of their ids
          carriers, \* recharge_carriers, in the order of their ids
          hidden,   \* the names of their products, which sales are made of
          devs,     \* recharge_devices
          closes,   \* the clock: device sessions closed so far
          money,    \* cash in the drawers and the other places
          owed,     \* what customers owe for bills on credit
          held,     \* what a device really holds
          gift,     \* the carrier's commission in it, since the last count
          gifts,    \* commission given so far, on all devices
          earned,   \* commission found by closing counts of a counted opening
          untold,   \* of what a device holds, no count and no row since tells
          view,     \* the session whose balance of a device is right: 0, any
                    \* that has not touched it; None, nobody's
          fair,     \* every count so far was of the view that was right
          cut,      \* a request ended after only part of its effects
          tx, served

directory == <<carriers, hidden, devs>>
books == <<till, started, ds, rows, bills, closes, money, owed>>
phys  == <<held, gift, gifts, earned, untold, view, fair>>
vars  == <<books, directory, phys, cut, tx, served>>

Session == 1 .. MaxSession
Place   == Till \cup Store
Ops     == {"deposit", "withdrawal", "billpay", "getmoney", "refill", "reload", "wallet", "reverse"}
Types   == {"opening", "deposit", "withdrawal", "billpay", "reload", "wallet_in", "refill",
            "reversal", "reversal_lost"}
Modes   == {"", "credit", "failed", "wrong_number"}
Purpose == {"recharge", "money"}
Edits   == {"add_carrier", "rename", "switch", "add_device", "update", "retire", "toggle"}

NoCount == -1
NoRow   == [opening |-> NoCount, closing |-> NoCount, closedAt |-> 0]
Row == [sid : 0 .. MaxSession, dev : Device, typ : Types, amount : Nat, delta : Int, svc : Nat,
        at : Nat, reversed : BOOLEAN, of : Nat]
Bill    == [typ : Ops, amount : Nat, svc : Nat, at : Nat]
Carrier == [name : Name, on : BOOLEAN, prod : Nat]
DevRow  == [st : {"none", "on", "off"}, carrier : Nat, uses : SUBSET Purpose]

\* till: the cashier's; None, the office's.  acct: the place a bill is paid from.
\* cash: where the customer's cash goes, or a refill's comes from.  of: the row
\* to reverse.
ASSUME RechargeAssumption ==
    /\ MaxRequests \in Nat /\ MaxSession \in Nat /\ MaxGift \in Nat
    /\ MaxClose \in Nat /\ Desk \in [Tx -> SUBSET (Request \cup Edit)]
    /\ Till \cap Store = {} /\ None \notin Place \cup Device /\ CashierAccess \subseteq Store
    /\ Edit \subseteq [op : Edits, carrier : Nat, dev : Device \cup {None}, name : Name,
                       uses : SUBSET Purpose, amount : Nat]
    /\ InitDevs \in [Device -> DevRow] /\ InitCarriers \in Seq(Carrier)
    /\ Request \subseteq [op : Ops, till : Till \cup {None}, dev : Device \cup {None},
                          acct : Place \cup {None}, cash : Place \cup {None},
                          amount : Nat \ {0}, svc : Nat, mode : Modes, of : Nat]
    /\ InitMoney \in [Place -> Int] /\ InitHeld \in [Device -> Nat]
    /\ InitRow \in Seq(Row)

Pcs == {"idle", "begin", "check", "cash", "svc", "float", "credit", "row", "bill", "legs", "pay",
        "sale", "post", "refund", "reverse", "product", "carrier", "rename", "rename_product",
        "switch", "device", "opening", "set", "done", "refused"}

-----------------------------------------------------------------------------
(***************************************************************************)
(* The float.                                                              *)
(***************************************************************************)
\* txKinds, Deltas.
FloatSign(typ) == CASE typ \in {"opening", "withdrawal", "wallet_in", "refill", "reversal"} -> 1
                    [] typ \in {"deposit", "billpay", "reload"} -> -1
                    [] OTHER -> 0

Net(I) == MapThenSumSet(LAMBDA i : rows[i].delta, I)

Of(s, d) == {i \in DOMAIN rows : rows[i].sid = s /\ rows[i].dev = d}

Counted(s, d) == ds[s][d].opening # NoCount
Closed(s, d)  == ds[s][d].closing # NoCount

LastClose(d) ==
    LET C == {s \in Session : Closed(s, d)}
    IN IF C = {} THEN [closing |-> 0, closedAt |-> 0]
       ELSE ds[CHOOSE s \in C : \A u \in C : ds[u][d].closedAt <= ds[s][d].closedAt][d]

\* The last closing, and what moved outside any session since.
Carried(d) ==
    LastClose(d).closing + Net({i \in Of(0, d) : rows[i].at >= LastClose(d).closedAt})

\* Mutant: a counted opening is passed over.
AlwaysCarried(s, d) == Carried(d)

OpeningBase(s, d) == IF Counted(s, d) THEN ds[s][d].opening ELSE Carried(d)

DeviceBalance(s, d) == OpeningBase(s, d) + Net(Of(s, d))

WouldOverdraw(s, d, n) == n > DeviceBalance(s, d)

\* A retired device has no carrier (CarrierOfDevice).
CarrierOfDevice(d) == IF devs[d].st = "on" THEN devs[d].carrier ELSE 0

Listed(d) == CarrierOfDevice(d) # 0 /\ carriers[devs[d].carrier].on

\* The pickers: of one carrier or of all (0), for one purpose or for any ("").
DevicesWithBalance(s, c, purpose) ==
    {[dev |-> d, bal |-> DeviceBalance(s, d)] :
        d \in {e \in Device : /\ Listed(e) /\ c \in {0, devs[e].carrier}
                              /\ purpose = "" \/ purpose \in devs[e].uses}}

OpenDeviceSession(d) ==
    LET S == {s \in Session : Counted(s, d) /\ ~Closed(s, d)} IN IF S = {} THEN 0 ELSE Max(S)

\* Reconciliation's handover of a session, and rangeEarnings' commission.
Handover(s, d) == ds[s][d].opening - Carried(d)

Commission(d) ==
    MapThenSumSet(LAMBDA s : ds[s][d].closing - ds[s][d].opening - Net(Of(s, d)),
                  {s \in Session : Closed(s, d)})

-----------------------------------------------------------------------------
(***************************************************************************)
(* Whose view stays right when a row is added.                             *)
(***************************************************************************)
Untouched(s, d) == s \in {till[k] : k \in Till} /\ ~Counted(s, d) /\ Of(s, d) = {}

ViewAfter(s, d, n) ==
    IF n = 0 \/ (s = view[d] /\ view[d] # None)
          \/ (s = 0 /\ view[d] \in Session /\ ~Counted(view[d], d)) THEN view[d]
    ELSE IF view[d] = 0 /\ s # 0 /\ Untouched(s, d) THEN s
    ELSE None

See(d, v) == /\ view' = [view EXCEPT ![d] = v]
             /\ fair' = [fair EXCEPT ![d] = @ /\ v # None]

\* RecordTransactionTx in a session, with the e-money it stands for.
Added(s, d, typ, n, svc, of) ==
    Append(rows, [sid |-> s, dev |-> d, typ |-> typ, amount |-> n, delta |-> FloatSign(typ) * n,
                  svc |-> svc, at |-> closes, reversed |-> FALSE, of |-> of])

Post(s, d, typ, n, svc) == /\ rows' = Added(s, d, typ, n, svc, 0)
                           /\ held' = [held EXCEPT ![d] = @ + FloatSign(typ) * n]
                           /\ See(d, ViewAfter(s, d, FloatSign(typ) * n))
                           /\ UNCHANGED <<gift, gifts, earned, untold>>

-----------------------------------------------------------------------------
(***************************************************************************)
(* Requests.                                                               *)
(***************************************************************************)
Idle == [pc |-> "idle", req |-> CHOOSE r \in Request : TRUE, sid |-> 0, part |-> FALSE, seen |-> FALSE]

InitClosed == {x \in Session \X Device : InitDs[x[1]][x[2]] # NoRow}

Init == /\ till = [k \in Till |-> 0] /\ started = Cardinality({x[1] : x \in InitClosed})
        /\ ds = InitDs /\ rows = InitRow /\ closes = Cardinality(InitClosed)
        /\ bills = <<>> /\ owed = 0 /\ money = InitMoney
        /\ carriers = InitCarriers /\ hidden = [i \in DOMAIN InitCarriers |-> InitCarriers[i].name]
        /\ devs = InitDevs /\ held = InitHeld
        /\ untold = [d \in Device |-> IF InitDevs[d].st = "none" THEN InitHeld[d] ELSE 0]
        /\ gift = [d \in Device |-> 0] /\ gifts = 0 /\ earned = [d \in Device |-> Commission(d)]
        /\ view = [d \in Device |-> IF InitDevs[d].st = "none" /\ InitHeld[d] # 0 THEN None ELSE 0] /\ fair = [d \in Device |-> TRUE]
        /\ cut = FALSE /\ served = [t \in Tx |-> 0] /\ tx = [t \in Tx |-> Idle]

R(t)      == tx[t].req
At(t, pc) == tx[t].pc = pc
Ended(t)  == tx[t].pc \in {"idle", "refused"}
Quiet     == \A t \in Tx : Ended(t)

Go(t, pc)  == tx' = [tx EXCEPT ![t].pc = pc]
End(t, pc) == tx' = [tx EXCEPT ![t] = [Idle EXCEPT !.pc = pc, !.part = tx[t].part]]
Act(t, pc) == tx' = [tx EXCEPT ![t] = IF pc = "done" THEN Idle ELSE [@ EXCEPT !.pc = pc, !.part = TRUE]]
Refuse(t)  == /\ End(t, "refused")
               /\ cut' = (cut \/ tx[t].part)
               /\ UNCHANGED <<books, directory, phys>>

Begin(t, r) == /\ Ended(t) /\ served[t] < MaxRequests
               /\ r.op = "add_device" => devs[r.dev].st = "none"   \* a new id
               /\ served' = [served EXCEPT ![t] = @ + 1]
               /\ tx' = [tx EXCEPT ![t] = [Idle EXCEPT !.pc = "begin", !.req = r]]
               /\ UNCHANGED <<books, directory, phys, cut>>

RowType(r) == IF r.op = "reload" THEN "reload" ELSE "wallet_in"

\* The e-money moved with the sale, whatever became of its row.
Unposted(t) == LET r == R(t) IN
    /\ held' = [held EXCEPT ![r.dev] = @ + FloatSign(RowType(r)) * r.amount]
    /\ untold' = [untold EXCEPT ![r.dev] = @ + FloatSign(RowType(r)) * r.amount]
    /\ See(r.dev, None)
    /\ cut' = TRUE
    /\ UNCHANGED <<gift, gifts, earned>>

\* The server stops, or the browser's next call never arrives.  Airtime sold and
\* a wallet received are then in nobody's view.
Cancel(t) == /\ ~Ended(t) /\ ~At(t, "begin")
             /\ tx' = [tx EXCEPT ![t] = Idle]
             /\ IF At(t, "post") THEN Unposted(t)
                ELSE cut' = (cut \/ tx[t].part) /\ UNCHANGED phys
             /\ UNCHANGED <<books, directory, served>>

-----------------------------------------------------------------------------
(***************************************************************************)
(* A request's first reads (requireSession and the form's checks).         *)
(***************************************************************************)
\* A get-money on credit is a cash advance: no account is looked up.
Advance(r) == r.op = "getmoney" /\ r.mode = "credit"

Sess(r) == IF r.till = None THEN 0 ELSE till[r.till]

Asks(t, ops) == At(t, "begin") /\ R(t).op \in ops

Admit(t, s, next) == /\ tx' = [tx EXCEPT ![t].pc = next, ![t].sid = s]
                     /\ UNCHANGED <<books, directory, phys, cut, served>>

Reject(t) == Refuse(t) /\ UNCHANGED served

\* A deposit or a withdrawal at the counter (Tx).
CashTx(t) ==
    /\ Asks(t, {"deposit", "withdrawal"})
    /\ LET r == R(t) IN
       IF Sess(r) = 0 \/ CarrierOfDevice(r.dev) = 0 THEN Reject(t) ELSE Admit(t, Sess(r), "check")

\* A bill or cash for a customer at the counter: by a bank open to cashiers, by a
\* device for money, or an advance.
BankTx(t) ==
    /\ Asks(t, {"billpay", "getmoney"}) /\ R(t).till # None
    /\ LET r == R(t)
           s == Sess(r)
       IN IF s = 0 THEN Reject(t)
          ELSE IF Advance(r) THEN Admit(t, s, "cash")
          ELSE IF r.dev = None
               THEN IF r.acct \in CashierAccess THEN Admit(t, s, "legs") ELSE Reject(t)
          ELSE IF \E x \in DevicesWithBalance(s, 0, "money") : x.dev = r.dev
               THEN Admit(t, s, "check") ELSE Reject(t)

\* The same in the office, between two places of its list (admin_bills.go).
LocationChoices == Store \cup {k \in Till : till[k] # 0}

OfficeBankTx(t) ==
    /\ Asks(t, {"billpay", "getmoney"}) /\ R(t).till = None
    /\ LET r == R(t) IN
       IF {r.acct, r.cash} \subseteq LocationChoices /\ r.acct # r.cash THEN Admit(t, 0, "legs") ELSE Reject(t)

\* Buying float at the counter, from a place this cashier may use.
RefillSources(k) == {k} \cup CashierAccess

Refill(t) ==
    /\ Asks(t, {"refill"}) /\ R(t).till # None
    /\ LET r == R(t) IN
       IF r.cash \notin RefillSources(r.till) \/ CarrierOfDevice(r.dev) = 0 THEN Reject(t)
       ELSE Admit(t, OpenDeviceSession(r.dev), "pay")

OfficeRefill(t) ==
    /\ Asks(t, {"refill"}) /\ R(t).till = None
    /\ LET r == R(t) IN
       IF CarrierOfDevice(r.dev) = 0 THEN Reject(t) ELSE Admit(t, OpenDeviceSession(r.dev), "pay")

\* A reload goes into the cart when the device's balance covers it.
MenuReloadAdd(t) ==
    /\ Asks(t, {"reload"})
    /\ LET r == R(t)
           s == Sess(r)
       IN IF s = 0 THEN Reject(t)
          ELSE IF \E x \in DevicesWithBalance(s, CarrierOfDevice(r.dev), "recharge") :
                    x.dev = r.dev /\ r.amount <= x.bal
               THEN Admit(t, s, "sale")
               ELSE Reject(t)

\* The till offers a wallet on the devices listed (Devices).
OfferWallet(t) ==
    /\ Asks(t, {"wallet"})
    /\ LET r == R(t) IN
       IF Sess(r) # 0 /\ Listed(r.dev) THEN Admit(t, Sess(r), "sale") ELSE Reject(t)

\* ReverseReload's guard, before any cash moves.
Reversible(i) == i \in DOMAIN rows /\ rows[i].typ = "reload" /\ ~rows[i].reversed

ReverseReload(t) ==
    /\ Asks(t, {"reverse"})
    /\ LET r == R(t) IN
       IF Sess(r) # 0 /\ Reversible(r.of) THEN Admit(t, Sess(r), "refund") ELSE Reject(t)

Start(t) == \/ CashTx(t) \/ BankTx(t) \/ OfficeBankTx(t) \/ Refill(t) \/ OfficeRefill(t)
            \/ MenuReloadAdd(t) \/ OfferWallet(t) \/ ReverseReload(t)

\* The overdraw hard-block on a deposit and on a bill paid by a device.
Check(t) ==
    /\ At(t, "check")
    /\ LET r == R(t)
       IN IF r.op \in {"deposit", "billpay"} /\ WouldOverdraw(tx[t].sid, r.dev, r.amount)
            THEN Refuse(t)
            ELSE /\ Go(t, IF r.op \in {"deposit", "withdrawal"} THEN "cash" ELSE "float")
                 /\ UNCHANGED <<books, directory, phys, cut>>
    /\ UNCHANGED served

-----------------------------------------------------------------------------
(***************************************************************************)
(* Cash across the drawer (PayIn, Withdraw of the cash register).          *)
(***************************************************************************)
Cash(place, n) == money' = [money EXCEPT ![place] = @ + n]

CanMove(place, n) == /\ place \in Till => till[place] # 0
                     /\ n < 0 => money[place] + n >= 0

\* What the operation moves through the drawer in its cash step.
CashOf(r) == CASE r.op = "deposit" -> r.amount
               [] r.op = "billpay" -> r.amount + r.svc
               [] OTHER -> -r.amount

AfterCash(r) == CASE r.op \in {"deposit", "withdrawal"} -> IF r.svc > 0 THEN "svc" ELSE "row"
                  [] Advance(r) -> "credit"
                  [] r.op = "getmoney" /\ r.svc > 0 -> "svc"
                  [] OTHER -> "bill"

MoveCash(t) ==
    /\ At(t, "cash")
    /\ LET r == R(t)
       IN IF ~CanMove(r.till, CashOf(r)) THEN Refuse(t)
          ELSE /\ Cash(r.till, CashOf(r))
               /\ Act(t, AfterCash(r))
               /\ UNCHANGED <<directory, till, started, ds, rows, bills, closes, owed, phys, cut>>
    /\ UNCHANGED served

MoveSvc(t) ==
    /\ At(t, "svc")
    /\ LET r == R(t)
       IN IF ~CanMove(r.till, r.svc) THEN Refuse(t)
          ELSE /\ Cash(r.till, r.svc)
               /\ Act(t, IF r.op \in {"deposit", "withdrawal"} THEN "row" ELSE "bill")
               /\ UNCHANGED <<directory, till, started, ds, rows, bills, closes, owed, phys, cut>>
    /\ UNCHANGED served

\* RecordTransaction of a deposit or a withdrawal, under the session read first.
RecordTx(t) ==
    /\ At(t, "row")
    /\ LET r == R(t) IN Post(tx[t].sid, r.dev, r.op, r.amount, r.svc)
    /\ Act(t, "done")
    /\ UNCHANGED <<directory, till, started, ds, bills, closes, money, owed, cut, served>>

-----------------------------------------------------------------------------
(***************************************************************************)
(* Bills and cash for customers.                                           *)
(***************************************************************************)
\* moveBillDevice: the float first, then the cash or the customer's account.
MoveFloat(t) ==
    /\ At(t, "float")
    /\ LET r == R(t) IN
       /\ Post(tx[t].sid, r.dev, IF r.op = "billpay" THEN "billpay" ELSE "withdrawal", r.amount, 0)
       /\ Act(t, IF r.mode = "credit" THEN "credit" ELSE "cash")
    /\ UNCHANGED <<directory, till, started, ds, bills, closes, money, owed, cut, served>>

\* Mutant: the service charge stays off the account.
PrincipalOnly(r) == r.amount

\* The total a bill on credit adds to the customer's balance.
OnAccount(r) == r.amount + r.svc

Charge(t) ==
    /\ At(t, "credit")
    /\ owed' = owed + OnAccount(R(t))
    /\ Act(t, "bill")
    /\ UNCHANGED <<directory, till, started, ds, rows, bills, closes, money, phys, cut, served>>

\* buildBankLegs, bankBillLegs: the guarded leg first.
BankLegs(r) ==
    CASE r.op = "billpay" /\ r.mode = "credit" -> <<[at |-> r.acct, n |-> -r.amount]>>
      [] r.op = "billpay" /\ r.mode # "credit" ->
            <<[at |-> r.acct, n |-> -r.amount], [at |-> r.cash, n |-> r.amount + r.svc]>>
      [] OTHER -> <<[at |-> r.cash, n |-> -r.amount], [at |-> r.acct, n |-> r.amount],
                    [at |-> r.cash, n |-> r.svc]>>

\* moveBillBank and the office's BankTx: every leg in one transaction.
MoveBank(t) ==
    /\ At(t, "legs")
    /\ LET r == R(t)
           legs == BankLegs(r)
           sum(p) == MapThenSumSet(LAMBDA i : legs[i].n, {i \in DOMAIN legs : legs[i].at = p})
       IN IF \E i \in DOMAIN legs : ~CanMove(legs[i].at, legs[i].n) THEN Refuse(t)
          ELSE /\ money' = [p \in Place |-> money[p] + sum(p)]
               /\ owed' = IF r.mode = "credit" THEN owed + OnAccount(r) ELSE owed
               /\ Act(t, "bill")
               /\ UNCHANGED <<directory, till, started, ds, rows, bills, closes, phys, cut>>
    /\ UNCHANGED served

\* RecordBillTx.
RecordBill(t) ==
    /\ At(t, "bill")
    /\ LET r == R(t) IN
       bills' = Append(bills, [typ |-> r.op, amount |-> r.amount, svc |-> r.svc, at |-> closes])
    /\ Act(t, "done")
    /\ UNCHANGED <<directory, till, started, ds, rows, closes, money, owed, phys, cut, served>>

-----------------------------------------------------------------------------
(***************************************************************************)
(* Buying float (Refill, at the counter and in the office).  The session    *)
(* was looked up before the transaction.                                   *)
(***************************************************************************)
PayRefill(t) ==
    /\ At(t, "pay")
    /\ LET r == R(t)
       IN IF ~CanMove(r.cash, -r.amount) THEN Refuse(t)
          ELSE /\ Cash(r.cash, -r.amount)
               /\ Post(tx[t].sid, r.dev, "refill", r.amount, 0)
               /\ Act(t, "done")
               /\ UNCHANGED <<directory, till, started, ds, bills, closes, owed, cut>>
    /\ UNCHANGED served

(***************************************************************************)
(* Selling airtime, and taking a wallet payment.  The sale commits, with    *)
(* its cash; the browser then posts the row, once (attributeReloads,       *)
(* attributeWallet).                                                       *)
(***************************************************************************)
Sell(t) ==
    /\ At(t, "sale")
    /\ LET r == R(t)
       IN IF ~CanMove(r.till, 0) THEN Refuse(t)
          ELSE /\ IF r.op = "reload" THEN Cash(r.till, r.amount) ELSE UNCHANGED money
               /\ Act(t, "post")
               /\ UNCHANGED <<directory, till, started, ds, rows, bills, closes, owed, phys, cut>>
    /\ UNCHANGED served

\* Reload, Wallet: under the session open by now, on a device not retired.
PostSold(t) ==
    /\ At(t, "post")
    /\ LET r == R(t)
       IN IF till[r.till] = 0 \/ CarrierOfDevice(r.dev) = 0
            THEN End(t, "refused") /\ Unposted(t) /\ UNCHANGED <<books, directory>>
          ELSE /\ Post(till[r.till], r.dev, RowType(r), r.amount, 0)
               /\ Act(t, "done")
               /\ UNCHANGED <<directory, till, started, ds, bills, closes, money, owed, cut>>
    /\ UNCHANGED served

-----------------------------------------------------------------------------
(***************************************************************************)
(* Reversing a reload: the customer's cash, then the float (ReverseReload).*)
(***************************************************************************)
PayBack(t) ==
    /\ At(t, "refund")
    /\ LET r == R(t)
           n == rows[r.of].amount
       IN IF ~CanMove(r.till, -n) THEN Refuse(t)
          ELSE /\ Cash(r.till, -n)
               /\ Act(t, "reverse")
               /\ UNCHANGED <<directory, till, started, ds, rows, bills, closes, owed, phys, cut>>
    /\ UNCHANGED served

\* Mutant: the form's guard is thought to be enough.
StillReload(i) == rows[i].typ = "reload"

\* What reverseReloadTx checks on the row it has locked.
StillReversible(i) == rows[i].typ = "reload" /\ ~rows[i].reversed

\* reverseReloadTx: the reload's own session and device.
ReverseRow(t) ==
    /\ At(t, "reverse")
    /\ LET r == R(t)
           o == rows[r.of]
           typ == IF r.mode = "failed" THEN "reversal" ELSE "reversal_lost"
           n == FloatSign(typ) * o.amount
       IN IF ~StillReversible(r.of) THEN Refuse(t)
          ELSE /\ rows' = [Added(o.sid, o.dev, typ, o.amount, 0, r.of) EXCEPT ![r.of].reversed = TRUE]
               /\ held' = [held EXCEPT ![o.dev] = @ + n]
               /\ See(o.dev, ViewAfter(o.sid, o.dev, n))
               /\ Act(t, "done")
               /\ UNCHANGED <<directory, till, started, ds, bills, closes, money, owed, gift, gifts, earned, untold, cut>>
    /\ UNCHANGED served

-----------------------------------------------------------------------------
(***************************************************************************)
(* Carriers and devices.  Each handler reads first, then writes, statement  *)
(* by statement.                                                           *)
(***************************************************************************)
\* Among the carriers that are enabled; the unique index of the table says the same.
CarrierNameTaken(name, but) ==
    \E i \in DOMAIN carriers \ {but} : carriers[i].on /\ carriers[i].name = name

Look(t, pc, seen) == /\ tx' = [tx EXCEPT ![t].pc = pc, ![t].seen = seen]
                     /\ UNCHANGED <<books, directory, phys, cut, served>>

CarrierCreate(t) ==
    /\ Asks(t, {"add_carrier"})
    /\ IF CarrierNameTaken(R(t).name, 0) THEN Reject(t) ELSE Look(t, "product", FALSE)

CarrierRename(t) ==
    /\ Asks(t, {"rename"})
    /\ LET r == R(t) IN
       IF r.carrier \notin DOMAIN carriers \/ CarrierNameTaken(r.name, r.carrier) THEN Reject(t)
       ELSE Look(t, "rename", FALSE)

CarrierToggle(t) ==
    /\ Asks(t, {"switch"})
    /\ LET r == R(t) IN
       IF \/ r.carrier \notin DOMAIN carriers
          \/ ~carriers[r.carrier].on /\ CarrierNameTaken(carriers[r.carrier].name, r.carrier)
         THEN Reject(t) ELSE Look(t, "switch", carriers[r.carrier].on)

DeviceCreate(t) == Asks(t, {"add_device"}) /\ Look(t, "device", FALSE)

DeviceUpdate(t) == Asks(t, {"update"}) /\ Look(t, "set", FALSE)

DeviceDelete(t) == Asks(t, {"retire"}) /\ Look(t, "set", TRUE)

DeviceToggle(t) ==
    /\ Asks(t, {"toggle"})
    /\ LET d == R(t).dev IN
       IF devs[d].st = "none" THEN Reject(t) ELSE Look(t, "set", devs[d].st = "on")

\* Mutant: the second statement of a rename is left to the next one.
Kept(t) == "done"

AfterRename(t) == "rename_product"

\* The hidden product a carrier's reloads are sold as, before the carrier itself.
AddProduct(t) ==
    /\ At(t, "product")
    /\ hidden' = Append(hidden, R(t).name)
    /\ tx' = [tx EXCEPT ![t].pc = "carrier", ![t].sid = Len(hidden) + 1]
    /\ UNCHANGED <<books, carriers, devs, phys, cut, served>>

CreateCarrier(t) ==
    /\ At(t, "carrier")
    /\ IF CarrierNameTaken(R(t).name, 0) THEN Reject(t)
       ELSE /\ carriers' = Append(carriers, [name |-> R(t).name, on |-> TRUE, prod |-> tx[t].sid])
            /\ Act(t, "done")
            /\ UNCHANGED <<books, hidden, devs, phys, cut, served>>

RenameCarrier(t) ==
    /\ At(t, "rename")
    /\ LET r == R(t) IN
       IF carriers[r.carrier].on /\ CarrierNameTaken(r.name, r.carrier) THEN Reject(t)
       ELSE /\ carriers' = [carriers EXCEPT ![r.carrier].name = r.name]
            /\ Act(t, AfterRename(t))
            /\ UNCHANGED <<books, hidden, devs, phys, cut, served>>

RenameProduct(t) ==
    /\ At(t, "rename_product")
    /\ hidden' = [hidden EXCEPT ![carriers[R(t).carrier].prod] = R(t).name]
    /\ Act(t, "done")
    /\ UNCHANGED <<books, carriers, devs, phys, cut, served>>

SetCarrierActive(t) ==
    /\ At(t, "switch")
    /\ LET r == R(t) IN
       IF ~tx[t].seen /\ CarrierNameTaken(carriers[r.carrier].name, r.carrier) THEN Reject(t)
       ELSE /\ carriers' = [carriers EXCEPT ![r.carrier].on = ~tx[t].seen]
            /\ Act(t, "done")
            /\ UNCHANGED <<books, hidden, devs, phys, cut, served>>

CreateDevice(t) ==
    /\ At(t, "device")
    /\ LET r == R(t) IN
       /\ devs' = [devs EXCEPT ![r.dev] = [st |-> "on", carrier |-> r.carrier, uses |-> r.uses]]
       /\ Act(t, IF r.amount > 0 THEN "opening" ELSE "done")
    /\ UNCHANGED <<books, carriers, hidden, phys, cut, served>>

\* What was on the device before: a row of no session, no cash and no expense.
RecordOpeningFloat(t) ==
    /\ At(t, "opening")
    /\ LET r == R(t) IN
       /\ rows' = Added(0, r.dev, "opening", r.amount, 0, 0)
       /\ untold' = [untold EXCEPT ![r.dev] = @ - r.amount]
       /\ view' = [view EXCEPT ![r.dev] =
                     IF \A s \in Session : ds[s][r.dev] = NoRow /\ Of(s, r.dev) = {} THEN 0
                     ELSE IF @ \in Session /\ Counted(@, r.dev) THEN @ ELSE None]
    /\ Act(t, "done")
    /\ UNCHANGED <<directory, till, started, ds, bills, closes, money, owed, held, gift, gifts, earned,
                   fair, cut, served>>

\* UpdateDevice, DeactivateDevice, SetDeviceActive.
SetDevice(t) ==
    /\ At(t, "set")
    /\ LET r == R(t) IN
       devs' = IF devs[r.dev].st = "none" THEN devs
               ELSE IF r.op = "update" THEN [devs EXCEPT ![r.dev].uses = r.uses]
               ELSE [devs EXCEPT ![r.dev].st = IF tx[t].seen THEN "off" ELSE "on"]
    /\ Act(t, "done")
    /\ UNCHANGED <<books, carriers, hidden, phys, cut, served>>

Keep(t) == \/ CarrierCreate(t) \/ CarrierRename(t) \/ CarrierToggle(t)
           \/ DeviceCreate(t) \/ DeviceUpdate(t) \/ DeviceDelete(t) \/ DeviceToggle(t)
           \/ AddProduct(t) \/ CreateCarrier(t) \/ RenameCarrier(t) \/ RenameProduct(t)
           \/ SetCarrierActive(t) \/ CreateDevice(t) \/ RecordOpeningFloat(t) \/ SetDevice(t)

-----------------------------------------------------------------------------
(***************************************************************************)
(* The till's day.  Opening and closing counts are posted by the till's     *)
(* dialogs, after it opens and before it closes; a device left blank is not *)
(* counted.                                                                *)
(***************************************************************************)
OpenTill(k) == /\ till[k] = 0 /\ started < MaxSession
               /\ started' = started + 1
               /\ till' = [till EXCEPT ![k] = started + 1]
               /\ UNCHANGED <<directory, ds, rows, bills, closes, money, owed, phys, cut, tx, served>>

\* The next session starts from the last close, without this one's rows.
CloseTill(k) ==
    LET s    == till[k]
        left == {d \in Device : view[d] = s}
    IN /\ s # 0
       /\ till' = [till EXCEPT ![k] = 0]
       /\ view' = [d \in Device |-> IF d \in left THEN None ELSE view[d]]
       /\ fair' = [d \in Device |-> fair[d] /\ d \notin left]
       /\ UNCHANGED <<directory, started, ds, rows, bills, closes, money, owed, held, gift, gifts, earned, untold,
                      cut, tx, served>>

\* Mutant: the upsert forgets WHERE closed_at IS NULL.
OpenedAlways(s, d, n) == [ds EXCEPT ![s][d].opening = n]

\* The upsert of SaveOpening: a closed row stays as it is.
Opened(s, d, n) == IF Closed(s, d) THEN ds ELSE [ds EXCEPT ![s][d].opening = n]

SaveOpening(k, d) ==
    LET s == till[k]
        moved == Of(s, d) # {}
    IN /\ s # 0 /\ devs[d].st # "none" /\ held[d] >= 0
       /\ ds' = Opened(s, d, held[d])
       /\ IF Closed(s, d) THEN UNCHANGED <<gift, view, fair>>
          ELSE /\ See(d, IF moved THEN None ELSE s)
               /\ gift' = [gift EXCEPT ![d] = 0]
       /\ UNCHANGED <<directory, till, started, rows, bills, closes, money, owed, held, gifts, earned, untold,
                      cut, tx, served>>

\* The upsert of SaveClosing: a device nobody counted opens at zero.
SaveClosing(k, d) ==
    LET s == till[k]
    IN /\ s # 0 /\ devs[d].st # "none" /\ held[d] >= 0 /\ closes < MaxClose
       /\ closes' = closes + 1
       /\ ds' = [ds EXCEPT ![s][d] = [opening  |-> IF Counted(s, d) THEN @.opening ELSE 0,
                                      closing  |-> held[d],
                                      closedAt |-> closes + 1]]
       /\ view' = [view EXCEPT ![d] = 0]
       /\ fair' = [fair EXCEPT ![d] = @ /\ view[d] = s /\ Counted(s, d)]
       /\ gift' = [gift EXCEPT ![d] = 0]
       /\ untold' = [untold EXCEPT ![d] = 0]
       /\ earned' = [earned EXCEPT ![d] = @ + gift[d]]
       /\ UNCHANGED <<directory, till, started, rows, bills, money, owed, held, gifts, cut, tx, served>>

\* The carrier's commission arrives on the device.
Gift(d) ==
    /\ gifts < MaxGift /\ devs[d].st # "none"
    /\ gifts' = gifts + 1
    /\ held' = [held EXCEPT ![d] = @ + 1]
    /\ gift' = [gift EXCEPT ![d] = @ + 1]
    /\ untold' = [untold EXCEPT ![d] = @ + 1]
    /\ UNCHANGED <<books, directory, earned, view, fair, cut, tx, served>>

-----------------------------------------------------------------------------
Step(t) == \/ \E r \in Desk[t] : Begin(t, r)
           \/ Cancel(t)
           \/ Start(t) \/ Check(t)
           \/ MoveCash(t) \/ MoveSvc(t) \/ RecordTx(t)
           \/ MoveFloat(t) \/ Charge(t) \/ MoveBank(t) \/ RecordBill(t)
           \/ PayRefill(t)
           \/ Sell(t) \/ PostSold(t)
           \/ PayBack(t) \/ ReverseRow(t)
           \/ Keep(t)

Next == \/ \E t \in Tx : Step(t)
        \/ \E k \in Till : OpenTill(k) \/ CloseTill(k)
        \/ \E k \in Till, d \in Device : SaveOpening(k, d) \/ SaveClosing(k, d)
        \/ \E d \in Device : Gift(d)

Spec == Init /\ [][Next]_vars

-----------------------------------------------------------------------------
(***************************************************************************)
(* Properties.                                                             *)
(***************************************************************************)
\* The variables keep their types.
TypeOK ==
    /\ till \in [Till -> 0 .. MaxSession] /\ started \in 0 .. MaxSession
    /\ \A s \in Session, d \in Device :
          ds[s][d] \in [opening : Int, closing : Int, closedAt : 0 .. closes]
    /\ rows \in Seq(Row) /\ bills \in Seq(Bill) /\ owed \in Nat
    /\ carriers \in Seq(Carrier) /\ hidden \in Seq(Name) /\ devs \in [Device -> DevRow]
    /\ money \in [Place -> Int] /\ held \in [Device -> Int]
    /\ gift \in [Device -> 0 .. MaxGift] /\ earned \in [Device -> Int]
    /\ view \in [Device -> Session \cup {0, None}]
    /\ \A t \in Tx : tx[t].pc \in Pcs /\ tx[t].req \in Request \cup Edit /\ tx[t].sid \in Nat

\* The derived balance of a device is what is on it, commission since the last
\* count apart, for the session that has used it alone since it was counted; and
\* for one that has not touched it, once the last user has closed it.
LiveBalance == \A d \in Device :
    view[d] # None =>
       held[d] - gift[d] = IF view[d] = 0 THEN Carried(d) ELSE DeviceBalance(view[d], d)

\* The commission the profit report books is the commission the carrier gave, as
\* long as every session counted the device when it opened and when it closed and
\* nothing moved outside (rangeEarnings).
CommissionIsGift == \A d \in Device : fair[d] => Commission(d) = earned[d]

\* A reload is reversed at most once, however many reversals of it run.
ReversedOnce == \A i \in DOMAIN rows :
    Cardinality({j \in DOMAIN rows : rows[j].of = i}) = (IF rows[i].reversed THEN 1 ELSE 0)

Worth == MapThenSumSet(LAMBDA p : money[p] - InitMoney[p], Place) + owed
         + MapThenSumSet(LAMBDA d : held[d] - InitHeld[d], Device)

New == DOMAIN rows \ DOMAIN InitRow

Charged == MapThenSumSet(LAMBDA i : bills[i].svc, DOMAIN bills)

Takings(typ) == MapThenSumSet(LAMBDA i : rows[i].amount, {i \in New : rows[i].typ = typ})

\* Cash, float and what customers owe together move by what the shop earned, and
\* nothing else, when no request was cut off halfway: the service charges it
\* booked, what was paid by wallet, the carrier's gifts, less airtime sent to a
\* wrong number.
WorthExplained ==
    Quiet /\ ~cut =>
       Worth = MapThenSumSet(LAMBDA i : rows[i].svc, New) + Charged + gifts
               + Takings("wallet_in") - Takings("reversal_lost")

\* "Pre-guard BEFORE moving any cash, so a double-submit can't leave an orphan
\* refund withdrawal" (cashier.go): a refused request has had no effect.
RefusedIsWhole == \A t \in Tx : At(t, "refused") => ~tx[t].part

\* "Handover = counted opening vs last close" (pages.templ): what the report shows
\* for a session does not change when that session closes.
HandoverStays == [][\A s \in Session, d \in Device :
    Counted(s, d) /\ ~Closed(s, d) /\ ds'[s][d].closing # NoCount
       => Handover(s, d)' = Handover(s, d)]_vars
=============================================================================
