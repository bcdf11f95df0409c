------------------------------- MODULE Float -------------------------------
(***************************************************************************)
(* The pages about float: each selects and adds up the rows of Recharge     *)
(* anew.  The till's reconciliation and pickers, the office's panel, report *)
(* and ledger, the receipts' tabs, the activity trail, and what the profit  *)
(* report takes of all this.                                               *)
(*                                                                         *)
(* The clock is closes: what was written after the n-th closing count is   *)
(* of moment n, and a period is [from, to).                                *)
(***************************************************************************)
EXTENDS Recharge

Add(f(_), S) == MapThenSumSet(f, S)

ListedDevices == {d \in Device : Listed(d)}

-----------------------------------------------------------------------------
\* One device's line of a session's reconciliation.
Moved(s, d, sign) == Add(LAMBDA i : sign * rows[i].delta, {i \in Of(s, d) : sign * rows[i].delta > 0})

Expected(s, d) == OpeningBase(s, d) + Moved(s, d, 1) - Moved(s, d, -1)

\* With no closing counted, the variance is zero.
Bonus(s, d) == IF Closed(s, d) THEN ds[s][d].closing - Expected(s, d) ELSE 0

Recon(s, d) ==
    [opening  |-> OpeningBase(s, d), in |-> Moved(s, d, 1), out |-> Moved(s, d, -1),
     expected |-> Expected(s, d),    bonus |-> Bonus(s, d),
     handover |-> IF ds[s][d] # NoRow /\ \E u \in Session : Closed(u, d) THEN Handover(s, d) ELSE 0]

Reconciliation(s) == [d \in ListedDevices |-> Recon(s, d)]

\* sessionBonus, of the carriers a session's block shows.
SessionBonus(s) == Add(LAMBDA d : Bonus(s, d), ListedDevices)

\* "Where's my money": last closing, and every movement since, of any session.
PanelBalance(d) ==
    LastClose(d).closing
    + Net({i \in DOMAIN rows : rows[i].dev = d /\ rows[i].at >= LastClose(d).closedAt})

DeviceBalances == [d \in ListedDevices |-> PanelBalance(d)]

\* The closing form of the till's dialog offers a line for each of these.
DrawerCloseFields(s) == {[dev |-> d, expected |-> Recon(s, d).expected] : d \in ListedDevices}

\* The accounts a bill may be paid from: banks, and devices for money.
Accounts(s) == {[at |-> p, bal |-> money[p]] : p \in CashierAccess}
               \cup {[at |-> x.dev, bal |-> x.bal] : x \in DevicesWithBalance(s, 0, "money")}

MenuReloadDevices(s, c) == DevicesWithBalance(s, c, "recharge")

-----------------------------------------------------------------------------
In(x, from, to) == from <= x.at /\ x.at < to

\* A filter: a period, and a device or a type (None, "": any).
Ledger(from, to, d, typ) ==
    {i \in DOMAIN rows : In(rows[i], from, to) /\ d \in {None, rows[i].dev} /\ typ \in {"", rows[i].typ}}

BillLedger(from, to) == {i \in DOMAIN bills : In(bills[i], from, to)}

ServiceEarned(from, to) ==
    Add(LAMBDA i : rows[i].svc, Ledger(from, to, None, ""))
    + Add(LAMBDA i : bills[i].svc, BillLedger(from, to))

\* The report's bars; the reversals and the openings have none.
Bars == {"deposit", "withdrawal", "billpay", "wallet_in", "reload", "refill"}

TypeBars(from, to) ==
    [typ \in Bars |-> Add(LAMBDA i : rows[i].amount, Ledger(from, to, None, typ))]

\* The downloaded ledger, in the order of time.
LedgerCSV(d) == LET L == Ledger(0, closes + 1, d, "")
                IN SelectSeq([i \in DOMAIN rows |-> [id |-> i, float |-> rows[i].delta]],
                             LAMBDA x : x.id \in L)

ActivityRows(from, to) ==
    {[action |-> rows[i].typ, id |-> i, amount |-> rows[i].amount] : i \in Ledger(from, to, None, "")}
    \cup {[action |-> "bill " \o bills[i].typ, id |-> i, amount |-> bills[i].amount] :
             i \in BillLedger(from, to)}

\* Service charges, and the commission of the counts that closed in the period.
RangeEarnings(from, to) ==
    LET closed == {x \in Session \X Device : /\ Closed(x[1], x[2])
                                             /\ from <= ds[x[1]][x[2]].closedAt
                                             /\ ds[x[1]][x[2]].closedAt < to}
    IN Add(LAMBDA i : rows[i].svc, {i \in DOMAIN rows : In(rows[i], from, to)})
       + Add(LAMBDA i : bills[i].svc, {i \in DOMAIN bills : In(bills[i], from, to)})
       + Add(LAMBDA x : ds[x[1]][x[2]].closing - ds[x[1]][x[2]].opening - Net(Of(x[1], x[2])), closed)

-----------------------------------------------------------------------------
(***************************************************************************)
(* Properties.                                                             *)
(***************************************************************************)
\* The office's panel shows what is on a device, except what no count and no row has
\* told: commission since the last closing count, and airtime or a wallet payment
\* whose row never came.
PanelTells == \A d \in Device : held[d] = PanelBalance(d) + untold[d]

\* The till's reconciliation shows the balance that the overdraw check uses (recon.go,
\* "== live balance"), and what a picker offers is on it.
TillTells == \A k \in Till :
    till[k] # 0 =>
       LET s == till[k]
           recon == Reconciliation(s)
       IN /\ \A x \in DrawerCloseFields(s) : x.expected = DeviceBalance(s, x.dev)
          /\ \A d \in ListedDevices :
                {x.bal : x \in {y \in MenuReloadDevices(s, devs[d].carrier) : y.dev = d}}
                \cup {x.bal : x \in {y \in Accounts(s) : y.at = d}} \subseteq {recon[d].expected}

\* What the profit report takes of a period is what the float report shows of it:
\* the service charges, and the bonuses of the sessions' blocks, which list
\* the devices in use only.
EarningsAgree ==
    (\A d \in Device : devs[d].st # "none" => Listed(d)) =>
       RangeEarnings(0, closes + 1) = ServiceEarned(0, closes + 1) + Add(SessionBonus, Session)

\* The activity trail of a period is its ledger and its bills, entry by entry, and
\* what moved on a device is what its downloaded ledger adds up to.
TrailAgrees ==
    /\ LET bars == TypeBars(1, closes + 1)
           trail == ActivityRows(1, closes + 1)
       IN \A typ \in Bars : bars[typ] = Add(LAMBDA x : x.amount, {x \in trail : x.action = typ})
    /\ \A d \in Device : LET L == LedgerCSV(d) IN
          Add(LAMBDA i : L[i].float, DOMAIN L) = Net(UNION {Of(s, d) : s \in 0 .. MaxSession})

\* Every page about float tells the same, and the panel tells the truth.
FloatTold == LiveBalance /\ PanelTells /\ (Quiet => TillTells /\ EarningsAgree /\ TrailAgrees)

\* No two enabled carriers share a name and no two carriers a product; as long as no
\* request was cut off, a carrier's product carries its name.
CarriersApart ==
    /\ \A i, j \in DOMAIN carriers :
          i # j /\ carriers[i].on /\ carriers[j].on => carriers[i].name # carriers[j].name
    /\ \A i, j \in DOMAIN carriers : carriers[i].prod = carriers[j].prod => i = j
    /\ Quiet /\ ~cut => \A i \in DOMAIN carriers : hidden[carriers[i].prod] = carriers[i].name

\* What must be once is once: a reload's reversal, an enabled carrier's name.
NothingTwice == ReversedOnce /\ CarriersApart
=============================================================================
