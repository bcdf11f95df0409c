------------------------------ MODULE AiCatalog ------------------------------
(***************************************************************************)
(* The AI catalogue plugin (plugins/aicatalog): plans that tidy the tree of *)
(* categories and are taken back by replaying their undo lists, and staging  *)
(* rows that are committed into products and taken back into drafts.        *)
(*                                                                         *)
(* What the model answers is an input: any plan, any name or category.  A    *)
(* plan and its undoing are one transaction each, one step here.  A commit   *)
(* of the drafts is a loop whose every statement stands alone, as does the   *)
(* loop that takes it back; requests of other pages come between.           *)
(***************************************************************************)
EXTENDS Integers, SequencesExt, FiniteSetsExt

CONSTANTS Page,      \* open pages of the plugin; each waits for its own request
          Plan,      \* plans a chatbot may propose
          Typed,     \* what a draft row may say: name, code, cat, qty
          Heading,   \* categories that enriching a row may suggest
          Passed,    \* statements whose failure occurs: both loops pass it over
          None,      \* no parent, no barcode, no category
          Uncategorized,
          Cats0, Goods0, \* the catalogue at the start
          Drafts0,   \* the staging rows at the start
          MaxOps     \* bound: requests

ASSUME PassedAssumption == Passed \subseteq {"stock", "mark", "return", "disable", "restore"}

VARIABLES cats,    \* categories, by id: name and parent
          last,    \* the id their sequence gave out last
          goods,   \* products, by id, each with what was booked on it (history)
          drafts,  \* aicatalog_mock_products, by id
          runs,    \* aicatalog_optimize_runs: undo lists, and whether reverted
          page,    \* each page's run of the session, and its request under way
          trail,   \* history: the tree before each run, and after its latest chunk
          ops

vars == <<cats, last, goods, drafts, runs, page, trail, ops>>

Idle == [at |-> "idle"]

\* The tree and what is filed where.
Tree == [cats |-> cats, filed |-> [p \in DOMAIN goods |-> goods[p].cat]]

File(filed) == [p \in DOMAIN goods |-> [goods[p] EXCEPT !.cat = filed[p]]]

Under(f, c) == {x \in DOMAIN f : f[x] = c}

Parents(d) == [c \in DOMAIN d.cats |-> d.cats[c].parent]

-----------------------------------------------------------------------------
(***************************************************************************)
(* A plan, operation by operation.  Each skips what is unknown or unsafe,    *)
(* and notes how to undo what it did.                                      *)
(***************************************************************************)
Did(d, op) == [d EXCEPT !.undo = Append(@, op)]

Rename(d, op) ==
    IF op.id \notin DOMAIN d.cats THEN d
    ELSE LET old == d.cats[op.id].name
         IN IF old = op.to THEN d
            ELSE Did([d EXCEPT !.cats[op.id].name = op.to],
                     [kind |-> "rename", id |-> op.id, name |-> old])

\* isDescendant: the walk up from node meets ancestor.  (It stops after 100 parents.)
IsDescendant(d, ancestor, node) ==
    LET up(S) == S \cup {d.cats[c].parent : c \in S \ {None}}
    IN ancestor \in FoldLeft(LAMBDA S, i : up(S), {node}, [i \in 1 .. Cardinality(DOMAIN d.cats) |-> i])

\* Mutant: only the category itself is refused.
Beneath(d, op) == op.parent # op.id

Above(d, op) == op.parent = None \/ (op.parent \in DOMAIN d.cats /\ ~IsDescendant(d, op.id, op.parent))

Reparent(d, op) ==
    IF op.id \notin DOMAIN d.cats \/ ~Above(d, op) THEN d
    ELSE Did([d EXCEPT !.cats[op.id].parent = op.parent],
             [kind |-> "reparent", id |-> op.id, parent |-> d.cats[op.id].parent])

\* Goods and children go to the other category, and this one is deleted.
Merge(d, op) ==
    IF {op.from, op.into} \ DOMAIN d.cats # {} \/ op.from = op.into THEN d
    ELSE LET moved    == Under(d.filed, op.from)
             children == Under(Parents(d), op.from)
             kept     == DOMAIN d.cats \ {op.from}
         IN Did([d EXCEPT
                   !.filed = [p \in DOMAIN @ |-> IF p \in moved THEN op.into ELSE @[p]],
                   !.cats  = [c \in kept |-> IF c \in children THEN [@[c] EXCEPT !.parent = op.into]
                                             ELSE @[c]]],
                [kind |-> "unmerge", id |-> op.from, was |-> d.cats[op.from],
                 goods |-> moved, children |-> children])

MoveProduct(d, op) ==
    IF op.id \notin DOMAIN d.filed \/ op.cat \notin DOMAIN d.cats \/ d.filed[op.id] = op.cat THEN d
    ELSE Did([d EXCEPT !.filed[op.id] = op.cat],
             [kind |-> "move", id |-> op.id, cat |-> d.filed[op.id]])

Applied(plan) ==
    LET start    == [cats |-> cats, filed |-> Tree.filed, undo |-> <<>>]
        renamed  == FoldLeft(Rename, start, plan.renames)
        nested   == FoldLeft(Reparent, renamed, plan.reparents)
        merged   == FoldLeft(Merge, nested, plan.merges)
    IN FoldLeft(MoveProduct, merged, plan.moves)

\* The first chunk of a session makes a run; the later ones add to it, whatever became
\* of it since.
ApplyPlan(g, plan) ==
    /\ page[g].req = Idle
    /\ LET d == Applied(plan)
           n == page[g].run
           known == n # 0 /\ trail[n].after = Tree
       IN /\ cats'  = d.cats
          /\ goods' = File(d.filed)
          /\ IF d.undo = <<>> THEN UNCHANGED <<runs, page, trail>>
             ELSE /\ runs' = IF n # 0 THEN [runs EXCEPT ![n].undo = @ \o d.undo]
                             ELSE Append(runs, [undo |-> d.undo, reverted |-> FALSE])
                  /\ page' = [page EXCEPT ![g].run = IF n # 0 THEN n ELSE Len(runs) + 1]
                  /\ LET now == [cats |-> d.cats, filed |-> d.filed]
                     IN trail' = IF n = 0 THEN Append(trail, [before |-> Tree, after |-> now])
                                 ELSE [trail EXCEPT ![n].after = IF known THEN now ELSE None]
    /\ UNCHANGED <<last, drafts>>

\* The session starts again from the plugin's page.
Restart(g) ==
    /\ page[g].run # 0
    /\ page' = [page EXCEPT ![g].run = 0]
    /\ UNCHANGED <<cats, last, goods, drafts, runs, trail>>

-----------------------------------------------------------------------------
(***************************************************************************)
(* Taking the latest run back: its list from the end, in one transaction     *)
(* that a foreign key may refuse.                                          *)
(***************************************************************************)
Refused(d) == [d EXCEPT !.ok = FALSE]

Known(d, c) == c = None \/ c \in DOMAIN d.cats

\* The deleted category comes back under its own id, unless that id is taken; the
\* sequence of ids is set to the highest there is.
Unmerge(d, op) ==
    LET all == IF op.id \in DOMAIN d.cats THEN d.cats
               ELSE [c \in DOMAIN d.cats \cup {op.id} |-> IF c = op.id THEN op.was ELSE d.cats[c]]
    IN IF op.id \notin DOMAIN d.cats /\ ~Known([d EXCEPT !.cats = all], op.was.parent) THEN Refused(d)
       ELSE [d EXCEPT !.cats  = [c \in DOMAIN all |-> IF c \in op.children THEN [all[c] EXCEPT !.parent = op.id]
                                                    ELSE all[c]],
                      !.filed = [p \in DOMAIN @ |-> IF p \in op.goods THEN op.id ELSE @[p]],
                      !.last  = Max(DOMAIN all)]

RevertOp(d, op) ==
    CASE op.kind = "rename"   -> IF op.id \in DOMAIN d.cats THEN [d EXCEPT !.cats[op.id].name = op.name] ELSE d
      [] op.kind = "reparent" -> IF op.id \notin DOMAIN d.cats THEN d
                                 ELSE IF ~Known(d, op.parent) THEN Refused(d)
                                 ELSE [d EXCEPT !.cats[op.id].parent = op.parent]
      [] op.kind = "move"     -> IF op.cat \notin DOMAIN d.cats THEN Refused(d)
                                 ELSE [d EXCEPT !.filed[op.id] = op.cat]
      [] op.kind = "unmerge"  -> Unmerge(d, op)

\* Mutant: the list is replayed in the order it was written.
InOrder(undo) == undo

Backwards(undo) == Reverse(undo)

Undone(undo) ==
    FoldLeft(LAMBDA d, op : IF d.ok THEN RevertOp(d, op) ELSE d,
             [cats |-> cats, filed |-> Tree.filed, last |-> last, ok |-> TRUE], Backwards(undo))

\* The latest run not reverted yet; 0 if none is left.
LatestRun == Max({0} \cup {n \in DOMAIN runs : ~runs[n].reverted})

Revert(g) ==
    /\ page[g].req = Idle
    /\ LatestRun # 0
    /\ LET d == Undone(runs[LatestRun].undo)
       IN IF d.ok THEN /\ cats' = d.cats /\ last' = d.last /\ goods' = File(d.filed)
                       /\ runs' = [runs EXCEPT ![LatestRun].reverted = TRUE]
          ELSE UNCHANGED <<cats, last, goods, runs>>
    /\ UNCHANGED <<drafts, page, trail>>

-----------------------------------------------------------------------------
(***************************************************************************)
(* Products and categories, as the rest of the shop changes them.          *)
(***************************************************************************)
Active == {p \in DOMAIN goods : goods[p].active}

\* FindOrCreateByPath, of one level; nothing suggested is Uncategorized.
Found(heading) ==
    LET name  == IF heading = None THEN Uncategorized ELSE heading
        known == {c \in DOMAIN cats : cats[c].name = name /\ cats[c].parent = None}
    IN IF known # {} THEN [cats |-> cats, last |-> last, id |-> Min(known)]
       ELSE [cats |-> [c \in DOMAIN cats \cup {last + 1} |->
                         IF c = last + 1 THEN [name |-> name, parent |-> None] ELSE cats[c]],
             last |-> last + 1, id |-> last + 1]

\* A code that an active product carries is replaced by a generated one, which no
\* product carries.
CodeFor(code) == IF \E p \in Active : goods[p].code = code THEN None ELSE code

\* The unique index counts disabled products.
CodeFree(code) == code = None \/ \A p \in DOMAIN goods : goods[p].code # code

\* History: what ought to be on hand after every receipt, sale and commit (due), and how
\* much of that a commit of a row put there (put).  Neither is known any more (Untold)
\* once an absolute quantity has overwritten a change that its request had not seen.
Booked(due, put) == [due |-> due, put |-> put, told |-> TRUE]

Untold == [due |-> 0, put |-> 0, told |-> FALSE]

Moved(book, n) == IF book.told THEN [book EXCEPT !.due = @ + n] ELSE book

Filed(v, staged) == [name |-> v.name, code |-> CodeFor(v.code), cat |-> Found(v.cat).id,
                     qty |-> 0, active |-> TRUE, staged |-> staged, book |-> Booked(0, 0)]

Sell(p) == /\ p \in Active /\ goods[p].qty > 0
           /\ goods' = [goods EXCEPT ![p].qty = @ - 1, ![p].book = Moved(@, 0 - 1)]
           /\ UNCHANGED <<cats, last, drafts, runs, page, trail>>

\* A delivery of one unit.
Receive(p) == /\ p \in Active
              /\ goods' = [goods EXCEPT ![p].qty = @ + 1, ![p].book = Moved(@, 1)]
              /\ UNCHANGED <<cats, last, drafts, runs, page, trail>>

\* categories.Delete: not while goods are filed there; its children move to the top.
DeleteCategory(c) ==
    /\ c \in DOMAIN cats /\ Under(Tree.filed, c) = {}
    /\ cats' = [x \in DOMAIN cats \ {c} |-> IF cats[x].parent = c THEN [cats[x] EXCEPT !.parent = None]
                                           ELSE cats[x]]
    /\ UNCHANGED <<last, goods, drafts, runs, page, trail>>

-----------------------------------------------------------------------------
(***************************************************************************)
(* The staging rows.                                                       *)
(***************************************************************************)
Row(v) == [name |-> v.name, code |-> v.code, cat |-> v.cat, qty |-> v.qty, status |-> "draft", made |-> 0]

Rows(status) == {d \in DOMAIN drafts : drafts[d].status = status}

Staging(new) == drafts' = new /\ UNCHANGED <<cats, last, goods, runs, page, trail>>

\* Mutant: WHERE status='draft' is lost.
AnyRow == Rows("draft") \cup Rows("committed")

Editable == Rows("draft")

MockAddRow(v)   == Staging(Append(drafts, Row(v)))
DeleteMock(d)   == d \in Editable /\ Staging([drafts EXCEPT ![d].status = "gone"])
MockClear       == Staging([d \in DOMAIN drafts |->
                              IF d \in Rows("committed") THEN [drafts[d] EXCEPT !.status = "gone"] ELSE drafts[d]])

\* The cells of a row save themselves as they are left.
UpdateMockField(d, v) == d \in Editable /\ Staging([drafts EXCEPT ![d].name = v.name, ![d].qty = v.qty])

\* The chatbot's reply: a heading, and perhaps a better name.
ApplyEnrich(d, v, heading) ==
    d \in Editable /\ Staging([drafts EXCEPT ![d].name = v.name, ![d].cat = heading])

-----------------------------------------------------------------------------
(***************************************************************************)
(* The loop of a commit.  The rows are read at its start.                    *)
(***************************************************************************)
Asks(g, req) == page' = [page EXCEPT ![g].req = req]

Listed(status) ==
    LET ids == SetToSortSeq(Rows(status), <)
    IN [i \in DOMAIN ids |-> [id |-> ids[i], name |-> drafts[ids[i]].name, code |-> drafts[ids[i]].code,
                              cat |-> drafts[ids[i]].cat, qty |-> drafts[ids[i]].qty,
                              made |-> drafts[ids[i]].made]]

Loop(at, todo) == IF todo = <<>> THEN Idle ELSE [at |-> at, todo |-> todo, seen |-> {}, got |-> 0]

Req(g)    == page[g].req
RowOf(g)  == Head(Req(g).todo)
On(g, at) == Req(g).at = at

\* Goes on with the next row.
Following(g, at) == IF Len(Req(g).todo) = 1 THEN Idle ELSE [Req(g) EXCEPT !.at = at, !.todo = Tail(@)]

MockCommit(g) == /\ Req(g) = Idle /\ Rows("draft") # {}
                 /\ Asks(g, Loop("name", Listed("draft")))
                 /\ UNCHANGED <<cats, last, goods, drafts, runs, trail>>

\* Mutant: only names of this very list are looked at.
NamedBefore(g, name) == name \in Req(g).seen

Duplicate(g, name) == name \in Req(g).seen \/ \E p \in Active : goods[p].name = name

\* No row is committed whose name an active product has, or an earlier row.
FindByName(g) ==
    /\ On(g, "name")
    /\ LET name == RowOf(g).name
           seen == [Req(g) EXCEPT !.seen = @ \cup {name}]
       IN IF Duplicate(g, name)
            THEN Asks(g, IF Following(g, "name") = Idle THEN Idle
                         ELSE [Following(g, "name") EXCEPT !.seen = seen.seen])
            ELSE Asks(g, [seen EXCEPT !.at = "create"])
    /\ UNCHANGED <<cats, last, goods, drafts, runs, trail>>

\* The category, then the product.  A code only a disabled product carries is refused,
\* and the row left out.
CreateGood(g) ==
    /\ On(g, "create")
    /\ cats' = Found(RowOf(g).cat).cats /\ last' = Found(RowOf(g).cat).last
    /\ IF CodeFree(CodeFor(RowOf(g).code))
         THEN /\ goods' = Append(goods, Filed(RowOf(g), TRUE))
              /\ Asks(g, [Req(g) EXCEPT !.at = "stock", !.got = Len(goods) + 1])
         ELSE /\ Asks(g, Following(g, "name"))
              /\ UNCHANGED goods
    /\ UNCHANGED <<drafts, runs, trail>>

\* Stock.Adjust sets a quantity, if the row says one.
Stocked(p, qty, put) ==
    IF qty = 0 THEN goods
    ELSE [goods EXCEPT ![p].qty = qty,
                       ![p].book = IF @.told /\ goods[p].qty = 0 THEN Booked(@.due + qty, put) ELSE Untold]

\* The error of the adjustment is dropped, and so is that of marking the row.
StockGood(g) ==
    /\ On(g, "stock")
    /\ \/ goods' = Stocked(Req(g).got, RowOf(g).qty, RowOf(g).qty)
       \/ "stock" \in Passed /\ UNCHANGED goods
    /\ Asks(g, [Req(g) EXCEPT !.at = "mark"])
    /\ UNCHANGED <<cats, last, drafts, runs, trail>>

MarkMockCommitted(g) ==
    /\ On(g, "mark")
    /\ \/ /\ drafts[RowOf(g).id].status # "gone"
          /\ drafts' = [drafts EXCEPT ![RowOf(g).id].status = "committed", ![RowOf(g).id].made = Req(g).got]
       \/ (drafts[RowOf(g).id].status = "gone" \/ "mark" \in Passed) /\ UNCHANGED drafts
    /\ Asks(g, Following(g, "name"))
    /\ UNCHANGED <<cats, last, goods, runs, trail>>

\* The wizard's Save: one product, whatever its name, and its stock.
SaveGood(g, v) ==
    /\ Req(g) = Idle
    /\ cats' = Found(v.cat).cats /\ last' = Found(v.cat).last
    /\ IF CodeFree(CodeFor(v.code))
         THEN /\ goods' = Append(goods, Filed(v, FALSE))
              /\ Asks(g, [Loop("save", <<v>>) EXCEPT !.got = Len(goods) + 1])
         ELSE UNCHANGED <<goods, page>>
    /\ UNCHANGED <<drafts, runs, trail>>

SaveStock(g) ==
    /\ On(g, "save")
    /\ goods' = Stocked(Req(g).got, RowOf(g).qty, 0)
    /\ Asks(g, Idle)
    /\ UNCHANGED <<cats, last, drafts, runs, trail>>

-----------------------------------------------------------------------------
(***************************************************************************)
(* Taking the committed rows back.  The errors of all three statements are   *)
(* dropped: the loop goes on to the next statement, and to the next row.     *)
(***************************************************************************)
MockRevert(g) == /\ Req(g) = Idle /\ Rows("committed") # {}
                 /\ Asks(g, Loop("look", Listed("committed")))
                 /\ UNCHANGED <<cats, last, goods, drafts, runs, trail>>

\* What is on hand, read before the adjustment.
LookGood(g) ==
    /\ On(g, "look")
    /\ Asks(g, [Req(g) EXCEPT !.at = "return", !.got = goods[RowOf(g).made].qty])
    /\ UNCHANGED <<cats, last, goods, drafts, runs, trail>>

LeftOver(have, qty) == Max({0, have - qty})

\* What a commit put on hand goes off it; what it did not put there, sold or received
\* since it was read, or taken back before, is not told apart.
Taken(p, had) ==
    LET book == goods[p].book
    IN IF book.told /\ goods[p].qty = had /\ book.put # 0 THEN Booked(Max({0, book.due - book.put}), 0) ELSE Untold

ReturnGood(g) ==
    /\ On(g, "return")
    /\ LET p == RowOf(g).made
       IN \/ goods' = IF RowOf(g).qty = 0 THEN goods
                      ELSE [goods EXCEPT ![p].qty  = LeftOver(Req(g).got, RowOf(g).qty),
                                         ![p].book = Taken(p, Req(g).got)]
          \/ "return" \in Passed /\ UNCHANGED goods
    /\ Asks(g, [Req(g) EXCEPT !.at = "disable"])
    /\ UNCHANGED <<cats, last, drafts, runs, trail>>

DisableGood(g) ==
    /\ On(g, "disable")
    /\ \/ goods' = [goods EXCEPT ![RowOf(g).made].active = FALSE]
       \/ "disable" \in Passed /\ UNCHANGED goods
    /\ Asks(g, [Req(g) EXCEPT !.at = "restore"])
    /\ UNCHANGED <<cats, last, drafts, runs, trail>>

RestoreMockDraft(g) ==
    /\ On(g, "restore")
    /\ \/ drafts' = IF drafts[RowOf(g).id].status = "gone" THEN drafts
                    ELSE [drafts EXCEPT ![RowOf(g).id].status = "draft", ![RowOf(g).id].made = 0]
       \/ "restore" \in Passed /\ UNCHANGED drafts
    /\ Asks(g, Following(g, "look"))
    /\ UNCHANGED <<cats, last, goods, runs, trail>>

\* The server stops, or the browser goes away: what is done stays done.
Cut(g) == /\ Req(g) # Idle
          /\ Asks(g, Idle)
          /\ UNCHANGED <<cats, last, goods, drafts, runs, trail>>

-----------------------------------------------------------------------------
Init == /\ cats = Cats0 /\ last = Max(DOMAIN Cats0) /\ goods = Goods0
        /\ drafts = Drafts0 /\ runs = <<>> /\ trail = <<>>
        /\ page = [g \in Page |-> [run |-> 0, req |-> Idle]]
        /\ ops = 0

\* A row of the page is edited while none of its own requests is under way.
Free == \E g \in Page : Req(g) = Idle

Ask == \/ \E g \in Page : \/ \E plan \in Plan : ApplyPlan(g, plan)
                          \/ \E v \in Typed : SaveGood(g, v)
                          \/ Restart(g) \/ Revert(g) \/ MockCommit(g) \/ MockRevert(g)
       \/ /\ Free
          /\ \/ MockClear
             \/ \E v \in Typed : MockAddRow(v)
             \/ \E d \in DOMAIN drafts :
                  \/ DeleteMock(d)
                  \/ \E v \in Typed : UpdateMockField(d, v)
                  \/ \E v \in Typed, heading \in Heading : ApplyEnrich(d, v, heading)
       \/ \E p \in DOMAIN goods : Sell(p) \/ Receive(p)
       \/ \E c \in DOMAIN cats : DeleteCategory(c)

Step(g) == \/ FindByName(g) \/ CreateGood(g) \/ StockGood(g) \/ MarkMockCommitted(g) \/ SaveStock(g)
           \/ LookGood(g) \/ ReturnGood(g) \/ DisableGood(g) \/ RestoreMockDraft(g)
           \/ Cut(g)

Next == \/ Ask /\ ops < MaxOps /\ ops' = ops + 1
        \/ \E g \in Page : Step(g) /\ UNCHANGED ops
        \/ ops = MaxOps /\ (\A g \in Page : Req(g) = Idle) /\ UNCHANGED vars

Spec == Init /\ [][Next]_vars

-----------------------------------------------------------------------------
(***************************************************************************)
(* Properties.                                                             *)
(***************************************************************************)
\* Types of the tables, and their foreign keys.
TypeOK ==
    /\ \A c \in DOMAIN cats : c \in 1 .. last /\ cats[c].parent \in DOMAIN cats \cup {None}
    /\ \A p \in DOMAIN goods : goods[p].cat \in DOMAIN cats /\ goods[p].qty \in Nat
    /\ \A d \in DOMAIN drafts : drafts[d].status = "committed" <=> drafts[d].made # 0 /\ drafts[d].status # "gone"
    /\ \A n \in DOMAIN runs : runs[n].undo # <<>>
    /\ \A g \in Page : page[g].run \in 0 .. Len(runs)
    /\ DOMAIN trail = DOMAIN runs

\* "the list of undo operations that exactly reverse it (so "Revert last optimize"
\* restores the prior state)" (0002_optimize.sql): while the tree is as the latest run
\* left it, that run can be taken back, and the tree is then as the run found it.
RevertsExactly ==
    LatestRun # 0 /\ trail[LatestRun].after = Tree =>
      LET d == Undone(runs[LatestRun].undo)
      IN d.ok /\ [cats |-> d.cats, filed |-> d.filed] = trail[LatestRun].before

\* "Skip a name that already exists in the real catalog (no duplicates)" (MockCommit):
\* no two products on sale come of staging rows of one name, though marking a row as
\* committed may fail, a request may be cut off, and all of it be tried again.
DraftsOnce == \A p, q \in Active : goods[p].staged /\ goods[q].staged /\ goods[p].name = goods[q].name => p = q

\* "stock reversed + soft-disabled" (MockRevert), from what the row says, not from what
\* was booked: whatever was sold, received, cut off or passed over, a good has on hand
\* what was due, so that taking a row back leaves what came from elsewhere and nothing
\* of the row's own; and a committed row says what its commit put there, if anything.
\* Of a good whose stock an absolute quantity has overwritten nothing is said (Untold).
StockFollowsRow ==
    /\ \A p \in DOMAIN goods : goods[p].book.told => goods[p].qty = goods[p].book.due
    /\ (\A g \in Page : Req(g) = Idle) =>
         \A d \in Rows("committed") : goods[drafts[d].made].book.put \in {0, drafts[d].qty}
=============================================================================
