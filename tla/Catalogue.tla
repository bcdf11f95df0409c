----------------------------- MODULE Catalogue ------------------------------
(***************************************************************************)
(* The catalogue: products, the tree of categories, and the sheets that are *)
(* exported, edited and imported again.  Also the other ways a product and   *)
(* its first stock come about: the form, the till's quick-add with the       *)
(* review that finishes it, intake, and the stock-take.                     *)
(*                                                                         *)
(* A request is a sequence of transactions, each one step here; requests of  *)
(* different terminals interleave between them, and one may be cut off.      *)
(* What happens within a change of stock is the subject of Stock: here a     *)
(* product's stock row is the sum of its lots.                              *)
(***************************************************************************)
EXTENDS Integers, SequencesExt, FiniteSetsExt, TLC

CONSTANTS Till, Office,   \* terminals: where goods are sold, where they are managed
          None,           \* no barcode, no parent
          Uncategorized,  \* the category's name
          Form,           \* what a product form says: name, code, cost, price
          CategoryName,
          Row,            \* lines of sheets: a form with path, qty and byName
          Count,          \* a line of a stock-take or restock: cost, price, qty
          Catalog0,       \* the tables at the start
          MaxOps          \* bound: requests

ASSUME TerminalsApart == Till \cap Office = {}

VARIABLES db,      \* the tables: cats, products, lots, lines
          req,     \* what each terminal's request is about to do
          missed,  \* history: products whose review ended with no cost for what was sold
          ops

vars == <<db, req, missed, ops>>

Terminal == Till \cup Office
Idle     == [at |-> "idle"]
Blank    == -1      \* a cell or a box left empty

Total(f(_), s) == FoldLeft(LAMBDA sum, x : sum + f(x), 0, s)

-----------------------------------------------------------------------------
(***************************************************************************)
(* Categories.                                                             *)
(***************************************************************************)
Live(d) == {c \in DOMAIN d.cats : d.cats[c].alive}

\* From the root down; the walk up stops at an id it has seen.
Ancestors(d, c) ==
    LET up(path, parent) == IF parent = None \/ parent \in Range(path) THEN path
                            ELSE <<parent>> \o path
    IN FoldLeft(LAMBDA path, k : up(path, d.cats[Head(path)].parent), <<c>>, d.cats)

\* Not on a cycle of parents, nor under one.
Rooted(d, c) == d.cats[Head(Ancestors(d, c))].parent = None

RootedCats(d) == {c \in Live(d) : Rooted(d, c)}

Names(d, path) == [k \in DOMAIN path |-> d.cats[path[k]].name]

\* The tree walks down from the roots; what it does not reach is listed bare.
CategoryPath(d, c) == IF Rooted(d, c) THEN Names(d, Ancestors(d, c)) ELSE <<d.cats[c].name>>

\* Mutant: the name of the category without those above it.
LeafName(d, c) == <<d.cats[c].name>>

\* The category column of the export.
CatPath(d, c) == CategoryPath(d, c)

FindByNameParent(d, n, parent) ==
    {c \in Live(d) : d.cats[c].name = n /\ d.cats[c].parent = parent}

WithCategory(d, n, parent) ==
    [d EXCEPT !.cats = Append(@, [name |-> n, parent |-> parent, alive |-> TRUE])]

\* One level of FindOrCreateByPath, on a database nobody else is writing to.
Level(at, n) ==
    LET found == FindByNameParent(at.db, n, at.cat)
    IN IF found # {} THEN [at EXCEPT !.cat = Min(found)]
       ELSE [db |-> WithCategory(at.db, n, at.cat), cat |-> Len(at.db.cats) + 1]

FindOrCreateByPath(d, path) == FoldLeft(Level, [db |-> d, cat |-> None], path)

-----------------------------------------------------------------------------
(***************************************************************************)
(* Products.                                                               *)
(***************************************************************************)
Active(d)     == {p \in DOMAIN d.products : d.products[p].active}
Goods(d)      == {p \in Active(d) : ~d.products[p].service}
Of(d, p)      == SelectSeq(d.lots, LAMBDA l : l.product = p)
OnHand(d, p)  == Total(LAMBDA l : l.qty, Of(d, p))

\* The unique index on barcodes holds disabled products too.
Free(d, code, p) == code = None \/ \A q \in DOMAIN d.products \ {p} : d.products[q].code # code

Fields(w, cat) == [name |-> w.name, code |-> w.code, cost |-> w.cost, price |-> w.price, cat |-> cat]

Insert(d, w, cat, service, review) ==
    [d EXCEPT !.products = Append(@, Fields(w, cat) @@
                                     [service |-> service, review |-> review, active |-> TRUE])]

Update(d, p, w, cat) == [d EXCEPT !.products[p] = Fields(w, cat) @@ @]

Accepts(d, p, w, cat) == cat \in Live(d) /\ Free(d, w.code, p)

FindByBarcode(d, code) == {p \in Active(d) : code # None /\ d.products[p].code = code}

\* The oldest of that name.
FindByName(d, n) == LET same == {p \in Active(d) : d.products[p].name = n}
                    IN IF same = {} THEN {} ELSE {Min(same)}

Lot(p, qty, cost, price, source) ==
    [product |-> p, qty |-> qty, cost |-> cost, price |-> price, source |-> source]

SeedOpeningStock(d, p, qty, cost) ==
    IF qty = 0 THEN d ELSE [d EXCEPT !.lots = Append(@, Lot(p, qty, cost, 0, "opening"))]

\* DepleteFEFO of lots without a date: a lot gives what those before it could not.
FromLot(d, p, qty, i) ==
    LET ahead == MapThenSumSet(LAMBDA j : d.lots[j].qty,
                               {j \in 1 .. i - 1 : d.lots[j].product = p})
    IN IF d.lots[i].product # p THEN 0 ELSE Max({0, Min({d.lots[i].qty, qty - ahead})})

Deplete(d, p, qty) == [d EXCEPT !.lots = [i \in DOMAIN @ |-> [@[i] EXCEPT !.qty = @ - FromLot(d, p, qty, i)]]]

\* A lot without a cost is charged at the product's.
LotCost(d, l) == IF l.cost = 0 THEN d.products[l.product].cost ELSE l.cost

CostOfConsumed(d, p, qty) ==
    MapThenSumSet(LAMBDA i : FromLot(d, p, qty, i) * LotCost(d, d.lots[i]), DOMAIN d.lots) \div qty

\* A count that finds more opens a lot at the product's cost.
Adjust(d, p, target, price) ==
    LET delta == target - OnHand(d, p)
    IN IF delta = 0 THEN d
       ELSE IF delta < 0 THEN Deplete(d, p, -delta)
       ELSE [d EXCEPT !.lots = Append(@, Lot(p, delta, d.products[p].cost, price, "adjust"))]

-----------------------------------------------------------------------------
(***************************************************************************)
(* Sheets.                                                                 *)
(***************************************************************************)
\* Mutant: a line without a barcode is always a new product.
MatchBarcode(d, row) == FindByBarcode(d, row.code)

\* The product a line is about, if any: by barcode; by name when it carries none,
\* or when catalogues are being merged.
Match(d, row) ==
    LET known == FindByBarcode(d, row.code)
    IN IF known = {} /\ (row.code = None \/ row.byName) THEN FindByName(d, row.name) ELSE known


\* Opening stock for a product that had none.
Seeds(row, empty) == IF empty THEN row.qty ELSE 0

\* The transaction that writes a line: nothing of it when the database refuses.
Upsert(d, row, cat, match, empty) ==
    LET p == IF match = {} THEN Len(d.products) + 1 ELSE Min(match)
        w == IF match = {} THEN Insert(d, row, cat, FALSE, FALSE) ELSE Update(d, p, row, cat)
    IN IF Accepts(d, p, row, cat) /\ match \subseteq Active(d)
       THEN SeedOpeningStock(w, p, Seeds(row, empty), row.cost) ELSE d

\* ProductImport of one line with nobody else about.
ImportOne(d, row) ==
    LET at    == FindOrCreateByPath(d, row.path)
        match == Match(at.db, row)
    IN Upsert(at.db, row, at.cat, match, \A p \in match : OnHand(at.db, p) = 0)

\* ProductExportCSV: the active goods, none of the services.
Exported(d, p) ==
    LET w == d.products[p]
    IN [name |-> w.name, code |-> w.code, cost |-> w.cost, price |-> w.price,
        path |-> CatPath(d, w.cat), qty |-> OnHand(d, p), byName |-> FALSE]

Export(d) == LET ids == SetToSortSeq(Goods(d), <)
             IN [k \in DOMAIN ids |-> Exported(d, ids[k])]

-----------------------------------------------------------------------------
(***************************************************************************)
(* Requests.                                                               *)
(***************************************************************************)
Init == /\ db = Catalog0
        /\ req = [t \in Terminal |-> Idle]
        /\ missed = {}
        /\ ops = 0

Begin(t, r) == /\ req[t] = Idle /\ ops < MaxOps
               /\ req' = [req EXCEPT ![t] = r]
               /\ ops' = ops + 1

Go(t, r) == req' = [req EXCEPT ![t] = r] /\ UNCHANGED ops

\* A request of one transaction.
Once(d) == /\ \E t \in Office : Begin(t, Idle)
           /\ db' = d
           /\ UNCHANGED missed

\* A sale holds the stock row from its decrement to its commit.
Held(p) == \E t \in Terminal : req[t].at = "commit" /\ req[t].product = p

-----------------------------------------------------------------------------
(***************************************************************************)
(* Edits of the catalogue.                                                 *)
(***************************************************************************)
ProductCreate(w, cat, service) ==
    /\ Accepts(db, Len(db.products) + 1, w, cat)
    /\ Once(Insert(db, w, cat, service, FALSE))

SetActive(p, active) == Once([db EXCEPT !.products[p].active = active])

AssignBarcode(p, code) ==
    /\ db.products[p].code = None /\ code # None /\ Free(db, code, p)
    /\ Once([db EXCEPT !.products[p].code = code])

\* The flag cleared without an edit.
ProductReviewDone(p) ==
    /\ db.products[p].review
    /\ \E t \in Office : Begin(t, Idle)
    /\ db' = [db EXCEPT !.products[p].review = FALSE]
    /\ missed' = missed \cup {p}

CategoryCreate(n, parent) == Once(WithCategory(db, n, parent))

\* Any parent there is, itself and those below it included.
CategoryUpdate(c, n, parent) ==
    Once([db EXCEPT !.cats[c].name = n, !.cats[c].parent = parent])

\* Refused while products are filed there; what was below it moves to the top.
CategoryDelete(c) ==
    /\ \A p \in DOMAIN db.products : db.products[p].cat # c
    /\ Once([db EXCEPT !.cats = [k \in DOMAIN @ |->
                 IF k = c THEN [@[k] EXCEPT !.alive = FALSE, !.parent = None]
                 ELSE IF @[k].parent = c THEN [@[k] EXCEPT !.parent = None] ELSE @[k]]])

\* ProductUpdate writes the form; the rest of the handler are statements of their own.
ProductUpdate(t, p, w, cat, reprice) ==
    /\ p \in Active(db) /\ Accepts(db, p, w, cat)
    /\ Begin(t, [at |-> IF reprice THEN "reprice" ELSE "get", product |-> p, cost |-> w.cost])
    /\ db' = Update(db, p, w, cat)
    /\ UNCHANGED missed

ClearBatchPrices(t) ==
    /\ req[t].at = "reprice"
    /\ Go(t, [req[t] EXCEPT !.at = "get"])
    /\ db' = [db EXCEPT !.lots = [i \in DOMAIN @ |->
                 IF @[i].product = req[t].product /\ @[i].qty > 0 THEN [@[i] EXCEPT !.price = 0] ELSE @[i]]]
    /\ UNCHANGED missed

GetEdited(t) ==
    /\ req[t].at = "get"
    /\ Go(t, IF db.products[req[t].product].review THEN [req[t] EXCEPT !.at = "mark"] ELSE Idle)
    /\ UNCHANGED <<db, missed>>

MarkReviewed(t) ==
    /\ req[t].at = "mark"
    /\ Go(t, [req[t] EXCEPT !.at = "backfill"])
    /\ db' = [db EXCEPT !.products[req[t].product].review = FALSE]
    /\ missed' = IF req[t].cost = 0 THEN missed \cup {req[t].product} ELSE missed

\* Mutant: the oldest line alone.
OldestLine(ls, p, cost) ==
    LET zero == {i \in DOMAIN ls : ls[i].product = p /\ ls[i].cost = 0}
    IN [i \in DOMAIN ls |-> IF zero # {} /\ i = Min(zero) THEN [ls[i] EXCEPT !.cost = cost] ELSE ls[i]]

BackfillZeroCost(ls, p, cost) ==
    [i \in DOMAIN ls |-> IF ls[i].product = p /\ ls[i].cost = 0
                         THEN [ls[i] EXCEPT !.cost = cost] ELSE ls[i]]

BackfillCost(t) ==
    /\ req[t].at = "backfill"
    /\ Go(t, Idle)
    /\ db' = [db EXCEPT !.lines = BackfillZeroCost(@, req[t].product, req[t].cost)]
    /\ UNCHANGED missed

-----------------------------------------------------------------------------
(***************************************************************************)
(* New at the till: a product sold, or delivered, before anyone catalogued   *)
(* it.  A sale, then, of the product it found.                              *)
(***************************************************************************)
\* QuickCreate with its stock, CreateForIntake with none: the category first.
EnsureUncategorized(t, w, qty) ==
    LET found == {c \in Live(db) : db.cats[c].name = Uncategorized}
    IN \E c \in IF found = {} THEN {None} ELSE found :
         /\ Begin(t, [at |-> "insert", form |-> w, qty |-> qty, cat |-> c])
         /\ UNCHANGED <<db, missed>>

QuickCreate(t) ==
    LET r == req[t]
        d == IF r.cat = None THEN WithCategory(db, Uncategorized, None) ELSE db
        c == IF r.cat = None THEN Len(d.cats) ELSE r.cat
        p == Len(d.products) + 1
    IN /\ r.at = "insert"
       /\ Go(t, Idle)
       /\ db' = IF Accepts(d, p, r.form, c)
                 THEN SeedOpeningStock(Insert(d, r.form, c, FALSE, TRUE), p, r.qty, 0) ELSE db
       /\ UNCHANGED missed

\* The cost of a line is taken from the lots and the product as they are.
Decrement(t, p, qty) ==
    /\ ~db.products[p].service /\ OnHand(db, p) >= qty /\ ~Held(p)
    /\ Begin(t, [at |-> "commit", product |-> p, qty |-> qty, cost |-> CostOfConsumed(db, p, qty),
                 quick |-> db.products[p].review])
    /\ UNCHANGED <<db, missed>>

\* The line of a product whose review ended meanwhile comes too late.
CommitSale(t) ==
    LET r == req[t]
        late == r.quick /\ r.cost = 0 /\ ~db.products[r.product].review
                /\ ~\E u \in Office : req[u].at = "backfill" /\ req[u].product = r.product
        line == [product |-> r.product, qty |-> r.qty, cost |-> r.cost, quick |-> r.quick]
    IN /\ r.at = "commit"
       /\ Go(t, Idle)
       /\ db' = [Deplete(db, r.product, r.qty) EXCEPT !.lines = Append(@, line)]
       /\ missed' = IF late THEN missed \cup {r.product} ELSE missed

-----------------------------------------------------------------------------
(***************************************************************************)
(* Counts.  A stock-take has the quantity from the shelf; a restock and its  *)
(* undoing compute it from the product as they read it.                     *)
(***************************************************************************)
Counting(p, k, target) == [at |-> "cost", product |-> p, cost |-> k.cost, price |-> k.price,
                           lot |-> 0, target |-> target, disable |-> FALSE]

StockTake(t, p, k) == Begin(t, Counting(p, k, k.qty)) /\ UNCHANGED <<db, missed>>

\* The price is the shelf's and the new lot's.
IntakeRestock(t, p, k) ==
    /\ k.qty > 0
    /\ Begin(t, [Counting(p, k, OnHand(db, p) + k.qty) EXCEPT !.lot = Max({0, k.price})])
    /\ UNCHANGED <<db, missed>>

\* Takes a row of this session off again, and the product when the row made it.
IntakeUndo(t, p, qty, created) ==
    /\ Begin(t, [Counting(p, [cost |-> Blank, price |-> Blank], Max({0, OnHand(db, p) - qty}))
                   EXCEPT !.disable = created])
    /\ UNCHANGED <<db, missed>>

\* The duplicate-name guard, before anything is written.
IntakeCreate(t, w, cat, qty) ==
    /\ FindByName(db, w.name) = {}
    /\ Begin(t, [at |-> "create", form |-> w, cat |-> cat, qty |-> qty])
    /\ UNCHANGED <<db, missed>>

CreateProduct(t) ==
    LET r == req[t]
        p == Len(db.products) + 1
    IN /\ r.at = "create"
       /\ IF Accepts(db, p, r.form, r.cat)
          THEN /\ db' = Insert(db, r.form, r.cat, FALSE, FALSE)
               /\ Go(t, [Counting(p, [cost |-> Blank, price |-> Blank], r.qty) EXCEPT !.at = "count"])
          ELSE UNCHANGED db /\ Go(t, Idle)
       /\ UNCHANGED missed

\* Cost first, so that what the count finds is valued at it.
SetCost(t) ==
    /\ req[t].at = "cost"
    /\ Go(t, [req[t] EXCEPT !.at = "price"])
    /\ db' = IF req[t].cost = Blank THEN db ELSE [db EXCEPT !.products[req[t].product].cost = req[t].cost]
    /\ UNCHANGED missed

SetPrices(t) ==
    /\ req[t].at = "price"
    /\ Go(t, [req[t] EXCEPT !.at = "count"])
    /\ db' = IF req[t].price = Blank THEN db ELSE [db EXCEPT !.products[req[t].product].price = req[t].price]
    /\ UNCHANGED missed

AdjustCount(t) ==
    LET r == req[t]
    IN /\ r.at = "count" /\ ~Held(r.product)
       /\ Go(t, IF r.disable THEN [r EXCEPT !.at = "disable"] ELSE Idle)
       /\ db' = IF r.target = Blank THEN db ELSE Adjust(db, r.product, r.target, r.lot)
       /\ UNCHANGED missed

DisableUndone(t) ==
    /\ req[t].at = "disable"
    /\ Go(t, Idle)
    /\ db' = [db EXCEPT !.products[req[t].product].active = FALSE]
    /\ UNCHANGED missed

-----------------------------------------------------------------------------
(***************************************************************************)
(* Imports, line by line; and the category picker, which finds or creates a  *)
(* path as an import does.  Categories are committed level by level, before  *)
(* the transaction that writes the product.                                 *)
(***************************************************************************)
ProductImport(t, row) ==
    /\ Begin(t, [at |-> "path", path |-> row.path, cat |-> None, row |-> row])
    /\ UNCHANGED <<db, missed>>

CategoryQuickCreate(t, n, parent) ==
    /\ parent \in {None} \cup RootedCats(db)     \* the walk up a cycle never returns
    /\ Begin(t, [at |-> "path", cat |-> None,
                 path |-> (IF parent = None THEN <<>> ELSE Names(db, Ancestors(db, parent))) \o <<n>>])
    /\ UNCHANGED <<db, missed>>

FindLevel(t) ==
    LET r == req[t]
        found == FindByNameParent(db, Head(r.path), r.cat)
    IN /\ r.at = "path" /\ r.path # <<>>
       /\ IF found = {} THEN Go(t, [r EXCEPT !.at = "level"])
          ELSE \E c \in found : Go(t, [r EXCEPT !.cat = c, !.path = Tail(@)])
       /\ UNCHANGED <<db, missed>>

CreateLevel(t) ==
    LET r == req[t]
    IN /\ r.at = "level"
       /\ IF r.cat = None \/ r.cat \in Live(db)
          THEN /\ db' = WithCategory(db, Head(r.path), r.cat)
               /\ Go(t, [r EXCEPT !.at = "path", !.cat = Len(db.cats) + 1, !.path = Tail(@)])
          ELSE UNCHANGED db /\ Go(t, Idle)
       /\ UNCHANGED missed

\* The product as the transaction finds it, and whether its shelf was empty.
FindExisting(t) ==
    LET r == req[t]
        match == Match(db, r.row)
    IN /\ r.at = "path" /\ r.path = <<>>
       /\ Go(t, IF "row" \notin DOMAIN r THEN Idle
                ELSE [at |-> "upsert", cat |-> r.cat, row |-> r.row, match |-> match,
                      empty |-> \A p \in match : OnHand(db, p) = 0])
       /\ UNCHANGED <<db, missed>>

WriteRow(t) ==
    LET r == req[t]
    IN /\ r.at = "upsert" /\ \A p \in r.match : ~Held(p)
       /\ Go(t, Idle)
       /\ db' = Upsert(db, r.row, r.cat, r.match, r.empty)
       /\ UNCHANGED missed

-----------------------------------------------------------------------------
\* The client is gone: what was committed stays, the rest does not happen.
Cancel(t) ==
    /\ req[t] # Idle
    /\ Go(t, Idle)
    /\ missed' = IF req[t].at = "backfill" THEN missed \cup {req[t].product} ELSE missed
    /\ UNCHANGED db

Edits ==
    \/ \E w \in Form, c \in Live(db), service \in BOOLEAN : ProductCreate(w, c, service)
    \/ \E p \in DOMAIN db.products :
         \/ \E active \in BOOLEAN : SetActive(p, active)
         \/ \E w \in Form : AssignBarcode(p, w.code)
         \/ ProductReviewDone(p)
    \/ \E n \in CategoryName, up \in Live(db) \cup {None} :
         \/ CategoryCreate(n, up)
         \/ \E c \in Live(db) : CategoryUpdate(c, n, up)
    \/ \E c \in Live(db) : CategoryDelete(c)

AtOffice(t) ==
    \/ \E p \in DOMAIN db.products :
         \/ \E w \in Form, c \in Live(db), reprice \in BOOLEAN : ProductUpdate(t, p, w, c, reprice)
         \/ \E k \in Count :
              \/ StockTake(t, p, k)
              \/ IntakeRestock(t, p, k)
              \/ \E created \in BOOLEAN : k.qty > 0 /\ IntakeUndo(t, p, k.qty, created)
    \/ \E w \in Form, c \in Live(db), k \in Count : k.qty > 0 /\ IntakeCreate(t, w, c, k.qty)
    \/ \E row \in Row : ProductImport(t, row)
    \/ \E n \in CategoryName, up \in Live(db) \cup {None} : CategoryQuickCreate(t, n, up)

AtTill(t) ==
    \/ \E w \in Form : EnsureUncategorized(t, [w EXCEPT !.cost = 0], 1)
    \/ \E w \in Form : EnsureUncategorized(t, w, 0)
    \/ \E p \in DOMAIN db.products : Decrement(t, p, 1)

Continue(t) ==
    \/ ClearBatchPrices(t) \/ GetEdited(t) \/ MarkReviewed(t) \/ BackfillCost(t)
    \/ QuickCreate(t) \/ CommitSale(t)
    \/ CreateProduct(t) \/ SetCost(t) \/ SetPrices(t) \/ AdjustCount(t) \/ DisableUndone(t)
    \/ FindLevel(t) \/ CreateLevel(t) \/ FindExisting(t) \/ WriteRow(t)

\* The tables are looked at with no request under way: any other request could be
\* cut off here and leave the same tables.
Quiet == \A t \in Terminal : req[t] = Idle

\* The shop closes: every request the bound allows has been answered.
Closed == ops = MaxOps /\ Quiet /\ UNCHANGED vars

Next == \/ Edits
        \/ \E t \in Office : AtOffice(t)
        \/ \E t \in Till : AtTill(t)
        \/ \E t \in Terminal : Continue(t) \/ Cancel(t)
        \/ Closed

Spec == Init /\ [][Next]_vars

-----------------------------------------------------------------------------
(***************************************************************************)
(* Inventory valuation: a branch of the tree, each child rolled up, and what *)
(* is filed on the category itself.                                        *)
(***************************************************************************)
Children(d, c) == {k \in Live(d) : d.cats[k].parent = c}

\* Mutant: products are looked up at the root of their category.
UnderRoot(d, c) == {k \in Live(d) : Head(Ancestors(d, k)) = c}

\* subtreeCTE, branchCTE: c and all below it.
Under(d, c) == {k \in Live(d) : c \in Range(Ancestors(d, k))}

\* At what the lots cost and sell for; a lot without a price follows the product.
Worth(d, cs) ==
    LET ps     == {p \in Goods(d) : d.products[p].cat \in cs}
        all(f(_)) == Total(f, SelectSeq(d.lots, LAMBDA l : l.product \in ps))
    IN [skus   |-> Cardinality(ps),
        units  |-> all(LAMBDA l : l.qty),
        cost   |-> all(LAMBDA l : l.qty * l.cost),
        retail |-> all(LAMBDA l : l.qty * IF l.price > 0 THEN l.price
                                          ELSE d.products[l.product].price)]

\* The whole shop is what its root categories hold.
ValuationBranch(d, c) ==
    Worth(d, IF c = None THEN UNION {Under(d, k) : k \in Children(d, None)} ELSE Under(d, c))

ValuationChildren(d, c) == [k \in Children(d, c) |-> Worth(d, Under(d, k))]
DirectNode(d, c)        == Worth(d, {c})

-----------------------------------------------------------------------------
(***************************************************************************)
(* Properties.                                                             *)
(***************************************************************************)
TypeOK ==
    /\ \A c \in DOMAIN db.cats : db.cats[c].parent \in Live(db) \cup {None}
    /\ \A p \in DOMAIN db.products : db.products[p].cat \in Live(db)
    /\ \A i \in DOMAIN db.lots : db.lots[i].product \in DOMAIN db.products /\ db.lots[i].qty >= 0
    /\ \A p, q \in DOMAIN db.products :
         p # q => db.products[p].code # db.products[q].code \/ db.products[p].code = None
    /\ missed \subseteq DOMAIN db.products

\* What a sheet can tell apart: no two siblings of a name, no good filed on a
\* cycle, and a good without a barcode has its name to itself.
Tellable(d) ==
    /\ \A b, c \in Live(d) : d.cats[b].name = d.cats[c].name /\ d.cats[b].parent = d.cats[c].parent
                              => b = c
    /\ \A p \in Goods(d) :
         /\ Rooted(d, d.products[p].cat)
         /\ d.products[p].code = None
              => \A q \in Active(d) : d.products[q].name = d.products[p].name => p = q

\* "so an owner can export, edit in a spreadsheet, and re-upload (round-trip)"
\* (import_products.go): a catalogue exported and imported as it is stays as it
\* is, categories and stock included.
RoundTrip == Quiet /\ Tellable(db) => FoldLeft(ImportOne, db, Export(db)) = db

\* "re-running the same import never double-counts stock" (ImportOne): a line
\* imported again, whatever it matched the first time, changes nothing.
ImportTwice ==
    Quiet => \A row \in Row : LET once == ImportOne(db, row) IN ImportOne(once, row) = once

\* Imports one after another, each cut off anywhere and begun again, with sales,
\* quick-adds and edits of products and categories between their statements: a product's
\* opening stock is on the shelf once.  Two imports at once break it (CatalogueSeeds.cfg).
SeedsOnce ==
    \A p \in DOMAIN db.products :
      Len(SelectSeq(Of(db, p), LAMBDA l : l.source = "opening" /\ l.qty > 0)) <= 1


\* The children of a branch and its own products make up its total, at every
\* level, and the shop's total leaves no good out: wherever the tree has no cycle.
ValuationAddsUp == Quiet =>
    /\ \A c \in {None} \cup RootedCats(db) :
         LET rows   == ValuationChildren(db, c)
             direct == DirectNode(db, c)
             branch == ValuationBranch(db, c)
         IN \A f \in DOMAIN branch :
              branch[f] = MapThenSumSet(LAMBDA k : rows[k][f], DOMAIN rows) + direct[f]
    /\ RootedCats(db) = Live(db) => ValuationBranch(db, None) = Worth(db, Live(db))

\* "so historical COGS/profit are accurate" (BackfillCost): what was sold of a
\* quick-added product at no cost gets its cost once that is known, unless the
\* review ended without one, or the sale was still under way when it ended.
CostKnown ==
    \A i \in DOMAIN db.lines :
      LET p == db.lines[i].product
      IN db.lines[i].quick /\ db.lines[i].cost = 0 /\ db.products[p].cost > 0
           => \/ db.products[p].review \/ p \in missed
              \/ \E t \in Office : req[t].at = "backfill" /\ req[t].product = p
=============================================================================
