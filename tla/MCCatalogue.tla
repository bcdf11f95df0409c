---------------------------- MODULE MCCatalogue -----------------------------
(***************************************************************************)
(* A shop with a category in another, a good with a barcode on its shelf,    *)
(* one without, one quick-added at the till and sold, and a service.        *)
(***************************************************************************)
EXTENDS Catalogue

CONSTANTS nil, drinks, cola, other, water, scan

Category(n, up) == [name |-> n, parent |-> up, alive |-> TRUE]
Filed(n, code, cost, cat) == [name |-> n, code |-> code, cost |-> cost, price |-> 9, cat |-> cat,
                             service |-> FALSE, review |-> FALSE, active |-> TRUE]
Line(n, code, cost, path, qty) == [name |-> n, code |-> code, cost |-> cost, price |-> 9,
                                  path |-> path, qty |-> qty, byName |-> FALSE]

McCatalog ==
    [cats     |-> << Category(drinks, nil), Category(cola, 1) >>,
     products |-> << Filed(cola, scan, 5, 2), Filed(water, nil, 3, 1),
                     [Filed(other, nil, 0, 1) EXCEPT !.review = TRUE] >>,
     lots     |-> << Lot(1, 1, 5, 8, "adjust"), Lot(3, 1, 0, 0, "opening") >>,
     lines    |-> << [product |-> 3, qty |-> 1, cost |-> 0, quick |-> TRUE] >>]

McForm  == {[name |-> water, code |-> nil, cost |-> 4, price |-> 9],
            [name |-> cola, code |-> scan, cost |-> 0, price |-> 9]}
McRow   == {Line(cola, scan, 6, <<drinks, cola>>, 2),
            Line(water, nil, 3, <<other>>, 2),
            [Line(water, scan, 3, <<drinks>>, 0) EXCEPT !.byName = TRUE]}
McCount == {[cost |-> 4, price |-> Blank, qty |-> 2], [cost |-> Blank, price |-> 8, qty |-> 0]}

\* A sheet of two lines: a good with its barcode, and the good again without.
McSheet == {Line(cola, scan, 5, <<drinks, cola>>, 2), Line(cola, nil, 5, <<drinks, cola>>, 2)}

\* SheetTwice fails with Row <- McSheet: "re-running the same import never double-counts stock" (ImportOne).
\* The second line matches by name and takes the barcode off; run again, the first
\* finds no such barcode and is a new product, with the opening stock once more.
SheetTwice ==
    \A a, b \in Row :
      LET import(d) == ImportOne(ImportOne(d, a), b)
      IN import(import(db)) = import(db)

\* CatalogueSeeds.cfg, two terminals that each import this sheet: SeedsOnce fails.  Both
\* read an empty shelf, and the second write seeds what the first has seeded.
McOneLine == {Line(water, nil, 3, <<drinks>>, 2)}

\* EditFillsIn fails under CatalogueMix.cfg: "cost backfill happens when they actually edit the cost via the
\* product form" (ProductReviewDone).  An edit only looks for what to fill while the
\* flag is up, and this button took it down.
EditFillsIn ==
    \A i \in DOMAIN db.lines :
      LET p == db.lines[i].product
      IN db.lines[i].quick /\ db.lines[i].cost = 0 /\ db.products[p].cost > 0 => ~Quiet \/ db.products[p].review

\* NothingLost fails under CatalogueMix.cfg: the whole shop's valuation holds every good.  A category made the
\* child of one below it leaves the tree, with all that is filed there.
NothingLost == Quiet => ValuationBranch(db, None) = Worth(db, Live(db))
=============================================================================
