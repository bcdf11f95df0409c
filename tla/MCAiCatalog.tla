---------------------------- MODULE MCAiCatalog ----------------------------
(***************************************************************************)
(* Four categories, one under another, a good in each of two, and plans     *)
(* that rename, nest, merge and move.                                      *)
(***************************************************************************)
EXTENDS AiCatalog

CONSTANTS nil, drinks, cola, snacks, other, tea, scan

McCats == << [name |-> drinks, parent |-> nil], [name |-> cola, parent |-> 1],
             [name |-> snacks, parent |-> nil], [name |-> cola, parent |-> 3] >>

Held(n, c) == [name |-> n, code |-> nil, cat |-> c, qty |-> 1, active |-> TRUE, staged |-> FALSE, book |-> Booked(1, 0)]

McGoods == << Held(cola, 2), Held(snacks, 4) >>

NoPlan == [renames |-> <<>>, reparents |-> <<>>, merges |-> <<>>, moves |-> <<>>]

\* The same plan may come twice, of two chunks: what it did already, it skips.
McPlan == { [NoPlan EXCEPT !.renames = <<[id |-> 1, to |-> tea], [id |-> 4, to |-> snacks]>>,
                           !.reparents = <<[id |-> 1, parent |-> 2], [id |-> 1, parent |-> 3]>>],
            [NoPlan EXCEPT !.reparents = <<[id |-> 2, parent |-> nil]>>,
                           !.merges = <<[from |-> 3, into |-> 4], [from |-> 4, into |-> 2]>>],
            [NoPlan EXCEPT !.merges = <<[from |-> 4, into |-> 1]>>,
                           !.moves = <<[id |-> 1, cat |-> 3], [id |-> 2, cat |-> 3]>>] }

Says(n, code, c, qty) == [name |-> n, code |-> code, cat |-> c, qty |-> qty]

McTyped == {Says(tea, scan, nil, 2), Says(tea, nil, drinks, 1), Says(other, nil, nil, 0)}

McDrafts == <<Row(Says(tea, scan, nil, 2))>>

\* AiCatalogIds.cfg: two merges, each a session of its own.
McMerges == {[NoPlan EXCEPT !.merges = <<[from |-> c, into |-> 1]>>] : c \in {3, 4}}

\* Each of the following fails: NoLoop and RevertedForGood in place of the invariants of
\* AiCatalogMix.cfg, MergedStaysGone under AiCatalogIds.cfg.

\* "unsafe ops (... cycles ...) are skipped" (ApplyPlan): a category merged into its
\* own child makes the child its own parent.
NoLoop == \A c \in DOMAIN cats : IsDescendant(Tree, None, c)

\* "A single Revert then rolls back the whole session" (ApplyPlan): a page left open
\* adds the next chunk to a run that was already reverted.
RevertedForGood == [][\A n \in DOMAIN runs : runs[n].reverted => runs'[n].undo = runs[n].undo]_vars

\* "Keep the id sequence ahead of any reused id" (revertOp): setting it to the highest id
\* there is gives a merged category's id to a new one, which the undoing of that
\* merge then takes for the old.
MergedStaysGone ==
    \A n \in DOMAIN runs : ~runs[n].reverted =>
      \A i \in DOMAIN runs[n].undo :
        runs[n].undo[i].kind = "unmerge" => runs[n].undo[i].id \notin DOMAIN cats
=============================================================================
