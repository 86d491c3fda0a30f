---------------------------- MODULE StpServerMC ----------------------------
(***************************************************************************)
(* StpServer on a small host: one deployed and one unknown guid, two       *)
(* groups of two items.                                                    *)
(***************************************************************************)
EXTENDS StpServer

\* No token, which is what the repository's own client sends; first negotiations,
\* one of which names an item, the slot behind the last; and an item that is none.
MCTokens == {[group |-> 0, idx |-> 0], [group |-> -1, idx |-> -1],
             [group |-> -1, idx |-> MaxIdx], [group |-> 0, idx |-> MaxIdx + 1]}

\* Bound on the table: the steps that insert a first and a second row are taken,
\* what happens with more rows is not explored (no step reads the table).
MaxRows == 1
RowBound == Cardinality(stp_status) <= MaxRows
=============================================================================
