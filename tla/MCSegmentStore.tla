---------------------------- MODULE MCSegmentStore ----------------------------
(***************************************************************************)
(* Instances of SegmentStore.  Which session is recorded first does not    *)
(* matter, nor which source is which: both sets are symmetric.             *)
(***************************************************************************)
EXTENDS SegmentStore, TLC

StoreSymmetry == Permutations(Sessions) \cup Permutations(Sources)

\* Bound: at most two paths are used, by all takes together; so either both sources
\* record a segment at the same time, or one of them records two in a row.
Used ==
    {p \in Paths : \E s \in Sessions : row[s][p] # "none"}
    \cup {Path(x) : x \in {y \in Sources : index[y] > 0 \/ writer[y] \in {"prepared", "collided"}}}
TwoPaths == \E p, q \in Paths : Used' \subseteq {p, q}
=============================================================================
