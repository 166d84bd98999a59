--------------------------- MODULE MCCheckpoints ---------------------------
(***************************************************************************)
(* A small instance of Checkpoints for TLC: blocks come at once or late.   *)
(***************************************************************************)
EXTENDS Checkpoints

CONSTANTS n1, n2, n3

MCNodes == {n1, n2, n3}
MCFounders == {n1, n2}
MCGaps == {0, 40}

\* The founders are alike.
MCSymmetry == Permutations(MCFounders)
=============================================================================
