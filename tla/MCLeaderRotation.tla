-------------------------- MODULE MCLeaderRotation --------------------------
(***************************************************************************)
(* Small instances of LeaderRotation for TLC.                              *)
(***************************************************************************)
EXTENDS LeaderRotation

CONSTANTS n1, n2, v1, v2, down

MCNodes == {n1, n2}
MCValidators == {v1, v2, down}
MCProducers == [n \in MCNodes |-> IF n = n1 THEN {v1} ELSE {v2}]

\* The clock of n2 is further ahead of n1's than n1 tolerates.
MCSkew == [n \in MCNodes |-> IF n = n1 THEN 0 ELSE 2]

\* Nobody who is up until the last round, turns in either order, one validator
\* drawn twice, only the validator that is down, and no validator at all.
MCDraws ==
    LET f(a, b, c) == [r \in 0 .. 2 |-> IF r = 0 THEN a ELSE IF r = 1 THEN b ELSE c]
    IN  {f(down, down, v2), f(v2, v1, v2), f(v1, v1, down), f(down, down, down)}

\* The chain that took less time was sealed at the higher difficulty.
Duration(c) == FoldSeq(LAMBDA b, sum : b.elapsed + sum, 0, c)
MCHeavier(c, d) == Duration(c) < Duration(d)
=============================================================================
