---------------------------- MODULE MCChainState ----------------------------
(***************************************************************************)
(* Small instances of ChainState for TLC.                                  *)
(***************************************************************************)
EXTENDS ChainState

\* A schedule that changes with height, so that a reward paid for the wrong
\* height shows.
MCBlockReward(h) == IF h = 0 THEN 0 ELSE IF h <= 2 THEN 2 ELSE 1

\* Release in two equal parts, and with a cliff that comes one block before the end
\* and lets two thirds go at once, rounded.
MCSchedules == {<<0, 2>>, <<2, 3>>}
=============================================================================
