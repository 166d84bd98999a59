------------------------------ MODULE SeqFolds ------------------------------
(***************************************************************************)
(* The loops of the code that carry a state through a list: transactions   *)
(* tried in turn, blocks replayed from a root, addresses added to a list.  *)
(* The body of the loop is a function, not an operator, so that one set of *)
(* lemmas (DataTheorems) serves all of them.                              *)
(***************************************************************************)
EXTENDS Integers, SequencesExt

\* What `first` has become after step[x] for every x of seq, in turn.
Folded(step, first, seq) == FoldLeft(LAMBDA state, x : step[x][state], first, seq)
=============================================================================
