----------------------------- MODULE FullNodes ------------------------------
(***************************************************************************)
(* What a network with pruned nodes promises: that it cannot be told from  *)
(* one in which everybody holds the whole chain.  A chain is the list of   *)
(* the times between its blocks, from genesis on; there is no difficulty,  *)
(* no beacon and no checkpoint, so nothing has to be derived and no block  *)
(* on the right tip is ever refused.  Checkpoints maps its nodes to these  *)
(* by the hash of their tip.                                               *)
(***************************************************************************)
EXTENDS Integers, Sequences, SequencesExt

CONSTANTS Nodes, Founders, FinalityDepth, Gaps, MaxHeight

VARIABLES
    tip,      \* [Nodes -> the chain of the node], empty while it does not run
    sealed    \* the chains that end in a sealed block

vars == <<tip, sealed>>

Nothing == <<>>
Genesis == <<0>>

Init ==
    /\ tip = [n \in Nodes |-> IF n \in Founders THEN Genesis ELSE Nothing]
    /\ sealed = {}

Seal(n, gap) ==
    /\ tip[n] # Nothing
    /\ Len(tip[n]) <= MaxHeight
    /\ tip' = [tip EXCEPT ![n] = Append(@, gap)]
    /\ sealed' = sealed \cup {Append(tip[n], gap)}

Receive(n, chain) ==
    /\ tip[n] # Nothing
    /\ Front(chain) = tip[n]
    /\ tip' = [tip EXCEPT ![n] = chain]
    /\ UNCHANGED sealed

\* The blocks of n that are deep enough to be final are in the other chain too.
KeepsFinal(n, chain) ==
    \A i \in 1 .. Len(tip[n]) - FinalityDepth : i <= Len(chain) /\ chain[i] = tip[n][i]

\* A node never takes a shorter chain.
Adopt(n, m) ==
    /\ tip[n] # Nothing
    /\ Len(tip[m]) >= Len(tip[n])
    /\ KeepsFinal(n, tip[m])
    /\ tip' = [tip EXCEPT ![n] = tip[m]]
    /\ UNCHANGED sealed

Join(n, m) ==
    /\ tip[n] = Nothing
    /\ tip[m] # Nothing
    /\ tip' = [tip EXCEPT ![n] = tip[m]]
    /\ UNCHANGED sealed

Next ==
    \E n \in Nodes :
        \/ \E gap \in Gaps : Seal(n, gap)
        \/ \E chain \in sealed : Receive(n, chain)
        \/ \E m \in Nodes : Adopt(n, m) \/ Join(n, m)

Spec == Init /\ [][Next]_vars

-----------------------------------------------------------------------------

\* Every chain a node is on, and every part of it from genesis, was sealed by
\* somebody: also the part before the checkpoint a pruned node started from.
PastWasSealed ==
    /\ \A n \in Nodes : tip[n] \in sealed \cup {Nothing, Genesis}
    /\ \A chain \in sealed : Front(chain) \in sealed \cup {Genesis}

DeepKept == \A n \in Nodes : Len(tip'[n]) >= Len(tip[n]) /\ KeepsFinal(n, tip'[n])

\* A node that runs keeps running, and whatever lies FinalityDepth blocks deep on
\* it stays (chain.rs:1044, "Finalized blocks are irreversible"), on a pruned node
\* also below its anchor.
DeepBlocksStay == [][DeepKept]_vars
=============================================================================
