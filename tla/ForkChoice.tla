----------------------------- MODULE ForkChoice -----------------------------
(***************************************************************************)
(* Several nodes, each with its own chain: block production, gossip, chain *)
(* download, fork choice, depth finality, persistence and restart          *)
(* (src/src/blockchain/chain.rs, src/src/api/routes.rs, src/src/p2p/sync). *)
(*                                                                         *)
(* A block is its producer and its work; a chain is the sequence of blocks *)
(* above genesis, and the hash of a block stands for the whole prefix that *)
(* ends in it.  Every node hosts one validator.  Which validator may seal  *)
(* a block is LeaderRotation's matter: any of them may get its turn.  The  *)
(* work of a block is set by the retarget schedule from timestamps, so two *)
(* forks may differ in it.  Blocks that fail validation never reach here.  *)
(***************************************************************************)
EXTENDS Integers, Sequences, SequencesExt

CONSTANTS
    Nodes,
    Works,         \* bound: [Nodes -> the work a block sealed there can have]
    Depths,        \* bound: finality depths an operator sets
    DefaultDepth,  \* governance default
    MaxHeight,     \* bound: height of a chain
    MaxUpsets      \* bound: crashes and depth changes, together

ASSUME ForkChoiceAssumption ==
    /\ Works \in [Nodes -> SUBSET (Nat \ {0})]
    /\ Depths \subseteq Nat \ {0}
    /\ DefaultDepth \in Nat \ {0}
    /\ MaxHeight \in Nat
    /\ MaxUpsets \in Nat

Blocks == [by : Nodes, work : UNION Range(Works)]
NoFetch == [chain |-> <<>>, depth |-> 0]

VARIABLES
    chain,       \* [Nodes -> Seq(Blocks)]
    finalized,   \* [Nodes -> Nat], finalized_height
    depth,       \* [Nodes -> Nat], governance.finality_depth
    mining,      \* [Nodes -> {<<chain a block is worked on for, depth read>>}]
    fetched,     \* [Nodes -> the chain a sync holds, not compared yet, and depth read]
    saved,       \* [Nodes -> snapshot on disk]
    signed,      \* <<node, chain>> of every block that was sealed: gossip carries it
    settled,     \* observer: [Nodes -> longest finalized prefix since start-up]
    tuned,       \* observer: nodes whose depth was set since start-up
    crashes,
    upsets       \* crashes and depth changes so far

node == <<chain, finalized, depth>>
vars == <<node, mining, fetched, saved, signed, settled, tuned, crashes, upsets>>

-----------------------------------------------------------------------------

\* cumulative_work
CumulativeWork(c) == FoldLeft(LAMBDA sum, block : sum + block.work, 0, c)

\* apply_finality on a chain rooted at genesis.
Finality(c, d) == IF Len(c) > d THEN Len(c) - d ELSE 0

\* n's chain becomes c and is finalized with depth d, in one lock.
Replace(n, c, d) ==
    /\ chain' = [chain EXCEPT ![n] = c]
    /\ finalized' = [finalized EXCEPT ![n] = Finality(c, d)]
    /\ settled' = IF Finality(c, d) > Len(settled[n])
                  THEN [settled EXCEPT ![n] = SubSeq(c, 1, Finality(c, d))]
                  ELSE settled
    /\ UNCHANGED depth

\* Mutant of PreservesFinalized: the finalized block itself is not compared.
PreservesFinalized_Below(n, c) ==
    /\ Len(c) >= finalized[n]
    /\ \A i \in 1 .. finalized[n] - 1 : c[i] = chain[n][i]

\* The candidate holds every block we finalized.
PreservesFinalized(n, c) == IsPrefix(SubSeq(chain[n], 1, finalized[n]), c)

\* Mutant of Heavier: cumulative work decides, as the comment on
\* try_adopt_chain has it.
Heavier_ByWork(n, c) == CumulativeWork(c) > CumulativeWork(chain[n])

\* More validator-sealed blocks; work breaks ties of the height.
Heavier(n, c) ==
    \/ Len(c) > Len(chain[n])
    \/ Len(c) = Len(chain[n]) /\ CumulativeWork(c) > CumulativeWork(chain[n])

\* try_adopt_chain
Adoptable(n, c) == PreservesFinalized(n, c) /\ Heavier(n, c)

-----------------------------------------------------------------------------
(* Block production                                                        *)

\* mine_block reads the depth and plans on its tip ...
StartMining(n) ==
    /\ Len(chain[n]) < MaxHeight
    /\ mining' = [mining EXCEPT ![n] = @ \cup {<<chain[n], depth[n]>>}]
    /\ UNCHANGED <<node, fetched, saved, signed, settled, tuned, crashes, upsets>>

\* Mutant of FinishMining: signs before it looks at the tip again.
FinishMining_SignsFirst(n, job, work) ==
    /\ job \in mining[n]
    /\ mining' = [mining EXCEPT ![n] = @ \ {job}]
    /\ LET c == Append(job[1], [by |-> n, work |-> work])
       IN  /\ signed' = signed \cup {<<n, c>>}
           /\ IF chain[n] = job[1]
              THEN Replace(n, c, job[2])
              ELSE UNCHANGED <<node, settled>>
    /\ UNCHANGED <<fetched, saved, tuned, crashes, upsets>>

\* ... and after the work signs and commits if the tip is still the same.
FinishMining(n, job, work) ==
    /\ job \in mining[n]
    /\ mining' = [mining EXCEPT ![n] = @ \ {job}]
    /\ IF chain[n] = job[1]
       THEN LET c == Append(job[1], [by |-> n, work |-> work])
            IN  Replace(n, c, job[2]) /\ signed' = signed \cup {<<n, c>>}
       ELSE UNCHANGED <<node, signed, settled>>
    /\ UNCHANGED <<fetched, saved, tuned, crashes, upsets>>

\* Gossip delivers a sealed block late, twice or never, whether the snapshot
\* with it was written or not.
Sealed == {s[2] : s \in signed}

\* accept_peer_block: the block of c extends our tip.
ReceiveBlock(n, c) ==
    /\ c \in Sealed
    /\ Front(c) = chain[n]
    /\ Replace(n, c, depth[n])
    /\ UNCHANGED <<mining, fetched, saved, signed, tuned, crashes, upsets>>

-----------------------------------------------------------------------------
(* Synchronisation                                                         *)

\* download_from reads the depth once, before all requests and commits: after the
\* operator set another one, a pass may still run with the old.
DepthsInHand(n) == {depth[n]} \cup IF n \in tuned THEN Depths \cup {DefaultDepth} ELSE {}

\* catch_up asks a peer that is ahead: what extends our tip is appended block
\* by block.
Download(n, m, d) ==
    /\ Len(chain[m]) > Len(chain[n])
    /\ IsPrefix(chain[n], chain[m])
    /\ Replace(n, SubSeq(chain[m], 1, Len(chain[n]) + 1), d)
    /\ UNCHANGED <<mining, fetched, saved, signed, tuned, crashes, upsets>>

\* The whole chain of a peer is fetched without the lock: by
\* adopt_via_fork_choice when the peer is ahead and diverged, by sync_with_peers
\* when gossip brought a block that does not fit on our tip.
FetchChain(n, m, d) ==
    /\ fetched[n] = NoFetch
    /\ chain[m] \notin {chain[n], <<>>}
    /\ \/ \E c \in Sealed : Front(c) # chain[n]
       \/ Len(chain[m]) > Len(chain[n]) /\ ~IsPrefix(chain[n], chain[m])
    /\ fetched' = [fetched EXCEPT ![n] = [chain |-> chain[m], depth |-> d]]
    /\ UNCHANGED <<node, mining, saved, signed, settled, tuned, crashes, upsets>>

\* try_adopt_chain under the lock, on whatever our chain is by then.
Adopt(n) ==
    /\ fetched[n] # NoFetch
    /\ fetched' = [fetched EXCEPT ![n] = NoFetch]
    /\ IF Adoptable(n, fetched[n].chain)
       THEN Replace(n, fetched[n].chain, fetched[n].depth)
       ELSE UNCHANGED <<node, settled>>
    /\ UNCHANGED <<mining, saved, signed, tuned, crashes, upsets>>

-----------------------------------------------------------------------------
(* Operator, disk and restart                                              *)

\* update_governance
SetDepth(n, d) ==
    /\ upsets < MaxUpsets
    /\ upsets' = upsets + 1
    /\ d # depth[n]
    /\ depth' = [depth EXCEPT ![n] = d]
    /\ tuned' = tuned \cup {n}
    /\ UNCHANGED <<chain, finalized, mining, fetched, saved, signed, settled, crashes>>

\* persist_state: one consistent snapshot, written after the locks of the
\* operation it saves were released, if the write does not fail.
Persist(n) ==
    /\ upsets < MaxUpsets    \* bound: the last snapshot nobody loads is not written
    /\ saved' = [saved EXCEPT ![n] = [chain |-> chain[n], depth |-> depth[n]]]
    /\ UNCHANGED <<node, mining, fetched, signed, settled, tuned, crashes, upsets>>

\* Mutant of Restart: keeps the finalized height it had before the crash.
Restart_OldFinality(n) ==
    /\ upsets < MaxUpsets
    /\ upsets' = upsets + 1
    /\ crashes' = crashes + 1
    /\ chain' = [chain EXCEPT ![n] = saved[n].chain]
    /\ depth' = [depth EXCEPT ![n] = saved[n].depth]
    /\ settled' = [settled EXCEPT ![n] = <<>>]
    /\ mining' = [mining EXCEPT ![n] = {}]
    /\ fetched' = [fetched EXCEPT ![n] = NoFetch]
    /\ tuned' = tuned \ {n}
    /\ UNCHANGED <<finalized, saved, signed>>

\* The process dies and main loads the snapshot: what was in memory is gone.
Restart(n) ==
    /\ upsets < MaxUpsets
    /\ upsets' = upsets + 1
    /\ crashes' = crashes + 1
    /\ chain' = [chain EXCEPT ![n] = saved[n].chain]
    /\ depth' = [depth EXCEPT ![n] = saved[n].depth]
    /\ finalized' = [finalized EXCEPT ![n] = Finality(saved[n].chain, saved[n].depth)]
    /\ settled' = [settled EXCEPT ![n] =
                      SubSeq(saved[n].chain, 1, Finality(saved[n].chain, saved[n].depth))]
    /\ mining' = [mining EXCEPT ![n] = {}]
    /\ fetched' = [fetched EXCEPT ![n] = NoFetch]
    /\ tuned' = tuned \ {n}
    /\ UNCHANGED <<saved, signed>>

Init ==
    /\ chain = [n \in Nodes |-> <<>>]
    /\ finalized = [n \in Nodes |-> 0]
    /\ depth = [n \in Nodes |-> DefaultDepth]
    /\ mining = [n \in Nodes |-> {}]
    /\ fetched = [n \in Nodes |-> NoFetch]
    /\ saved = [n \in Nodes |-> [chain |-> <<>>, depth |-> DefaultDepth]]
    /\ signed = {}
    /\ settled = [n \in Nodes |-> <<>>]
    /\ tuned = {}
    /\ crashes = 0
    /\ upsets = 0

Next ==
    \E n \in Nodes :
        \/ StartMining(n)
        \/ \E job \in mining[n] : \E work \in Works[n] : FinishMining(n, job, work)
        \/ \E c \in Sealed : ReceiveBlock(n, c)
        \/ \E m \in Nodes, d \in DepthsInHand(n) : Download(n, m, d) \/ FetchChain(n, m, d)
        \/ Adopt(n)
        \/ \E d \in Depths : SetDepth(n, d)
        \/ Persist(n)
        \/ Restart(n)

Spec == Init /\ [][Next]_vars 

-----------------------------------------------------------------------------

\* Types; and the finalized height never points above the tip, after a restart
\* from any snapshot neither: try_adopt_chain indexes the chain with it and would
\* panic.
TypeOK ==
    /\ chain \in [Nodes -> Seq(Blocks)]
    /\ \A n \in Nodes : finalized[n] \in 0 .. Len(chain[n])
    /\ depth \in [Nodes -> Nat \ {0}]
    /\ \A n \in Nodes : \A job \in mining[n] : job[1] \in Seq(Blocks) /\ job[2] \in Nat \ {0}
    /\ \A n \in Nodes : fetched[n].chain \in Seq(Blocks)
    /\ \A n \in Nodes : saved[n].chain \in Seq(Blocks)
    /\ signed \subseteq Nodes \X Seq(Blocks)
    /\ settled \in [Nodes -> Seq(Blocks)] /\ tuned \subseteq Nodes
    /\ upsets \in 0 .. MaxUpsets /\ crashes \in 0 .. upsets

\* README.md:107, "Finalized blocks are irreversible": what a node has once
\* reported as finalized stays in its chain while it runs.
FinalizedIrreversible == \A n \in Nodes : IsPrefix(settled[n], chain[n])

\* It does on every node whose operator has not changed the finality depth
\* since it started, whatever the other operators do and whatever it restarted
\* from.
FinalizedStays == \A n \in Nodes \ tuned : IsPrefix(settled[n], chain[n])

\* A running node's tip never goes down, whatever forks it meets.
TipNeverRegresses ==
    [][crashes' = crashes => \A n \in Nodes : Len(chain'[n]) >= Len(chain[n])]_vars

\* A validator that follows forks, mines in parallel and is outrun still signs
\* one block per height: two are a SlashProof against it (transaction.rs:139).
NoDoubleSigning ==
    crashes = 0 =>
        \A s, t \in signed : s[1] = t[1] /\ Len(s[2]) = Len(t[2]) => s = t
=============================================================================
