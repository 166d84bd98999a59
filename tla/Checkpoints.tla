---------------------------- MODULE Checkpoints -----------------------------
(***************************************************************************)
(* What a node derives from its blocks and never stores, the difficulty of *)
(* the next block and the randomness beacon, on nodes that hold the whole  *)
(* chain and on nodes that started from a checkpoint bundle                *)
(* (src/src/blockchain/chain.rs, checkpoint_chain of src/src/main.rs).     *)
(*                                                                         *)
(* A block is how long after its parent it is stamped, the difficulty it   *)
(* claims, the beacon its VRF slot was derived from, and its parent.  A    *)
(* hash stands for all that leads up to it, and so does a beacon; the VRF  *)
(* output of a block stands for its stamp.  Execution and the state root   *)
(* are ChainState's matter, leaders and clocks LeaderRotation's.           *)
(***************************************************************************)
EXTENDS Integers, Sequences, SeqFolds, SequencesExt, FiniteSetsExt, Functions

CONSTANTS
    Nodes,
    Founders,            \* nodes that start from genesis; the rest join later
    RETARGET_INTERVAL,
    TARGET_BLOCK_SECONDS,
    MIN_DIFFICULTY,
    MAX_DIFFICULTY,
    GenesisDifficulty,
    FinalityDepth,
    Gaps,                \* bound: seconds between two blocks
    MaxHeight,           \* bound: height of a chain
    MaxBlocks            \* bound: blocks sealed, on all forks together

ASSUME CheckpointsAssumption ==
    /\ Founders \subseteq Nodes
    /\ RETARGET_INTERVAL \in Nat \ {0}
    /\ TARGET_BLOCK_SECONDS \in Nat
    /\ MIN_DIFFICULTY \in Nat
    /\ MAX_DIFFICULTY \in Nat
    /\ GenesisDifficulty \in MIN_DIFFICULTY .. MAX_DIFFICULTY
    /\ FinalityDepth \in Nat
    /\ Gaps \subseteq Nat
    /\ {MaxHeight, MaxBlocks} \subseteq Nat

VARIABLES
    node,     \* [Nodes -> what the node holds]
    sealed    \* every block that was sealed: gossip carries it

vars == <<node, sealed>>

Blocks == [gap : Nat, difficulty : Nat, slot : Seq(Nat), parent : Seq(Nat)]
Chains == [base : Nat, blocks : Seq(Blocks), root : [difficulty : Nat, beacon : Seq(Nat)],
           current : Nat, beacon : Seq(Nat), finalized : Nat]

Hash(b) == Append(b.parent, b.gap)

\* Block::genesis: the fixed timestamp makes its gap meaningless.
GenesisBlock == [gap |-> 0, difficulty |-> GenesisDifficulty, slot |-> <<>>, parent |-> <<>>]

\* Where a replay starts: at the network parameters or at a trusted checkpoint.
GenesisRoot == [difficulty |-> GenesisDifficulty, beacon |-> Hash(GenesisBlock)]

Absent == [base |-> 0, blocks |-> <<>>]
Running(n) == node[n] # Absent

NextIndex(c) == c.base + Len(c.blocks)
TipIndex(c) == NextIndex(c) - 1
LatestHash(c) == Hash(Last(c.blocks))

CumulativeWork(c) == FoldLeft(LAMBDA sum, b : sum + 16 ^ b.difficulty, 0, c.blocks)

-----------------------------------------------------------------------------
(* Difficulty                                                              *)

\* adjusted_difficulty: one step at most, towards the target interval.
Adjusted(current, window) ==
    LET span == FoldLeft(LAMBDA sum, b : sum + b.gap, 0, Tail(window))
        average == span \div (Len(window) - 1)
    IN  IF Len(window) < 2 THEN current
        ELSE IF average < TARGET_BLOCK_SECONDS \div 2 THEN Min({current + 1, MAX_DIFFICULTY})
        ELSE IF average > TARGET_BLOCK_SECONDS * 2 THEN Max({current - 1, MIN_DIFFICULTY})
        ELSE current

\* The first block of the window; genesis is never in it.
WindowStart(length, base) ==
    Max({length - RETARGET_INTERVAL, 0, IF base = 0 THEN 1 ELSE 0}) + 1

\* retarget, after the last of the blocks was produced.
Retarget(blocks, base, current) ==
    IF (base + Len(blocks)) % RETARGET_INTERVAL # 0 THEN current
    ELSE Adjusted(current, SubSeq(blocks, WindowStart(Len(blocks), base), Len(blocks)))

-----------------------------------------------------------------------------
(* Appending and replaying                                                 *)

\* validate_block_candidate
Valid(c, b) ==
    /\ b.parent = LatestHash(c)
    /\ b.difficulty = c.current
    /\ b.slot = c.beacon

\* Mutant of Finality: one block too deep.
Finality_Deeper(c) ==
    [c EXCEPT !.finalized = Max({TipIndex(c) - FinalityDepth - 1, c.base})]

\* Mutant of Finality: measured from the tip alone.
Finality_FromTip(c) == [c EXCEPT !.finalized = Max({TipIndex(c) - FinalityDepth, 0})]

\* apply_finality: a pruned node cannot go below its anchor.
Finality(c) ==
    [c EXCEPT !.finalized = Max({TipIndex(c) - FinalityDepth, c.base})]

\* commit_block
Commit(c, b) ==
    LET blocks == Append(c.blocks, b)
    IN  [c EXCEPT !.blocks = blocks,
                  !.beacon = Append(@, b.gap),
                  !.current = Retarget(blocks, c.base, @)]

\* The chain with nothing but its root, as validate_full seeds it.
Seed(c) ==
    [c EXCEPT !.blocks = <<Head(@)>>, !.beacon = c.root.beacon, !.current = c.root.difficulty]

Invalid == [base |-> 0, blocks |-> <<>>, root |-> GenesisRoot, current |-> 0,
            beacon |-> <<>>, finalized |-> 0]

\* rebuild_state: validates and commits block by block, from the root.
Replayed ==
    [b \in Blocks |->
        [d \in Chains |-> IF d # Invalid /\ Valid(d, b) THEN Commit(d, b) ELSE Invalid]]

Rebuild(c) == Folded(Replayed, Seed(c), Tail(c.blocks))

-----------------------------------------------------------------------------
(* Checkpoints                                                             *)

\* Mutant of OnBoundary: a checkpoint may be anywhere.
OnBoundary_Anywhere(height) == TRUE

\* A retarget window starts at the anchor.
OnBoundary(height) == height % RETARGET_INTERVAL = 0

\* The latest height a checkpoint can be exported for.
Boundary(c) == Max({h \in 0 .. TipIndex(c) : OnBoundary(h)})

Exportable(c) == Boundary(c) > 0

\* Mutant of CheckpointAt: difficulty and beacon of the tip.
CheckpointAt_Tip(c, height) == [difficulty |-> c.current, beacon |-> c.beacon]

\* export_checkpoint of the chain cut off at the height and replayed.
CheckpointAt(c, height) ==
    LET d == Rebuild([c EXCEPT !.blocks = SubSeq(@, 1, height - c.base + 1)])
    IN  [difficulty |-> d.current, beacon |-> d.beacon]

\* export_bundle: the anchor with its checkpoint, and the blocks after it.
ExportBundle(c) ==
    [height |-> Boundary(c),
     root |-> CheckpointAt(c, Boundary(c)),
     blocks |-> SubSeq(c.blocks, Boundary(c) - c.base + 1, Len(c.blocks))]

\* from_bundle, from_checkpoint and the rebuild in main.
FromBundle(bundle) ==
    IF ~OnBoundary(bundle.height) THEN Invalid
    ELSE Rebuild([base |-> bundle.height, blocks |-> bundle.blocks, root |-> bundle.root,
                  current |-> bundle.root.difficulty, beacon |-> <<>>,
                  finalized |-> bundle.height])

-----------------------------------------------------------------------------

\* A leader seals a block on its node's tip; the node commits it.
Seal(n, gap) ==
    /\ Running(n)
    /\ TipIndex(node[n]) < MaxHeight
    /\ Cardinality(sealed) < MaxBlocks
    /\ LET b == [gap |-> gap, difficulty |-> node[n].current, slot |-> node[n].beacon,
                 parent |-> LatestHash(node[n])]
       IN  /\ node' = [node EXCEPT ![n] = Finality(Commit(@, b))]
           /\ sealed' = sealed \cup {b}

\* accept_peer_block and download_from
Receive(n, b) ==
    /\ Running(n)
    /\ Valid(node[n], b)
    /\ node' = [node EXCEPT ![n] = Finality(Commit(@, b))]
    /\ UNCHANGED sealed

\* try_adopt_chain, under our root.
Adopt(n, m) ==
    /\ Running(n) /\ Running(m)
    /\ node[n].base = node[m].base
    /\ IsPrefix(SubSeq(node[n].blocks, 1, node[n].finalized - node[n].base + 1), node[m].blocks)
    /\ \/ TipIndex(node[m]) > TipIndex(node[n])
       \/ /\ TipIndex(node[m]) = TipIndex(node[n])
          /\ CumulativeWork(node[m]) > CumulativeWork(node[n])
    /\ LET d == Rebuild([node[n] EXCEPT !.blocks = node[m].blocks])
       IN  d # Invalid /\ node' = [node EXCEPT ![n] = Finality(d)]
    /\ UNCHANGED sealed

\* A new node imports the bundle of another, full or pruned, when it first starts.
Join(n, m) ==
    /\ ~Running(n) /\ Running(m)
    /\ Exportable(node[m])
    /\ LET d == FromBundle(ExportBundle(node[m]))
       IN  d # Invalid /\ node' = [node EXCEPT ![n] = Finality(d)]
    /\ UNCHANGED sealed

Init ==
    /\ node = [n \in Nodes |->
                  IF n \in Founders
                  THEN [base |-> 0, blocks |-> <<GenesisBlock>>, root |-> GenesisRoot,
                        current |-> GenesisDifficulty, beacon |-> GenesisRoot.beacon,
                        finalized |-> 0]
                  ELSE Absent]
    /\ sealed = {}

Next ==
    \E n \in Nodes :
        \/ \E gap \in Gaps : Seal(n, gap)
        \/ \E b \in sealed : Receive(n, b)
        \/ \E m \in Nodes : Adopt(n, m) \/ Join(n, m)

Spec == Init /\ [][Next]_vars

-----------------------------------------------------------------------------

\* The finalized height is inside the blocks the node holds: fork choice
\* subtracts the base from it and indexes the blocks with the difference.
TypeOK ==
    \A n \in Nodes :
        Running(n) =>
            /\ node[n].current \in MIN_DIFFICULTY .. MAX_DIFFICULTY
            /\ node[n].finalized \in node[n].base .. TipIndex(node[n])
            /\ Head(node[n].blocks) \in sealed \cup {GenesisBlock}

\* chain.rs:385, "Deterministic retarget decision shared by block production and
\* validation": what a node seals, every node on the same tip takes, whether it
\* got there block by block, by a replay or from somebody's checkpoint.
SealedBlocksFit ==
    \A n \in Nodes, b \in sealed :
        Running(n) /\ b.parent = LatestHash(node[n]) => Valid(node[n], b)

\* Whatever bundle a node exports, the node that imports it ends on the same tip
\* with the same difficulty and beacon; a restart of the exporter does too.
BundlesRestore ==
    \A n \in Nodes :
        Running(n) =>
            \A d \in {Rebuild(node[n])} \cup
                     IF Exportable(node[n]) THEN {FromBundle(ExportBundle(node[n]))} ELSE {} :
                /\ d # Invalid
                /\ LatestHash(d) = LatestHash(node[n])
                /\ d.current = node[n].current /\ d.beacon = node[n].beacon

\* A network with pruned nodes does nothing that one of full nodes could not do.
Tips == [n \in Nodes |-> IF Running(n) THEN LatestHash(node[n]) ELSE <<>>]
FullNetwork == INSTANCE FullNodes WITH tip <- Tips, sealed <- {Hash(b) : b \in sealed}
ImplementsFullNetwork == FullNetwork!Spec
=============================================================================
