-------------------------- MODULE ForkChoiceProofs --------------------------
(***************************************************************************)
(* Proofs about fork choice, finality and restart, for any number of nodes,*)
(* every finality depth, every height and any number of crashes and depth  *)
(* changes.                                                                *)
(***************************************************************************)
EXTENDS ForkChoice, TLAPS

Depth == Nat \ {0}

\* Type invariant: what TypeOK says and, for what a node still holds of an
\* earlier moment, the depths read then.
Types ==
    /\ chain \in [Nodes -> Seq(Blocks)]
    /\ finalized \in [Nodes -> Nat]
    /\ \A n \in Nodes : finalized[n] <= Len(chain[n])
    /\ depth \in [Nodes -> Depth]
    /\ mining \in [Nodes -> SUBSET (Seq(Blocks) \X Depth)]
    /\ fetched \in [Nodes -> [chain : Seq(Blocks), depth : Nat]]
    /\ saved \in [Nodes -> [chain : Seq(Blocks), depth : Depth]]
    /\ signed \subseteq Nodes \X Seq(Blocks)
    /\ settled \in [Nodes -> Seq(Blocks)] /\ tuned \subseteq Nodes
    /\ upsets \in 0 .. MaxUpsets /\ crashes \in 0 .. upsets

-----------------------------------------------------------------------------
(* Chains                                                                  *)

LEMMA PrefixAt ==
    ASSUME NEW s \in Seq(Blocks), NEW t \in Seq(Blocks)
    PROVE  IsPrefix(s, t) <=> Len(s) <= Len(t) /\ \A i \in 1 .. Len(s) : s[i] = t[i]
BY DEF IsPrefix

\* The first blocks of a chain.
LEMMA HeadOf ==
    ASSUME NEW S, NEW c \in Seq(S), NEW k \in 0 .. Len(c)
    PROVE  /\ SubSeq(c, 1, k) \in Seq(S)
           /\ Len(SubSeq(c, 1, k)) = k
           /\ \A i \in 1 .. k : SubSeq(c, 1, k)[i] = c[i]
OBVIOUS

\* A block sealed on top of a chain is a block.
LEMMA SealedBlock ==
    ASSUME NEW n \in Nodes, NEW work \in Works[n], NEW c \in Seq(Blocks)
    PROVE  /\ Append(c, [by |-> n, work |-> work]) \in Seq(Blocks)
           /\ Len(Append(c, [by |-> n, work |-> work])) = Len(c) + 1
           /\ IsPrefix(c, Append(c, [by |-> n, work |-> work]))
<1> DEFINE b == [by |-> n, work |-> work]
<1>1. Works[n] \in Range(Works)
  BY ForkChoiceAssumption DEF Range
<1>2. b \in Blocks
  BY <1>1 DEF Blocks
<1>3. Append(c, b) \in Seq(Blocks) /\ Len(Append(c, b)) = Len(c) + 1
  BY <1>2
<1>4. \A i \in 1 .. Len(c) : Append(c, b)[i] = c[i]
  BY <1>2
<1> DEFINE e == Append(c, b)
<1>5. e \in Seq(Blocks) /\ Len(c) <= Len(e) /\ \A i \in 1 .. Len(c) : e[i] = c[i]
  BY <1>3, <1>4
<1> HIDE DEF e
<1>6. IsPrefix(c, e)
  BY <1>5, PrefixAt
<1> QED BY <1>3, <1>6 DEF e

\* A chain without its last block.
LEMMA FrontOf ==
    ASSUME NEW c \in Seq(Blocks), NEW d \in Seq(Blocks), Front(c) = d
    PROVE  Len(c) >= Len(d) /\ IsPrefix(d, c)
<1>1. CASE Len(c) = 0
  <2>1. Len(d) = 0
    BY <1>1 DEF Front
  <2>2. Len(d) <= Len(c) /\ \A i \in 1 .. Len(d) : d[i] = c[i]
    BY <1>1, <2>1
  <2> QED BY <2>2, PrefixAt
<1>2. CASE Len(c) > 0
  <2>1. Len(c) - 1 \in 0 .. Len(c) /\ d = SubSeq(c, 1, Len(c) - 1)
    BY <1>2 DEF Front
  <2>2. Len(d) <= Len(c) /\ \A i \in 1 .. Len(d) : d[i] = c[i]
    BY <2>1, HeadOf
  <2> QED BY <2>2, PrefixAt
<1> QED BY <1>1, <1>2

LEMMA FinalityRange ==
    ASSUME NEW c \in Seq(Blocks), NEW d \in Nat
    PROVE  Finality(c, d) \in 0 .. Len(c)
BY DEF Finality


-----------------------------------------------------------------------------
(* What the actions do to a chain                                          *)

\* n replaces its chain by one that is not shorter and holds what n finalized.
Moves(n, c, d) ==
    /\ Replace(n, c, d)
    /\ c \in Seq(Blocks) /\ d \in Nat
    /\ Len(c) >= Len(chain[n])
    /\ IsPrefix(SubSeq(chain[n], 1, finalized[n]), c)

\* Growth on top of the tip is such a replacement.
LEMMA GrowthMoves ==
    ASSUME Types, NEW n \in Nodes, NEW c \in Seq(Blocks), NEW d \in Nat,
           IsPrefix(chain[n], c), Replace(n, c, d)
    PROVE  Moves(n, c, d)
<1>1. chain[n] \in Seq(Blocks) /\ finalized[n] \in 0 .. Len(chain[n])
  BY DEF Types
<1>2. Len(chain[n]) <= Len(c) /\ \A i \in 1 .. Len(chain[n]) : chain[n][i] = c[i]
  BY <1>1, PrefixAt
<1> DEFINE s == SubSeq(chain[n], 1, finalized[n])
<1>3. s \in Seq(Blocks) /\ Len(s) <= Len(chain[n]) /\ \A i \in 1 .. Len(s) : s[i] = chain[n][i]
  BY <1>1, HeadOf
<1> HIDE DEF s
<1>4. Len(s) <= Len(c) /\ \A i \in 1 .. Len(s) : s[i] = c[i]
  BY <1>1, <1>2, <1>3
<1>5. IsPrefix(s, c)
  BY <1>3, <1>4, PrefixAt
<1> QED BY <1>2, <1>5 DEF Moves, s

LEMMA FinishMoves ==
    ASSUME Types, NEW n \in Nodes, NEW job \in mining[n], NEW work \in Works[n],
           FinishMining(n, job, work), chain[n] = job[1]
    PROVE  /\ Moves(n, Append(chain[n], [by |-> n, work |-> work]), job[2])
           /\ Len(Append(chain[n], [by |-> n, work |-> work])) = Len(chain[n]) + 1
           /\ signed' = signed \cup {<<n, Append(chain[n], [by |-> n, work |-> work])>>}
<1>1. chain[n] \in Seq(Blocks) /\ job[2] \in Nat
  BY DEF Types, Depth
<1> DEFINE c == Append(chain[n], [by |-> n, work |-> work])
<1>2. Replace(n, c, job[2]) /\ signed' = signed \cup {<<n, c>>}
  BY DEF FinishMining
<1>3. c \in Seq(Blocks) /\ Len(c) = Len(chain[n]) + 1 /\ IsPrefix(chain[n], c)
  BY <1>1, SealedBlock
<1> HIDE DEF c
<1>4. Moves(n, c, job[2])
  BY <1>1, <1>2, <1>3, GrowthMoves
<1> QED BY <1>2, <1>3, <1>4 DEF c

LEMMA ReceiveMoves ==
    ASSUME Types, NEW n \in Nodes, NEW c \in Sealed, ReceiveBlock(n, c)
    PROVE  Moves(n, c, depth[n])
<1>1. chain[n] \in Seq(Blocks) /\ depth[n] \in Nat /\ c \in Seq(Blocks)
  BY DEF Types, Depth, Sealed
<1>2. IsPrefix(chain[n], c)
  BY <1>1, FrontOf DEF ReceiveBlock
<1>3. Replace(n, c, depth[n])
  BY DEF ReceiveBlock
<1> QED BY <1>1, <1>2, <1>3, GrowthMoves

\* A depth a download holds is one, and the current one unless it was changed.
LEMMA DepthInHand ==
    ASSUME Types, NEW n \in Nodes, NEW d \in DepthsInHand(n)
    PROVE  d \in Depth /\ (n \notin tuned => d = depth[n])
BY ForkChoiceAssumption DEF Types, Depth, DepthsInHand

LEMMA DownloadMoves ==
    ASSUME Types, NEW n \in Nodes, NEW m \in Nodes, NEW d \in Nat, Download(n, m, d)
    PROVE  Moves(n, SubSeq(chain[m], 1, Len(chain[n]) + 1), d)
<1>1. chain[n] \in Seq(Blocks) /\ chain[m] \in Seq(Blocks)
  BY DEF Types
<1>2. /\ Len(chain[n]) + 1 \in 0 .. Len(chain[m])
      /\ \A i \in 1 .. Len(chain[n]) : chain[n][i] = chain[m][i]
  BY <1>1, PrefixAt DEF Download
<1> DEFINE c == SubSeq(chain[m], 1, Len(chain[n]) + 1)
<1>3. /\ c \in Seq(Blocks)
      /\ Len(c) = Len(chain[n]) + 1
      /\ \A i \in 1 .. Len(chain[n]) + 1 : c[i] = chain[m][i]
  BY <1>1, <1>2, HeadOf
<1>4. Replace(n, c, d)
  BY DEF Download
<1> HIDE DEF c
<1>5. IsPrefix(chain[n], c)
  <2>1. \A i \in 1 .. Len(chain[n]) : i \in 1 .. Len(chain[n]) + 1
    BY <1>1
  <2>2. Len(chain[n]) <= Len(c) /\ \A i \in 1 .. Len(chain[n]) : chain[n][i] = c[i]
    BY <1>1, <1>2, <1>3, <2>1
  <2> QED BY <1>1, <1>3, <2>2, PrefixAt
<1>6. Moves(n, c, d)
  BY <1>1, <1>3, <1>4, <1>5, GrowthMoves
<1> QED BY <1>6 DEF c

LEMMA AdoptMoves ==
    ASSUME Types, NEW n \in Nodes, Adopt(n), Adoptable(n, fetched[n].chain)
    PROVE  Moves(n, fetched[n].chain, fetched[n].depth)
<1>1. chain[n] \in Seq(Blocks) /\ fetched[n].chain \in Seq(Blocks) /\ fetched[n].depth \in Nat
  BY DEF Types
<1>2. Len(fetched[n].chain) >= Len(chain[n])
  BY <1>1 DEF Adoptable, Heavier
<1>3. IsPrefix(SubSeq(chain[n], 1, finalized[n]), fetched[n].chain)
  BY DEF Adoptable, PreservesFinalized
<1> QED BY <1>1, <1>2, <1>3 DEF Adopt, Moves

\* The node that moves stays well typed and its tip does not go down; the others
\* do not change.
LEMMA MoveTypes ==
    ASSUME Types, NEW n \in Nodes, NEW c, NEW d, Moves(n, c, d)
    PROVE  /\ chain' \in [Nodes -> Seq(Blocks)] /\ chain'[n] = c
           /\ finalized' \in [Nodes -> Nat] /\ finalized'[n] = Finality(c, d)
           /\ settled' \in [Nodes -> Seq(Blocks)]
           /\ depth' = depth
           /\ \A m \in Nodes : finalized'[m] <= Len(chain'[m])
           /\ \A m \in Nodes : Len(chain'[m]) >= Len(chain[m])
           /\ \A m \in Nodes \ {n} : /\ chain'[m] = chain[m]
                                     /\ finalized'[m] = finalized[m]
                                     /\ settled'[m] = settled[m]
<1>1. Finality(c, d) \in 0 .. Len(c)
  BY FinalityRange DEF Moves
<1>2. SubSeq(c, 1, Finality(c, d)) \in Seq(Blocks)
  BY <1>1, HeadOf DEF Moves
<1>3. chain' = [chain EXCEPT ![n] = c] /\ finalized' = [finalized EXCEPT ![n] = Finality(c, d)]
  BY DEF Moves, Replace
<1>4. /\ settled' \in [Nodes -> Seq(Blocks)]
      /\ \A m \in Nodes \ {n} : settled'[m] = settled[m]
  BY <1>2 DEF Moves, Replace, Types
<1>5. chain' \in [Nodes -> Seq(Blocks)] /\ chain'[n] = c
  BY <1>3 DEF Moves, Types
<1>6. finalized' \in [Nodes -> Nat] /\ finalized'[n] = Finality(c, d)
  BY <1>1, <1>3 DEF Types
<1>7. \A m \in Nodes \ {n} : chain'[m] = chain[m] /\ finalized'[m] = finalized[m]
  BY <1>3 DEF Types
<1>8. \A m \in Nodes : finalized'[m] <= Len(chain'[m]) /\ Len(chain'[m]) >= Len(chain[m])
  <2>1. \A m \in Nodes : finalized[m] <= Len(chain[m]) /\ Len(chain[m]) \in Nat
    BY DEF Types
  <2>2. Len(c) >= Len(chain[n]) /\ Len(c) \in Nat
    BY DEF Moves
  <2> QED BY <1>1, <1>5, <1>6, <1>7, <2>1, <2>2
<1>9. depth' = depth
  BY DEF Moves, Replace
<1> QED BY <1>4, <1>5, <1>6, <1>7, <1>8, <1>9

-----------------------------------------------------------------------------
(* Types                                                                   *)

LEMMA TypesInit == Init => Types
<1> SUFFICES ASSUME Init PROVE Types
  OBVIOUS
<1>1. <<>> \in Seq(Blocks) /\ Len(<<>>) = 0 /\ DefaultDepth \in Depth
  BY ForkChoiceAssumption DEF Depth
<1>2. NoFetch \in [chain : Seq(Blocks), depth : Nat]
  BY <1>1 DEF NoFetch
<1> QED BY <1>1, <1>2, ForkChoiceAssumption DEF Init, Types

\* A step that moves one chain, and may use up a block in work, an answer of a
\* peer, and add a sealed block.
LEMMA TypesAfterMove ==
    ASSUME Types, NEW n \in Nodes, NEW c, NEW d, Moves(n, c, d),
           mining' \in [Nodes -> SUBSET (Seq(Blocks) \X Depth)],
           fetched' \in [Nodes -> [chain : Seq(Blocks), depth : Nat]],
           signed' \subseteq Nodes \X Seq(Blocks),
           UNCHANGED <<saved, tuned, crashes, upsets>>
    PROVE  Types'
<1>1. /\ chain' \in [Nodes -> Seq(Blocks)]
      /\ finalized' \in [Nodes -> Nat]
      /\ settled' \in [Nodes -> Seq(Blocks)]
      /\ depth' = depth
      /\ \A m \in Nodes : finalized'[m] <= Len(chain'[m])
  BY MoveTypes
<1> QED BY <1>1 DEF Types

LEMMA TypesFinish ==
    ASSUME Types, NEW n \in Nodes, NEW job \in mining[n], NEW work \in Works[n],
           FinishMining(n, job, work)
    PROVE  Types'
<1>1. mining' \in [Nodes -> SUBSET (Seq(Blocks) \X Depth)] /\ fetched' = fetched
  BY DEF FinishMining, Types
<1>2. CASE chain[n] = job[1]
  <2> DEFINE c == Append(chain[n], [by |-> n, work |-> work])
  <2>1. Moves(n, c, job[2]) /\ signed' = signed \cup {<<n, c>>}
    BY <1>2, FinishMoves
  <2>2. c \in Seq(Blocks)
    BY <2>1 DEF Moves
  <2> HIDE DEF c
  <2>3. signed' \subseteq Nodes \X Seq(Blocks)
    BY <2>1, <2>2 DEF Types
  <2>4. UNCHANGED <<saved, tuned, crashes, upsets>>
    BY DEF FinishMining
  <2>5. fetched' \in [Nodes -> [chain : Seq(Blocks), depth : Nat]]
    BY <1>1 DEF Types
  <2> QED BY <1>1, <2>1, <2>3, <2>4, <2>5, TypesAfterMove
<1>3. CASE chain[n] # job[1]
  BY <1>1, <1>3 DEF FinishMining, node, Types
<1> QED BY <1>2, <1>3

LEMMA TypesRestart ==
    ASSUME Types, NEW n \in Nodes, Restart(n)
    PROVE  Types'
<1>1. /\ saved[n].chain \in Seq(Blocks)
      /\ saved[n].depth \in Depth
      /\ saved[n].depth \in Nat
  BY DEF Types, Depth
<1>2. Finality(saved[n].chain, saved[n].depth) \in 0 .. Len(saved[n].chain)
  BY <1>1, FinalityRange
<1>3. SubSeq(saved[n].chain, 1, Finality(saved[n].chain, saved[n].depth)) \in Seq(Blocks)
  BY <1>1, <1>2, HeadOf
<1> HIDE DEF Finality
<1>4. chain' \in [Nodes -> Seq(Blocks)] /\ depth' \in [Nodes -> Depth]
  BY <1>1 DEF Restart, Types
<1>5. finalized' \in [Nodes -> Nat] /\ settled' \in [Nodes -> Seq(Blocks)]
  BY <1>2, <1>3 DEF Restart, Types
<1>6. \A m \in Nodes : finalized'[m] <= Len(chain'[m])
  BY <1>1, <1>2 DEF Restart, Types
<1>7. NoFetch \in [chain : Seq(Blocks), depth : Nat]
  BY DEF NoFetch
<1>8. /\ mining' \in [Nodes -> SUBSET (Seq(Blocks) \X Depth)]
      /\ fetched' \in [Nodes -> [chain : Seq(Blocks), depth : Nat]]
  BY <1>7 DEF Restart, Types
<1>9. /\ saved' = saved /\ signed' = signed /\ tuned' \subseteq Nodes
      /\ upsets' \in 0 .. MaxUpsets /\ crashes' \in 0 .. upsets'
  BY ForkChoiceAssumption DEF Restart, Types
<1> QED BY <1>4, <1>5, <1>6, <1>8, <1>9 DEF Types

LEMMA TypesNext == Types /\ [Next]_vars => Types'
<1> SUFFICES ASSUME Types, [Next]_vars PROVE Types'
  OBVIOUS
<1>1. ASSUME NEW n \in Nodes, StartMining(n) PROVE Types'
  <2>1. <<chain[n], depth[n]>> \in Seq(Blocks) \X Depth
    BY DEF Types
  <2>2. mining' \in [Nodes -> SUBSET (Seq(Blocks) \X Depth)]
    BY <1>1, <2>1 DEF StartMining, Types
  <2> QED BY <1>1, <2>2 DEF StartMining, node, Types
<1>2. ASSUME NEW n \in Nodes, NEW job \in mining[n], NEW work \in Works[n],
             FinishMining(n, job, work)
      PROVE  Types'
  BY <1>2, TypesFinish
<1>3. ASSUME NEW n \in Nodes, NEW c \in Sealed, ReceiveBlock(n, c) PROVE Types'
  <2>1. Moves(n, c, depth[n])
    BY <1>3, ReceiveMoves
  <2> QED BY <1>3, <2>1, TypesAfterMove DEF ReceiveBlock, Types
<1>4. ASSUME NEW n \in Nodes, NEW m \in Nodes, NEW d \in DepthsInHand(n), Download(n, m, d)
      PROVE  Types'
  <2>1. Moves(n, SubSeq(chain[m], 1, Len(chain[n]) + 1), d)
    BY <1>4, DepthInHand, DownloadMoves DEF Depth
  <2> QED BY <1>4, <2>1, TypesAfterMove DEF Download, Types
<1>5. ASSUME NEW n \in Nodes, NEW m \in Nodes, NEW d \in DepthsInHand(n), FetchChain(n, m, d)
      PROVE  Types'
  <2>1. [chain |-> chain[m], depth |-> d] \in [chain : Seq(Blocks), depth : Nat]
    BY DepthInHand DEF Types, Depth
  <2>2. fetched' \in [Nodes -> [chain : Seq(Blocks), depth : Nat]]
    BY <1>5, <2>1 DEF FetchChain, Types
  <2> QED BY <1>5, <2>2 DEF FetchChain, node, Types
<1>6. ASSUME NEW n \in Nodes, Adopt(n) PROVE Types'
  <2>1. NoFetch \in [chain : Seq(Blocks), depth : Nat]
    BY DEF NoFetch
  <2>2. fetched' \in [Nodes -> [chain : Seq(Blocks), depth : Nat]]
    BY <1>6, <2>1 DEF Adopt, Types
  <2>3. CASE Adoptable(n, fetched[n].chain)
    <3>1. Moves(n, fetched[n].chain, fetched[n].depth)
      BY <1>6, <2>3, AdoptMoves
    <3> QED BY <1>6, <2>2, <3>1, TypesAfterMove DEF Adopt, Types
  <2>4. CASE ~Adoptable(n, fetched[n].chain)
    BY <1>6, <2>2, <2>4 DEF Adopt, node, Types
  <2> QED BY <2>3, <2>4
<1>7. ASSUME NEW n \in Nodes, NEW d \in Depths, SetDepth(n, d) PROVE Types'
  <2>1. depth' \in [Nodes -> Depth]
    BY <1>7, ForkChoiceAssumption DEF SetDepth, Types, Depth
  <2>2. upsets' \in 0 .. MaxUpsets /\ crashes' \in 0 .. upsets'
    BY <1>7, ForkChoiceAssumption DEF SetDepth, Types
  <2> QED BY <1>7, <2>1, <2>2 DEF SetDepth, Types
<1>8. ASSUME NEW n \in Nodes, Persist(n) PROVE Types'
  <2>1. [chain |-> chain[n], depth |-> depth[n]] \in [chain : Seq(Blocks), depth : Depth]
    BY DEF Types
  <2>2. saved' \in [Nodes -> [chain : Seq(Blocks), depth : Depth]]
    BY <1>8, <2>1 DEF Persist, Types
  <2> QED BY <1>8, <2>2 DEF Persist, node, Types
<1>9. ASSUME NEW n \in Nodes, Restart(n) PROVE Types'
  BY <1>9, TypesRestart
<1>10. CASE UNCHANGED vars
  BY <1>10 DEF vars, node, Types
<1> QED
  BY <1>1, <1>2, <1>3, <1>4, <1>5, <1>6, <1>7, <1>8, <1>9, <1>10 DEF Next

LEMMA TypesAlways == Spec => []Types
BY TypesInit, TypesNext, PTL DEF Spec

LEMMA TypesGiveTypeOK == Types => TypeOK
<1> SUFFICES ASSUME Types PROVE TypeOK
  OBVIOUS
<1>1. \A n \in Nodes : finalized[n] \in 0 .. Len(chain[n])
  BY DEF Types
<1>2. \A n \in Nodes : \A job \in mining[n] : job[1] \in Seq(Blocks) /\ job[2] \in Nat \ {0}
  BY DEF Types, Depth
<1>3. /\ \A n \in Nodes : fetched[n].chain \in Seq(Blocks)
      /\ \A n \in Nodes : saved[n].chain \in Seq(Blocks)
  BY DEF Types
<1> QED BY <1>1, <1>2, <1>3 DEF Types, TypeOK, Depth

\* The finalized height points into the chain on every node, after a restart
\* from whatever snapshot the disk holds too.
THEOREM TypesHold == Spec => []TypeOK
BY TypesAlways, TypesGiveTypeOK, PTL

-----------------------------------------------------------------------------
(* The tip                                                                 *)

\* The steps that leave every chain alone.
LEMMA OtherSteps ==
    ASSUME NEW n \in Nodes,
           \/ StartMining(n)
           \/ \E m \in Nodes, d \in DepthsInHand(n) : FetchChain(n, m, d)
           \/ \E d \in Depths : SetDepth(n, d)
           \/ Persist(n)
    PROVE  UNCHANGED <<chain, finalized, signed, settled, crashes>>
BY DEF StartMining, FetchChain, SetDepth, Persist, node

\* Every step moves one chain, leaves all of them alone, or is a restart.
LEMMA TipStep == Types /\ [Next]_vars =>
                   (crashes' = crashes => \A m \in Nodes : Len(chain'[m]) >= Len(chain[m]))
<1> SUFFICES ASSUME Types, [Next]_vars, crashes' = crashes
             PROVE  \A m \in Nodes : Len(chain'[m]) >= Len(chain[m])
  OBVIOUS
<1>1. \A m \in Nodes : Len(chain[m]) \in Nat
  BY DEF Types
<1>2. CASE chain' = chain
  BY <1>1, <1>2
<1>3. ASSUME NEW n \in Nodes, NEW c, NEW d, Moves(n, c, d)
      PROVE  \A m \in Nodes : Len(chain'[m]) >= Len(chain[m])
  BY <1>3, MoveTypes
<1>4. ASSUME NEW n \in Nodes, NEW job \in mining[n], NEW work \in Works[n],
             FinishMining(n, job, work)
      PROVE  \A m \in Nodes : Len(chain'[m]) >= Len(chain[m])
  <2>1. CASE chain[n] = job[1]
    BY <1>3, <1>4, <2>1, FinishMoves
  <2>2. CASE chain[n] # job[1]
    BY <1>2, <1>4, <2>2 DEF FinishMining, node
  <2> QED BY <2>1, <2>2
<1>5. ASSUME NEW n \in Nodes, NEW c \in Sealed, ReceiveBlock(n, c)
      PROVE  \A m \in Nodes : Len(chain'[m]) >= Len(chain[m])
  BY <1>3, <1>5, ReceiveMoves
<1>6. ASSUME NEW n \in Nodes, NEW m \in Nodes, NEW d \in DepthsInHand(n), Download(n, m, d)
      PROVE  \A k \in Nodes : Len(chain'[k]) >= Len(chain[k])
  BY <1>3, <1>6, DepthInHand, DownloadMoves DEF Depth
<1>7. ASSUME NEW n \in Nodes, Adopt(n)
      PROVE  \A m \in Nodes : Len(chain'[m]) >= Len(chain[m])
  <2>1. CASE Adoptable(n, fetched[n].chain)
    BY <1>3, <1>7, <2>1, AdoptMoves
  <2>2. CASE ~Adoptable(n, fetched[n].chain)
    BY <1>2, <1>7, <2>2 DEF Adopt, node
  <2> QED BY <2>1, <2>2
<1>8. ASSUME NEW n \in Nodes, Restart(n) PROVE FALSE
  BY <1>8 DEF Restart, Types
<1>9. CASE UNCHANGED vars
  BY <1>2, <1>9 DEF vars, node
<1> QED
  BY <1>2, <1>4, <1>5, <1>6, <1>7, <1>8, <1>9, OtherSteps DEF Next

\* No fork that a running node meets makes its tip go down: neither an answer
\* compared with a chain that has grown since, nor a heavier fork.
THEOREM TipHolds == Spec => TipNeverRegresses
<1>1. Types /\ [Next]_vars =>
        [crashes' = crashes => \A n \in Nodes : Len(chain'[n]) >= Len(chain[n])]_vars
  BY TipStep
<1> QED BY <1>1, TypesAlways, PTL DEF Spec, TipNeverRegresses

-----------------------------------------------------------------------------
(* Signatures                                                              *)

\* As long as nobody crashed, what a validator signed is not above its own tip.
SignedBelowTip ==
    crashes = 0 => \A s \in signed : Len(s[2]) <= Len(chain[s[1]])

SignedOnce == SignedBelowTip /\ NoDoubleSigning

\* Tips that do not go down keep it; and a new signature is above the old tip.
LEMMA SignedNext == Types /\ SignedOnce /\ [Next]_vars => SignedOnce'
<1> SUFFICES ASSUME Types, SignedOnce, [Next]_vars, crashes' = 0
             PROVE  SignedOnce'
  BY DEF SignedOnce, SignedBelowTip, NoDoubleSigning
<1>1. crashes = 0 /\ crashes' = crashes
  <2>1. crashes' = crashes \/ crashes' = crashes + 1
    BY DEF Next, vars, node, StartMining, FinishMining, ReceiveBlock, Download, FetchChain,
           Adopt, SetDepth, Persist, Restart
  <2>2. crashes \in Nat
    BY DEF Types
  <2> QED BY <2>1, <2>2
<1>2. \A m \in Nodes : /\ Len(chain'[m]) >= Len(chain[m])
                       /\ Len(chain'[m]) \in Nat /\ Len(chain[m]) \in Nat
  <2>1. \A m \in Nodes : Len(chain'[m]) >= Len(chain[m])
    BY <1>1, TipStep
  <2>2. Types'
    BY TypesNext
  <2> QED BY <2>1, <2>2 DEF Types
<1>3. /\ \A s \in signed : s[1] \in Nodes /\ Len(s[2]) \in Nat /\ Len(s[2]) <= Len(chain[s[1]])
      /\ \A s, t \in signed : s[1] = t[1] /\ Len(s[2]) = Len(t[2]) => s = t
  BY <1>1 DEF SignedOnce, SignedBelowTip, NoDoubleSigning, Types
<1>4. CASE signed' = signed
  <2>1. SignedBelowTip'
    BY <1>2, <1>3, <1>4 DEF SignedBelowTip
  <2> QED BY <1>3, <1>4, <2>1 DEF SignedOnce, NoDoubleSigning
<1>5. ASSUME NEW n \in Nodes, NEW c, signed' = signed \cup {<<n, c>>},
             Len(c) = Len(chain[n]) + 1, chain'[n] = c
      PROVE  SignedOnce'
  <2>1. \A s \in signed : s[1] = n => Len(s[2]) < Len(c)
    BY <1>2, <1>3, <1>5
  <2>2. \A s \in signed' : Len(s[2]) <= Len(chain'[s[1]])
    BY <1>2, <1>3, <1>5
  <2>3. \A s, t \in signed' : s[1] = t[1] /\ Len(s[2]) = Len(t[2]) => s = t
    BY <1>2, <1>3, <1>5, <2>1
  <2> QED BY <2>2, <2>3 DEF SignedOnce, SignedBelowTip, NoDoubleSigning
<1>6. ASSUME NEW n \in Nodes, NEW job \in mining[n], NEW work \in Works[n],
             FinishMining(n, job, work)
      PROVE  SignedOnce'
  <2>1. CASE chain[n] = job[1]
    <3> DEFINE c == Append(chain[n], [by |-> n, work |-> work])
    <3>1. Moves(n, c, job[2]) /\ Len(c) = Len(chain[n]) + 1 /\ signed' = signed \cup {<<n, c>>}
      BY <1>6, <2>1, FinishMoves
    <3> HIDE DEF c
    <3>2. chain'[n] = c
      BY <3>1, MoveTypes
    <3> QED BY <1>5, <3>1, <3>2
  <2>2. CASE chain[n] # job[1]
    BY <1>4, <1>6, <2>2 DEF FinishMining
  <2> QED BY <2>1, <2>2
<1>7. \/ signed' = signed
      \/ \E n \in Nodes : \E job \in mining[n] : \E work \in Works[n] : FinishMining(n, job, work)
  BY DEF Next, vars, node, StartMining, ReceiveBlock, Download, FetchChain, Adopt, SetDepth,
         Persist, Restart
<1> QED BY <1>4, <1>6, <1>7

\* A validator that follows forks and mines in parallel, and does not crash,
\* signs one block of each height.
THEOREM NeverSignsTwice == Spec => []NoDoubleSigning
<1>1. Init => SignedOnce
  BY DEF Init, SignedOnce, SignedBelowTip, NoDoubleSigning
<1>2. SignedOnce => NoDoubleSigning
  BY DEF SignedOnce
<1> QED BY <1>1, <1>2, SignedNext, TypesAlways, PTL DEF Spec

-----------------------------------------------------------------------------
(* Finality                                                                *)

\* A node whose operator left the depth alone: its finalized height is the one
\* of its tip, the blocks up to it are those it ever reported as final, and the
\* depths its lock-free work still holds are the one it has.
CalmNode(n) ==
    /\ finalized[n] = Finality(chain[n], depth[n])
    /\ settled[n] = SubSeq(chain[n], 1, finalized[n])
    /\ \A job \in mining[n] : job[2] = depth[n]
    /\ fetched[n] # NoFetch => fetched[n].depth = depth[n]

Calm == \A n \in Nodes \ tuned : CalmNode(n)

\* FinalizedStays without the depths is not inductive: a block in work for
\* another depth would move the finalized height down.
LEMMA CalmStays == Types /\ Calm => FinalizedStays
<1> SUFFICES ASSUME Types, Calm, NEW n \in Nodes \ tuned
             PROVE  IsPrefix(settled[n], chain[n])
  BY DEF FinalizedStays
<1>1. chain[n] \in Seq(Blocks) /\ finalized[n] \in 0 .. Len(chain[n]) /\ settled[n] \in Seq(Blocks)
  BY DEF Types
<1>2. settled[n] = SubSeq(chain[n], 1, finalized[n])
  BY DEF Calm, CalmNode
<1>3. /\ Len(settled[n]) = finalized[n]
      /\ \A i \in 1 .. finalized[n] : settled[n][i] = chain[n][i]
  BY <1>1, <1>2, HeadOf
<1> QED BY <1>1, <1>3, PrefixAt

\* Finality of the depth the node has, on a chain that is not shorter and holds
\* its final blocks: nothing that was reported is replaced.
LEMMA CalmMove ==
    ASSUME Types, NEW n \in Nodes, CalmNode(n), NEW c, Moves(n, c, depth[n])
    PROVE  settled'[n] = SubSeq(chain'[n], 1, finalized'[n])
<1> DEFINE f == Finality(c, depth[n])
           g == finalized[n]
<1>1. chain[n] \in Seq(Blocks) /\ c \in Seq(Blocks) /\ depth[n] \in Nat
  BY DEF Types, Depth, Moves
<1>2. g \in 0 .. Len(chain[n]) /\ settled \in [Nodes -> Seq(Blocks)]
  BY DEF Types
<1>3. f \in 0 .. Len(c)
  BY <1>1, FinalityRange
<1>4. g <= f
  <2>1. g = Finality(chain[n], depth[n]) /\ Len(chain[n]) <= Len(c)
    BY DEF CalmNode, Moves
  <2> QED BY <1>1, <2>1 DEF Finality
<1>5. chain'[n] = c /\ finalized'[n] = f
  BY MoveTypes
<1>6. settled[n] = SubSeq(chain[n], 1, g)
  BY DEF CalmNode
<1>7. Len(settled[n]) = g /\ \A i \in 1 .. g : settled[n][i] = chain[n][i]
  BY <1>1, <1>2, <1>6, HeadOf
<1>8. settled' = IF f > Len(settled[n]) THEN [settled EXCEPT ![n] = SubSeq(c, 1, f)] ELSE settled
  BY DEF Moves, Replace
<1>9. IsPrefix(settled[n], c)
  BY <1>6 DEF Moves
<1> HIDE DEF f, g
<1>10. CASE f > g
  <2>1. settled' = [settled EXCEPT ![n] = SubSeq(c, 1, f)]
    BY <1>7, <1>8, <1>10
  <2>2. settled'[n] = SubSeq(c, 1, f)
    BY <1>2, <2>1
  <2> QED BY <1>5, <2>2
<1>11. CASE f = g
  <2>1. settled' = settled
    BY <1>2, <1>7, <1>8, <1>11
  <2>2. settled[n] \in Seq(Blocks)
    BY <1>2
  <2>3. \A i \in 1 .. g : settled[n][i] = c[i]
    BY <1>1, <1>7, <1>9, <2>2, PrefixAt
  <2>4. /\ SubSeq(c, 1, f) \in Seq(Blocks)
        /\ Len(SubSeq(c, 1, f)) = f
        /\ \A i \in 1 .. f : SubSeq(c, 1, f)[i] = c[i]
    BY <1>1, <1>3, HeadOf
  <2> DEFINE t == SubSeq(c, 1, f)
  <2>5. t \in Seq(Blocks) /\ Len(t) = f /\ \A i \in 1 .. f : t[i] = c[i]
    BY <2>4
  <2> HIDE DEF t
  <2>6. settled[n] = t
    BY <1>7, <1>11, <2>2, <2>3, <2>5
  <2> QED BY <1>5, <2>1, <2>6 DEF t
<1> QED BY <1>2, <1>3, <1>4, <1>10, <1>11 DEF f, g

\* The node that moves, with the depth it has, and uses up what it held.
LEMMA CalmMoves ==
    ASSUME Types, Calm, NEW n \in Nodes, NEW c, NEW d, Moves(n, c, d),
           n \notin tuned => d = depth[n],
           \A m \in Nodes : mining'[m] \subseteq mining[m],
           \A m \in Nodes : fetched'[m] = fetched[m] \/ fetched'[m] = NoFetch,
           tuned' = tuned
    PROVE  Calm'
<1>1. /\ chain'[n] = c /\ finalized'[n] = Finality(c, d) /\ depth' = depth
      /\ \A m \in Nodes \ {n} : /\ chain'[m] = chain[m]
                                /\ finalized'[m] = finalized[m]
                                /\ settled'[m] = settled[m]
  BY MoveTypes
<1> SUFFICES ASSUME NEW m \in Nodes \ tuned PROVE CalmNode(m)'
  BY DEF Calm
<1>2. CalmNode(m)
  BY DEF Calm
<1>3. /\ \A job \in mining'[m] : job[2] = depth'[m]
      /\ fetched'[m] # NoFetch => fetched'[m].depth = depth'[m]
  BY <1>1, <1>2 DEF CalmNode
<1>4. CASE m = n
  <2>1. settled'[n] = SubSeq(chain'[n], 1, finalized'[n])
    BY <1>2, <1>4, CalmMove
  <2>2. finalized'[m] = Finality(chain'[m], depth'[m])
    BY <1>1, <1>4
  <2> QED BY <1>3, <1>4, <2>1, <2>2 DEF CalmNode
<1>5. CASE m # n
  <2>1. /\ chain'[m] = chain[m] /\ finalized'[m] = finalized[m]
        /\ settled'[m] = settled[m] /\ depth'[m] = depth[m]
    BY <1>1, <1>5
  <2>2. finalized'[m] = Finality(chain'[m], depth'[m])
    BY <1>2, <2>1 DEF CalmNode
  <2>3. settled'[m] = SubSeq(chain'[m], 1, finalized'[m])
    BY <1>2, <2>1 DEF CalmNode
  <2> QED BY <1>3, <2>2, <2>3 DEF CalmNode
<1> QED BY <1>4, <1>5

LEMMA CalmInit == Init => Calm
<1> SUFFICES ASSUME Init, NEW n \in Nodes PROVE CalmNode(n)
  BY DEF Calm
<1>1. chain[n] = <<>> /\ settled[n] = <<>> /\ finalized[n] = 0
  BY DEF Init
<1>2. depth[n] \in Nat /\ mining[n] = {} /\ fetched[n] = NoFetch
  BY ForkChoiceAssumption DEF Init
<1>3. Finality(<<>>, depth[n]) = 0
  BY <1>2 DEF Finality
<1>4. SubSeq(<<>>, 1, 0) = <<>>
  OBVIOUS
<1> QED BY <1>1, <1>2, <1>3, <1>4 DEF CalmNode

LEMMA CalmNext == Types /\ Calm /\ [Next]_vars => Calm'
<1> SUFFICES ASSUME Types, Calm, [Next]_vars PROVE Calm'
  OBVIOUS
<1>1. \A m \in Nodes : /\ mining[m] \subseteq Seq(Blocks) \X Depth
                       /\ m \notin tuned => CalmNode(m)
  BY DEF Types, Calm
\* What leaves the chain and the depth of a node alone, and adds no other depth.
<1>2. ASSUME UNCHANGED node, settled' = settled, tuned' = tuned,
             \A m \in Nodes : \A job \in mining'[m] : job \in mining[m] \/ job[2] = depth[m],
             \A m \in Nodes : \/ fetched'[m] \in {fetched[m], NoFetch}
                              \/ fetched'[m].depth = depth[m]
      PROVE  Calm'
  <2> SUFFICES ASSUME NEW m \in Nodes \ tuned PROVE CalmNode(m)'
    BY <1>2 DEF Calm
  <2>1. CalmNode(m)
    BY <1>1
  <2>2. chain' = chain /\ finalized' = finalized /\ depth' = depth
    BY <1>2 DEF node
  <2>3. /\ finalized'[m] = Finality(chain'[m], depth'[m])
        /\ settled'[m] = SubSeq(chain'[m], 1, finalized'[m])
    BY <1>2, <2>1, <2>2 DEF CalmNode
  <2>4. /\ \A job \in mining'[m] : job[2] = depth'[m]
        /\ fetched'[m] # NoFetch => fetched'[m].depth = depth'[m]
    BY <1>2, <2>1, <2>2 DEF CalmNode
  <2> QED BY <2>3, <2>4 DEF CalmNode
<1>3. ASSUME NEW n \in Nodes, StartMining(n) PROVE Calm'
  BY <1>2, <1>3 DEF StartMining, Types
<1>4. ASSUME NEW n \in Nodes, NEW job \in mining[n], NEW work \in Works[n],
             FinishMining(n, job, work)
      PROVE  Calm'
  <2>1. /\ \A m \in Nodes : mining'[m] \subseteq mining[m]
        /\ fetched' = fetched /\ tuned' = tuned
    BY <1>4 DEF FinishMining, Types
  <2>2. n \notin tuned => job[2] = depth[n]
    BY <1>1 DEF CalmNode
  <2>3. CASE chain[n] = job[1]
    BY <1>4, <2>1, <2>2, <2>3, FinishMoves, CalmMoves
  <2>4. CASE chain[n] # job[1]
    BY <1>2, <1>4, <2>1, <2>4 DEF FinishMining
  <2> QED BY <2>3, <2>4
<1>5. ASSUME NEW n \in Nodes, NEW c \in Sealed, ReceiveBlock(n, c) PROVE Calm'
  <2>1. mining' = mining /\ fetched' = fetched /\ tuned' = tuned
    BY <1>5 DEF ReceiveBlock
  <2> QED BY <1>5, <2>1, ReceiveMoves, CalmMoves
<1>6. ASSUME NEW n \in Nodes, NEW m \in Nodes, NEW d \in DepthsInHand(n), Download(n, m, d)
      PROVE  Calm'
  <2>1. mining' = mining /\ fetched' = fetched /\ tuned' = tuned
    BY <1>6 DEF Download
  <2>2. d \in Nat /\ (n \notin tuned => d = depth[n])
    BY DepthInHand DEF Depth
  <2> QED BY <1>6, <2>1, <2>2, DownloadMoves, CalmMoves
<1>7. ASSUME NEW n \in Nodes, NEW m \in Nodes, NEW d \in DepthsInHand(n), FetchChain(n, m, d)
      PROVE  Calm'
  <2>1. UNCHANGED node /\ settled' = settled /\ tuned' = tuned /\ mining' = mining
    BY <1>7 DEF FetchChain
  <2> SUFFICES ASSUME NEW k \in Nodes \ tuned PROVE CalmNode(k)'
    BY <2>1 DEF Calm
  <2>2. CalmNode(k) /\ (k = n => d = depth[k])
    BY <1>1, DepthInHand
  <2>3. fetched'[k] = fetched[k] \/ (k = n /\ fetched'[k].depth = d)
    BY <1>7 DEF FetchChain, Types
  <2>4. fetched'[k] # NoFetch => fetched'[k].depth = depth[k]
    BY <2>2, <2>3 DEF CalmNode
  <2> QED BY <2>1, <2>2, <2>4 DEF CalmNode, node
<1>8. ASSUME NEW n \in Nodes, Adopt(n) PROVE Calm'
  <2>1. /\ \A m \in Nodes : fetched'[m] = fetched[m] \/ fetched'[m] = NoFetch
        /\ mining' = mining /\ tuned' = tuned
    BY <1>8 DEF Adopt, Types
  <2>2. n \notin tuned => fetched[n].depth = depth[n]
    BY <1>1, <1>8 DEF CalmNode, Adopt
  <2>3. CASE Adoptable(n, fetched[n].chain)
    <3>1. Moves(n, fetched[n].chain, fetched[n].depth)
      BY <1>8, <2>3, AdoptMoves
    <3> QED BY <2>1, <2>2, <3>1, CalmMoves
  <2>4. CASE ~Adoptable(n, fetched[n].chain)
    BY <1>2, <1>8, <2>1, <2>4 DEF Adopt
  <2> QED BY <2>3, <2>4
<1>9. ASSUME NEW n \in Nodes, NEW d \in Depths, SetDepth(n, d) PROVE Calm'
  <2> SUFFICES ASSUME NEW m \in Nodes \ tuned, m # n PROVE CalmNode(m)'
    BY <1>9 DEF Calm, SetDepth
  <2>1. CalmNode(m)
    BY <1>1
  <2>2. /\ chain' = chain /\ finalized' = finalized /\ settled' = settled
        /\ mining' = mining /\ fetched' = fetched /\ depth'[m] = depth[m]
    BY <1>9 DEF SetDepth, Types
  <2> QED BY <2>1, <2>2 DEF CalmNode
<1>10. ASSUME NEW n \in Nodes, Persist(n) PROVE Calm'
  BY <1>2, <1>10 DEF Persist
<1>11. ASSUME NEW n \in Nodes, Restart(n) PROVE Calm'
  <2> SUFFICES ASSUME NEW m \in Nodes \ tuned' PROVE CalmNode(m)'
    BY DEF Calm
  <2>1. CASE m = n
    <3>1. /\ chain'[m] = saved[m].chain /\ depth'[m] = saved[m].depth
          /\ finalized'[m] = Finality(saved[m].chain, saved[m].depth)
          /\ settled'[m] = SubSeq(saved[m].chain, 1, Finality(saved[m].chain, saved[m].depth))
          /\ mining'[m] = {} /\ fetched'[m] = NoFetch
      BY <1>11, <2>1 DEF Restart, Types
    <3> QED BY <3>1 DEF CalmNode
  <2>2. CASE m # n
    <3>1. CalmNode(m)
      BY <1>1, <1>11, <2>2 DEF Restart
    <3>2. /\ chain'[m] = chain[m] /\ depth'[m] = depth[m] /\ finalized'[m] = finalized[m]
          /\ settled'[m] = settled[m] /\ mining'[m] = mining[m] /\ fetched'[m] = fetched[m]
      BY <1>11, <2>2 DEF Restart, Types
    <3> QED BY <3>1, <3>2 DEF CalmNode
  <2> QED BY <2>1, <2>2
<1>12. CASE UNCHANGED vars
  BY <1>2, <1>12 DEF vars
<1> QED
  BY <1>3, <1>4, <1>5, <1>6, <1>7, <1>8, <1>9, <1>10, <1>11, <1>12 DEF Next

\* Finalized blocks are irreversible on every node whose operator leaves the
\* finality depth alone, whatever forks it meets, whatever it restarted from and
\* whatever the operators of the other nodes do.
THEOREM FinalityHolds == Spec => []FinalizedStays
BY CalmInit, CalmNext, CalmStays, TypesAlways, PTL DEF Spec

=============================================================================
