------------------------- MODULE CheckpointsProofs --------------------------
(***************************************************************************)
(* Proofs about the difficulty and the beacon that nodes derive from their *)
(* blocks, for every set of nodes, every interval, bound and target, and   *)
(* chains and forks of any length.                                         *)
(*                                                                         *)
(* A history is the list of the gaps of a chain: whatever a node holds is  *)
(* determined by the history of its tip and the height its chain starts    *)
(* at.  Full(h) is the whole chain of a history, Cut(h, base) the part of  *)
(* it that a node holds which started from the checkpoint at base.         *)
(***************************************************************************)
EXTENDS Checkpoints, DataTheorems, TLAPS

Histories == Seq(Gaps)

\* What is sealed on top of a chain.
NextBlock(c, gap) ==
    [gap |-> gap, difficulty |-> c.current, slot |-> c.beacon, parent |-> LatestHash(c)]

Fresh == [base |-> 0, blocks |-> <<GenesisBlock>>, root |-> GenesisRoot,
          current |-> GenesisDifficulty, beacon |-> GenesisRoot.beacon, finalized |-> 0]

Grown == [gap \in Gaps |-> [c \in Chains |-> Commit(c, NextBlock(c, gap))]]
Full(h) == Folded(Grown, Fresh, h)

RootAt(b) == [difficulty |-> b.difficulty, beacon |-> Hash(b)]
Cut(h, base, finalized) ==
    [base |-> base,
     blocks |-> SubSeq(Full(h).blocks, base + 1, Len(h) + 1),
     root |-> RootAt(Full(h).blocks[base + 1]),
     current |-> Full(h).current, beacon |-> Full(h).beacon, finalized |-> finalized]

\* Every node is at some history, and every block that was sealed was sealed on one.
HoldsCut(c) ==
    \E h \in Histories : \E base \in 0 .. Len(h) : \E finalized \in base .. Len(h) :
        /\ OnBoundary(base)
        /\ Len(h) - FinalityDepth <= finalized
        /\ c = Cut(h, base, finalized)
NodesOK ==
    /\ DOMAIN node = Nodes
    /\ \A n \in Nodes : Running(n) => HoldsCut(node[n])
HeldOK == \A n \in Nodes : Running(n) => Range(node[n].blocks) \subseteq sealed \cup {GenesisBlock}
SealedOK == \A b \in sealed : \E h \in Histories, gap \in Gaps : b = NextBlock(Full(h), gap)

CheckpointsInv == NodesOK /\ HeldOK /\ SealedOK

-----------------------------------------------------------------------------
(* Difficulty                                                              *)

LEMMA MaxIs ==
    ASSUME NEW S \in SUBSET Int, NEW x \in S, \A y \in S : x >= y
    PROVE  Max(S) = x
<1>1. \E z \in S : \A y \in S : z >= y
  OBVIOUS
<1>2. Max(S) \in S /\ \A y \in S : Max(S) >= y
  BY <1>1 DEF Max
<1>3. Max(S) \in Int /\ x \in Int
  BY <1>2
<1> QED BY <1>2, <1>3

LEMMA MinIs ==
    ASSUME NEW S \in SUBSET Int, NEW x \in S, \A y \in S : x <= y
    PROVE  Min(S) = x
<1>1. \E z \in S : \A y \in S : z <= y
  OBVIOUS
<1>2. Min(S) \in S /\ \A y \in S : Min(S) <= y
  BY <1>1 DEF Min
<1>3. Min(S) \in Int /\ x \in Int
  BY <1>2
<1> QED BY <1>2, <1>3

\* A retarget stays between the bounds, whatever the window holds.
LEMMA RetargetRange ==
    ASSUME NEW blocks, NEW base, NEW current \in MIN_DIFFICULTY .. MAX_DIFFICULTY
    PROVE  Retarget(blocks, base, current) \in MIN_DIFFICULTY .. MAX_DIFFICULTY
<1>1. MIN_DIFFICULTY \in Nat /\ MAX_DIFFICULTY \in Nat /\ current \in Nat
  BY CheckpointsAssumption
<1>2. Min({current + 1, MAX_DIFFICULTY}) \in MIN_DIFFICULTY .. MAX_DIFFICULTY
  <2>1. CASE current + 1 <= MAX_DIFFICULTY
    <3>1. Min({current + 1, MAX_DIFFICULTY}) = current + 1
      BY <1>1, <2>1, MinIs
    <3> QED BY <1>1, <2>1, <3>1
  <2>2. CASE current = MAX_DIFFICULTY
    <3>1. Min({current + 1, MAX_DIFFICULTY}) = MAX_DIFFICULTY
      BY <1>1, <2>2, MinIs
    <3> QED BY <1>1, <2>2, <3>1
  <2> QED BY <1>1, <2>1, <2>2
<1>3. Max({current - 1, MIN_DIFFICULTY}) \in MIN_DIFFICULTY .. MAX_DIFFICULTY
  <2>1. CASE current - 1 >= MIN_DIFFICULTY
    <3>1. Max({current - 1, MIN_DIFFICULTY}) = current - 1
      <4>1. {current - 1, MIN_DIFFICULTY} \in SUBSET Int
        BY <1>1
      <4>2. \A y \in {current - 1, MIN_DIFFICULTY} : current - 1 >= y
        BY <1>1, <2>1
      <4> QED BY <4>1, <4>2, MaxIs
    <3> QED BY <1>1, <2>1, <3>1
  <2>2. CASE current = MIN_DIFFICULTY
    <3>1. Max({current - 1, MIN_DIFFICULTY}) = MIN_DIFFICULTY
      BY <1>1, <2>2, MaxIs
    <3> QED BY <1>1, <2>2, <3>1
  <2> QED BY <1>1, <2>1, <2>2
<1>4. ASSUME NEW window PROVE Adjusted(current, window) \in MIN_DIFFICULTY .. MAX_DIFFICULTY
  BY <1>2, <1>3 DEF Adjusted
<1> QED BY <1>4 DEF Retarget

\* A window of one block tells nothing.
LEMMA AdjustedAlone ==
    ASSUME NEW T, NEW window \in Seq(T), Len(window) < 2, NEW current
    PROVE  Adjusted(current, window) = current
BY DEF Adjusted

\* What leaves no remainder is a multiple.
LEMMA MultipleOf ==
    ASSUME NEW d \in Nat \ {0}, NEW x \in Nat, x % d = 0
    PROVE  \E q \in Int : x = d * q
<1> DEFINE q == x \div d
           r == x % d
<1>1. q \in Int /\ r \in Nat /\ x = d * q + r /\ r < d
  OBVIOUS
<1>2. r = 0
  OBVIOUS
<1> HIDE DEF q, r
<1>3. d * q \in Int
  BY <1>1
<1>4. x = d * q
  BY <1>1, <1>2, <1>3
<1> QED BY <1>1, <1>4

\* Between two boundaries there is a whole interval.
LEMMA BoundariesApart ==
    ASSUME NEW k \in Nat, NEW m \in Nat, OnBoundary(k), OnBoundary(m), k < m
    PROVE  m - k >= RETARGET_INTERVAL
<1> DEFINE R == RETARGET_INTERVAL
<1>1. R \in Nat \ {0}
  BY CheckpointsAssumption
<1>2. ASSUME NEW x \in Nat, x % R = 0 PROVE \E q \in Int : x = R * q
  <2> HIDE DEF R
  <2> QED BY <1>1, <1>2, MultipleOf
<1>3. PICK p \in Int : k = R * p
  BY <1>2 DEF OnBoundary
<1>4. PICK q \in Int : m = R * q
  BY <1>2 DEF OnBoundary
<1> HIDE DEF R
<1>5. p < q
  <2>1. ASSUME q <= p PROVE FALSE
    <3>1. R * q <= R * p
      BY <1>1, <2>1
    <3> QED BY <1>3, <1>4, <3>1
  <2> QED BY <2>1
<1>6. R * (q - p) >= R
  <2>1. q - p \in Nat /\ q - p >= 1
    BY <1>5
  <2> QED BY <1>1, <2>1
<1>7. R * (q - p) = R * q - R * p
  BY <1>1
<1> QED BY <1>3, <1>4, <1>6, <1>7 DEF R

\* The first height of an interval: after the first boundary it is the window's too.
LEMMA WindowIs ==
    ASSUME NEW length \in Nat, NEW base \in Nat, OnBoundary(base),
           OnBoundary(base + length), length > 0
    PROVE  /\ base > 0 => WindowStart(length, base) = length - RETARGET_INTERVAL + 1
           /\ length > RETARGET_INTERVAL => WindowStart(length, base) = length - RETARGET_INTERVAL + 1
<1>1. RETARGET_INTERVAL \in Nat \ {0}
  BY CheckpointsAssumption
<1>2. base + length \in Nat /\ (base + length) - base = length
  OBVIOUS
<1>3. length >= RETARGET_INTERVAL
  BY <1>2, BoundariesApart
<1> DEFINE S == {length - RETARGET_INTERVAL, 0, IF base = 0 THEN 1 ELSE 0}
<1>4. S \in SUBSET Int /\ length - RETARGET_INTERVAL \in S
  BY <1>1
<1>5. ASSUME base > 0 \/ length > RETARGET_INTERVAL
      PROVE  Max(S) = length - RETARGET_INTERVAL
  <2>1. \A y \in S : length - RETARGET_INTERVAL >= y
    BY <1>1, <1>3, <1>5
  <2> HIDE DEF S
  <2> QED BY <1>4, <2>1, MaxIs
<1> QED BY <1>5 DEF WindowStart

LEMMA SameList ==
    ASSUME NEW T, NEW a \in Seq(T), NEW b \in Seq(T), Len(a) = Len(b),
           \A i \in 1 .. Len(a) : a[i] = b[i]
    PROVE  a = b
OBVIOUS

\* A pruned node sees the same window as a full one: it retargets as the network does.
LEMMA RetargetCut ==
    ASSUME NEW T, NEW blocks \in Seq(T), NEW base \in 0 .. Len(blocks) - 1, OnBoundary(base),
           NEW current
    PROVE  Retarget(SubSeq(blocks, base + 1, Len(blocks)), base, current) =
               Retarget(blocks, 0, current)
<1> DEFINE m == Len(blocks)
           held == SubSeq(blocks, base + 1, m)
           R == RETARGET_INTERVAL
<1>1. held \in Seq(T) /\ Len(held) = m - base /\ m \in Nat /\ base \in Nat /\ base < m
  OBVIOUS
<1>2. \A i \in 1 .. m - base : held[i] = blocks[base + i]
  OBVIOUS
<1>3. base + Len(held) = m /\ 0 + Len(blocks) = m
  BY <1>1
<1>4. CASE base = 0
  <2>1. held = blocks
    BY <1>1, <1>4
  <2> QED BY <1>4, <2>1
<1>5. CASE m % R # 0
  BY <1>3, <1>5 DEF Retarget
<1>6. CASE base > 0 /\ m % R = 0
  <2>1. R \in Nat \ {0} /\ OnBoundary(m) /\ m - base >= R
    BY <1>1, <1>6, BoundariesApart, CheckpointsAssumption DEF OnBoundary
  <2>2. WindowStart(Len(held), base) = (m - base) - R + 1
    BY <1>1, <1>3, <1>6, <2>1, WindowIs
  <2>3. WindowStart(Len(blocks), 0) = m - R + 1
    <3>1. OnBoundary(0)
      BY <2>1 DEF OnBoundary
    <3>2. m > R /\ m > 0 /\ 0 + m = m
      BY <1>1, <1>6, <2>1
    <3> QED BY <1>1, <2>1, <3>1, <3>2, WindowIs
  <2>4. SubSeq(held, (m - base) - R + 1, m - base) = SubSeq(blocks, m - R + 1, m)
    <3> HIDE DEF held, m, R
    <3>1. ASSUME NEW i \in 1 .. R
          PROVE  SubSeq(held, (m - base) - R + 1, m - base)[i] = SubSeq(blocks, m - R + 1, m)[i]
      <4>1. SubSeq(held, (m - base) - R + 1, m - base)[i] = held[(m - base) - R + i]
        <5>1. ASSUME NEW a \in Nat \ {0}, NEW z \in 0 .. m - base
              PROVE  \A j \in 1 .. z - a + 1 : SubSeq(held, a, z)[j] = held[a + j - 1]
          BY <1>1
        <5>2. (m - base) - R + 1 \in Nat \ {0} /\ m - base \in 0 .. m - base
          BY <1>1, <2>1
        <5>3. i \in 1 .. (m - base) - ((m - base) - R + 1) + 1
              /\ ((m - base) - R + 1) + i - 1 = (m - base) - R + i
          BY <1>1, <2>1
        <5> QED BY <5>1, <5>2, <5>3
      <4>2. SubSeq(blocks, m - R + 1, m)[i] = blocks[m - R + i]
        <5>1. ASSUME NEW a \in Nat \ {0}, NEW z \in 0 .. m
              PROVE  \A j \in 1 .. z - a + 1 : SubSeq(blocks, a, z)[j] = blocks[a + j - 1]
          BY <1>1 DEF m
        <5>2. m - R + 1 \in Nat \ {0} /\ m \in 0 .. m
          BY <1>1, <2>1
        <5>3. i \in 1 .. m - (m - R + 1) + 1 /\ (m - R + 1) + i - 1 = m - R + i
          BY <1>1, <2>1
        <5> QED BY <5>1, <5>2, <5>3
      <4>3. (m - base) - R + i \in 1 .. m - base /\ base + ((m - base) - R + i) = m - R + i
        BY <1>1, <2>1
      <4> QED BY <1>2, <4>1, <4>2, <4>3
    <3>2. /\ SubSeq(held, (m - base) - R + 1, m - base) \in Seq(T)
          /\ Len(SubSeq(held, (m - base) - R + 1, m - base)) = R
      BY <1>1, <2>1
    <3>3. SubSeq(blocks, m - R + 1, m) \in Seq(T) /\ Len(SubSeq(blocks, m - R + 1, m)) = R
      BY <1>1, <2>1 DEF m
    <3> QED BY <3>1, <3>2, <3>3, SameList
  <2>5. Retarget(held, base, current) =
            Adjusted(current, SubSeq(held, (m - base) - R + 1, m - base))
    <3> HIDE DEF held, m
    <3> QED BY <1>1, <1>3, <1>6, <2>2 DEF Retarget
  <2>6. Retarget(blocks, 0, current) = Adjusted(current, SubSeq(blocks, m - R + 1, m))
    BY <1>3, <1>6, <2>3 DEF Retarget
  <2>7. Retarget(held, base, current) = Retarget(blocks, 0, current)
    BY <2>4, <2>5, <2>6
  <2> QED BY <2>7
<1> HIDE DEF held, m, R
<1>7. m % R = 0 \/ m % R # 0
  OBVIOUS
<1>8. base = 0 \/ base > 0
  BY <1>1
<1> QED BY <1>4, <1>5, <1>6, <1>7, <1>8 DEF held, m

-----------------------------------------------------------------------------
(* The chain of a history                                                  *)

\* What is known of the whole chain of a history.
FullOK(h) ==
    /\ Full(h) \in Chains
    /\ Full(h).base = 0 /\ Full(h).root = GenesisRoot
    /\ Len(Full(h).blocks) = Len(h) + 1
    /\ LatestHash(Full(h)) = << 0 >> \o h
    /\ Full(h).beacon = << 0 >> \o h
    /\ Full(h).current \in MIN_DIFFICULTY .. MAX_DIFFICULTY

LEMMA GapsAreNats == Gaps \subseteq Nat /\ << 0 >> \in Seq(Nat) /\ Histories \subseteq Seq(Nat)
<1>1. Gaps \subseteq Nat
  BY CheckpointsAssumption
<1>2. ASSUME NEW S, NEW T, S \subseteq T PROVE Seq(S) \subseteq Seq(T)
  BY <1>2
<1>3. Seq(Gaps) \subseteq Seq(Nat)
  BY <1>1, <1>2
<1>4. ASSUME NEW T, NEW x \in T PROVE <<x>> \in Seq(T)
  OBVIOUS
<1>5. << 0 >> \in Seq(Nat)
  BY <1>4
<1> QED BY <1>1, <1>3, <1>5 DEF Histories

LEMMA DifficultiesAreNats ==
    ASSUME NEW d \in MIN_DIFFICULTY .. MAX_DIFFICULTY
    PROVE  d \in Nat
BY CheckpointsAssumption

LEMMA NextBlockType ==
    ASSUME NEW c \in Chains, NEW gap \in Gaps, c.blocks # <<>>
    PROVE  /\ NextBlock(c, gap) \in Blocks
           /\ NextBlock(c, gap).gap = gap /\ NextBlock(c, gap).parent = LatestHash(c)
           /\ NextBlock(c, gap).difficulty = c.current /\ NextBlock(c, gap).slot = c.beacon
           /\ Hash(NextBlock(c, gap)) = Append(LatestHash(c), gap)
<1>1. /\ c.blocks \in Seq(Blocks) /\ c.current \in Nat /\ c.beacon \in Seq(Nat) /\ gap \in Nat
  BY GapsAreNats DEF Chains
<1>2. Last(c.blocks) \in Blocks
  BY <1>1 DEF Last
<1>3. LatestHash(c) \in Seq(Nat)
  BY <1>1, <1>2 DEF LatestHash, Hash, Blocks
<1> QED BY <1>1, <1>3 DEF NextBlock, Blocks, Hash

\* Appending one block.
LEMMA CommitType ==
    ASSUME NEW c \in Chains, NEW b \in Blocks, c.current \in MIN_DIFFICULTY .. MAX_DIFFICULTY
    PROVE  /\ Commit(c, b) \in Chains
           /\ Commit(c, b).base = c.base /\ Commit(c, b).root = c.root
           /\ Commit(c, b).finalized = c.finalized
           /\ Commit(c, b).blocks = Append(c.blocks, b)
           /\ Last(Commit(c, b).blocks) = b
           /\ Commit(c, b).beacon = Append(c.beacon, b.gap)
           /\ Commit(c, b).current = Retarget(Append(c.blocks, b), c.base, c.current)
           /\ Commit(c, b).current \in MIN_DIFFICULTY .. MAX_DIFFICULTY
<1>1. c.blocks \in Seq(Blocks) /\ b.gap \in Nat /\ c.beacon \in Seq(Nat)
  BY DEF Chains, Blocks
<1>2. Append(c.blocks, b) \in Seq(Blocks) /\ Append(c.beacon, b.gap) \in Seq(Nat)
  BY <1>1
<1>3. Retarget(Append(c.blocks, b), c.base, c.current) \in MIN_DIFFICULTY .. MAX_DIFFICULTY
  BY RetargetRange
<1>4. Retarget(Append(c.blocks, b), c.base, c.current) \in Nat
  BY <1>3, DifficultiesAreNats
<1>5. Commit(c, b) = [c EXCEPT !.blocks = Append(c.blocks, b),
                               !.beacon = Append(c.beacon, b.gap),
                               !.current = Retarget(Append(c.blocks, b), c.base, c.current)]
  BY DEF Commit, Chains
<1>6. Last(Append(c.blocks, b)) = b
  BY <1>1 DEF Last
<1> QED BY <1>2, <1>3, <1>4, <1>5, <1>6 DEF Chains

LEMMA FreshOK == Full(<<>>) = Fresh /\ FullOK(<<>>)
<1>1. Full(<<>>) = Fresh
  BY FoldedNothing DEF Full
<1>2. GenesisDifficulty \in Nat /\ GenesisDifficulty \in MIN_DIFFICULTY .. MAX_DIFFICULTY
  BY CheckpointsAssumption
<1>3. GenesisBlock \in Blocks /\ Hash(GenesisBlock) = << 0 >>
  BY <1>2 DEF GenesisBlock, Blocks, Hash
<1>4. Fresh \in Chains
  BY <1>2, <1>3 DEF Fresh, Chains, GenesisRoot
<1>5. Last(<<GenesisBlock>>) = GenesisBlock
  BY <1>3 DEF Last
<1>6. LatestHash(Fresh) = << 0 >>
  BY <1>3, <1>5 DEF Fresh, LatestHash
<1>7. << 0 >> \o <<>> = << 0 >>
  BY GapsAreNats
<1> QED BY <1>1, <1>2, <1>3, <1>4, <1>6, <1>7 DEF FullOK, Fresh, GenesisRoot

\* One gap more: the block that is sealed on the chain joins it.
LEMMA FullGrows ==
    ASSUME NEW h \in Histories, NEW gap \in Gaps, FullOK(h)
    PROVE  /\ NextBlock(Full(h), gap) \in Blocks
           /\ Full(Append(h, gap)) = Commit(Full(h), NextBlock(Full(h), gap))
           /\ FullOK(Append(h, gap))
<1> DEFINE c == Full(h)
           b == NextBlock(c, gap)
           more == Append(h, gap)
<1>1. c \in Chains /\ c.blocks # <<>> /\ c.current \in MIN_DIFFICULTY .. MAX_DIFFICULTY
  <2>1. Len(h) \in Nat /\ Len(c.blocks) = Len(h) + 1
    BY DEF FullOK, Histories
  <2> QED BY <2>1 DEF FullOK
<1>2. Full(more) = Commit(c, b)
  <2>1. Full(more) = Grown[gap][c]
    BY FoldedAppend DEF Full, Histories
  <2> QED BY <1>1, <2>1 DEF Grown
<1> HIDE DEF c
<1>3. b \in Blocks /\ b.gap = gap /\ Hash(b) = Append(LatestHash(c), gap)
  BY <1>1, NextBlockType
<1> HIDE DEF b
<1>4. /\ Commit(c, b) \in Chains /\ Commit(c, b).base = c.base /\ Commit(c, b).root = c.root
      /\ Commit(c, b).blocks = Append(c.blocks, b) /\ Last(Commit(c, b).blocks) = b
      /\ Commit(c, b).beacon = Append(c.beacon, b.gap)
      /\ Commit(c, b).current \in MIN_DIFFICULTY .. MAX_DIFFICULTY
  BY <1>1, <1>3, CommitType
<1>5. Append(<< 0 >> \o h, gap) = << 0 >> \o more
  BY GapsAreNats DEF Histories
<1>6. Len(Append(c.blocks, b)) = Len(more) + 1
  <2>1. c.blocks \in Seq(Blocks) /\ Len(c.blocks) = Len(h) + 1 /\ h \in Seq(Gaps)
    BY <1>1 DEF FullOK, Chains, c, Histories
  <2> QED BY <1>3, <2>1
<1>7. LatestHash(Commit(c, b)) = Append(LatestHash(c), gap)
  BY <1>3, <1>4 DEF LatestHash
<1>8. c.base = 0 /\ c.root = GenesisRoot /\ LatestHash(c) = << 0 >> \o h /\ c.beacon = << 0 >> \o h
  BY DEF FullOK, c
<1>9. FullOK(more)
  BY <1>2, <1>3, <1>4, <1>5, <1>6, <1>7, <1>8 DEF FullOK
<1> QED BY <1>2, <1>3, <1>9 DEF c, b

LEMMA FullShape ==
    ASSUME NEW h \in Histories
    PROVE  FullOK(h)
<1> DEFINE Good == {q \in Histories : FullOK(q)}
<1>1. <<>> \in Good
  BY FreshOK DEF Histories
<1>2. ASSUME NEW q \in Histories, NEW gap \in Gaps, q \in Good PROVE Append(q, gap) \in Good
  <2>1. Append(q, gap) \in Histories
    BY DEF Histories
  <2> QED BY <1>2, <2>1, FullGrows
<1> HIDE DEF Good
<1>3. Seq(Gaps) \subseteq Good
  BY <1>1, <1>2, SeqInduction DEF Histories
<1> QED BY <1>3 DEF Histories, Good

\* The chain of a shorter history is the beginning of the chain of a longer one.
LEMMA FullPrefix ==
    ASSUME NEW h \in Histories, NEW k \in 0 .. Len(h)
    PROVE  /\ SubSeq(h, 1, k) \in Histories /\ Len(SubSeq(h, 1, k)) = k
           /\ Full(SubSeq(h, 1, k)).blocks = SubSeq(Full(h).blocks, 1, k + 1)
<1> DEFINE Same(q, i) == Full(SubSeq(q, 1, i)).blocks = SubSeq(Full(q).blocks, 1, i + 1)
           Good == {q \in Histories : \A i \in 0 .. Len(q) : Same(q, i)}
<1>1. <<>> \in Good
  <2>1. Len(<<>>) = 0 /\ SubSeq(<<>>, 1, 0) = <<>> /\ <<>> \in Histories
    BY DEF Histories
  <2>2. SubSeq(<<GenesisBlock>>, 1, 1) = <<GenesisBlock>>
    <3>1. ASSUME NEW T, NEW seq \in Seq(T), Len(seq) = 1 PROVE SubSeq(seq, 1, 1) = seq
      BY <3>1
    <3>2. <<GenesisBlock>> \in Seq({GenesisBlock}) /\ Len(<<GenesisBlock>>) = 1
      OBVIOUS
    <3> QED BY <3>1, <3>2
  <2>3. Full(<<>>).blocks = <<GenesisBlock>>
    BY FreshOK DEF Fresh
  <2>4. \A i \in 0 .. 0 : i = 0 /\ i + 1 = 1
    OBVIOUS
  <2> QED BY <2>1, <2>2, <2>3, <2>4
<1>2. ASSUME NEW q \in Histories, NEW gap \in Gaps, q \in Good PROVE Append(q, gap) \in Good
  <2> DEFINE b == NextBlock(Full(q), gap)
             more == Append(q, gap)
             blocks == Full(q).blocks
  <2>1. /\ more \in Histories /\ q \in Seq(Gaps) /\ Len(more) = Len(q) + 1
        /\ blocks \in Seq(Blocks) /\ Len(blocks) = Len(q) + 1
    BY FullShape DEF Histories, FullOK, Chains
  <2>2. b \in Blocks /\ Full(more).blocks = Append(blocks, b)
    <3>1. FullOK(q)
      BY FullShape
    <3>2. b \in Blocks /\ Full(more) = Commit(Full(q), b)
      BY <3>1, FullGrows
    <3> QED BY <3>1, <3>2, CommitType DEF FullOK
  <2>3. ASSUME NEW i \in 0 .. Len(more) PROVE Same(more, i)
    <3>1. CASE i <= Len(q)
      <4>1. i \in 0 .. Len(q) /\ i + 1 \in 1 .. Len(blocks)
        BY <2>1, <3>1
      <4>2. SubSeq(more, 1, i) = SubSeq(q, 1, i)
        BY <2>1, <4>1
      <4>3. SubSeq(Append(blocks, b), 1, i + 1) = SubSeq(blocks, 1, i + 1)
        <5> HIDE DEF blocks, b
        <5> QED BY <2>1, <2>2, <4>1
      <4>4. Same(q, i)
        BY <1>2, <4>1
      <4> QED BY <2>2, <4>2, <4>3, <4>4
    <3>2. CASE i = Len(q) + 1
      <4>1. SubSeq(more, 1, i) = more
        BY <2>1, <3>2
      <4>2. SubSeq(Append(blocks, b), 1, i + 1) = Append(blocks, b)
        <5> HIDE DEF blocks, b
        <5> QED BY <2>1, <2>2, <3>2
      <4> QED BY <2>2, <4>1, <4>2
    <3> QED BY <2>1, <3>1, <3>2
  <2> HIDE DEF Same
  <2> QED BY <2>1, <2>3
<1>3. Seq(Gaps) \subseteq Good
  <2> HIDE DEF Good
  <2> QED BY <1>1, <1>2, SeqInduction DEF Histories
<1>4. Same(h, k)
  BY <1>3 DEF Histories
<1>5. SubSeq(h, 1, k) \in Histories /\ Len(SubSeq(h, 1, k)) = k
  BY DEF Histories
<1> QED BY <1>4, <1>5

\* The last block of the chain of a history, and the one at a height of it.
LEMMA BlockAt ==
    ASSUME NEW h \in Histories, NEW k \in 0 .. Len(h)
    PROVE  /\ Full(h).blocks[k + 1] \in Blocks
           /\ Full(h).blocks[k + 1] = Last(Full(SubSeq(h, 1, k)).blocks)
<1>1. /\ Full(h).blocks \in Seq(Blocks) /\ Len(Full(h).blocks) = Len(h) + 1 /\ Len(h) \in Nat
      /\ k + 1 \in 1 .. Len(Full(h).blocks)
  BY FullShape DEF FullOK, Chains, Histories
<1>2. Full(SubSeq(h, 1, k)).blocks = SubSeq(Full(h).blocks, 1, k + 1)
  BY FullPrefix
<1>3. ASSUME NEW blocks \in Seq(Blocks), NEW i \in 1 .. Len(blocks)
      PROVE  Last(SubSeq(blocks, 1, i)) = blocks[i] /\ blocks[i] \in Blocks
  BY DEF Last
<1> QED BY <1>1, <1>2, <1>3

\* At a boundary the difficulty is that of the last block: what a checkpoint names.
LEMMA AnchorDifficulty ==
    ASSUME NEW h \in Histories, OnBoundary(Len(h))
    PROVE  Full(h).current = Last(Full(h).blocks).difficulty
<1> DEFINE Good == {q \in Histories :
                      OnBoundary(Len(q)) => Full(q).current = Last(Full(q).blocks).difficulty}
<1>1. <<>> \in Good
  <2>1. Full(<<>>).current = GenesisDifficulty /\ Full(<<>>).blocks = <<GenesisBlock>>
    BY FreshOK DEF Fresh
  <2>2. Last(<<GenesisBlock>>) = GenesisBlock
    <3>1. <<GenesisBlock>>[Len(<<GenesisBlock>>)] = GenesisBlock
      OBVIOUS
    <3> QED BY <3>1 DEF Last
  <2>3. <<>> \in Histories /\ GenesisBlock.difficulty = GenesisDifficulty
    BY DEF Histories, GenesisBlock
  <2> QED BY <2>1, <2>2, <2>3
<1>2. ASSUME NEW q \in Histories, NEW gap \in Gaps, OnBoundary(Len(Append(q, gap)))
      PROVE  Full(Append(q, gap)).current = Last(Full(Append(q, gap)).blocks).difficulty
  <2> DEFINE c == Full(q)
             b == NextBlock(c, gap)
             m == Len(q) + 1
  <2>1. FullOK(q)
    BY FullShape
  <2>2. b \in Blocks /\ Full(Append(q, gap)) = Commit(c, b)
    BY <2>1, FullGrows
  <2>3. /\ Last(Commit(c, b).blocks) = b
        /\ Commit(c, b).current = Retarget(Append(c.blocks, b), 0, c.current)
    BY <2>1, <2>2, CommitType DEF FullOK
  <2>4. b.difficulty = c.current
    BY DEF NextBlock
  <2> HIDE DEF b
  <2>5. /\ Append(c.blocks, b) \in Seq(Blocks) /\ Len(Append(c.blocks, b)) = m + 1
        /\ m \in Nat /\ m >= 1 /\ OnBoundary(m)
    <3>1. c.blocks \in Seq(Blocks) /\ Len(c.blocks) = m /\ Len(q) \in Nat
          /\ Len(Append(q, gap)) = m
      BY <2>1 DEF FullOK, Chains, Histories
    <3> QED BY <1>2, <2>2, <3>1
  <2> HIDE DEF m, c
  <2>6. Retarget(Append(c.blocks, b), 0, c.current) = c.current
    <3>1. CASE ~OnBoundary(m + 1)
      BY <2>5, <3>1 DEF Retarget, OnBoundary
    <3>2. CASE OnBoundary(m + 1)
      <4>1. RETARGET_INTERVAL \in Nat \ {0} /\ m + 1 \in Nat /\ (m + 1) - m = 1
        BY <2>5, CheckpointsAssumption
      <4>2. 1 >= RETARGET_INTERVAL
        BY <2>5, <3>2, <4>1, BoundariesApart
      <4>3. RETARGET_INTERVAL = 1
        BY <4>1, <4>2
      <4>4. WindowStart(m + 1, 0) = m + 1
        <5>1. OnBoundary(0)
          BY <4>3 DEF OnBoundary
        <5>2. 0 + (m + 1) = m + 1 /\ m + 1 > RETARGET_INTERVAL
          BY <2>5, <4>3
        <5>3. WindowStart(m + 1, 0) = m + 1 - RETARGET_INTERVAL + 1
          <6>1. PICK more : more = m + 1
            OBVIOUS
          <6>2. ASSUME NEW length \in Nat, OnBoundary(0 + length), length > RETARGET_INTERVAL
                PROVE  WindowStart(length, 0) = length - RETARGET_INTERVAL + 1
            <7>1. length > 0
              BY <4>1, <6>2
            <7> QED BY <5>1, <6>2, <7>1, WindowIs
          <6>3. more \in Nat /\ OnBoundary(0 + more) /\ more > RETARGET_INTERVAL
            <7>1. 0 + more = more
              BY <4>1, <6>1
            <7> QED BY <3>2, <4>1, <5>2, <6>1, <7>1
          <6>4. WindowStart(more, 0) = more - RETARGET_INTERVAL + 1
            BY <6>2, <6>3
          <6> QED BY <2>5, <4>1, <6>1, <6>3, <6>4
        <5> QED BY <2>5, <4>3, <5>3
      <4>5. ASSUME NEW blocks \in Seq(Blocks), Len(blocks) = m + 1
            PROVE  SubSeq(blocks, m + 1, m + 1) \in Seq(Blocks) /\ Len(SubSeq(blocks, m + 1, m + 1)) = 1
        BY <2>5, <4>5
      <4>6. Adjusted(c.current, SubSeq(Append(c.blocks, b), m + 1, m + 1)) = c.current
        <5>1. SubSeq(Append(c.blocks, b), m + 1, m + 1) \in Seq(Blocks)
              /\ Len(SubSeq(Append(c.blocks, b), m + 1, m + 1)) < 2
          BY <2>5, <4>5
        <5> QED BY <5>1, AdjustedAlone
      <4> QED BY <2>5, <4>1, <4>4, <4>6 DEF Retarget
    <3> QED BY <3>1, <3>2
  <2> QED BY <2>2, <2>3, <2>4, <2>6 DEF c
<1>3. ASSUME NEW q \in Histories, NEW gap \in Gaps PROVE Append(q, gap) \in Good
  <2>1. Append(q, gap) \in Histories
    BY DEF Histories
  <2> QED BY <1>2, <2>1
<1>4. Seq(Gaps) \subseteq Good
  <2> HIDE DEF Good
  <2> QED BY <1>1, <1>3, SeqInduction DEF Histories
<1> QED BY <1>4 DEF Histories

-----------------------------------------------------------------------------
(* The part of a chain that a node holds                                   *)

\* What a node that started at base knows about its own chain.
CutOK(c, h, base) ==
    /\ c \in Chains /\ c # Invalid /\ c # Absent
    /\ Len(c.blocks) = Len(h) - base + 1
    /\ NextIndex(c) = Len(h) + 1 /\ TipIndex(c) = Len(h)
    /\ LatestHash(c) = << 0 >> \o h
    /\ Head(c.blocks) = Full(h).blocks[base + 1]
    /\ c.current \in MIN_DIFFICULTY .. MAX_DIFFICULTY

LEMMA CutShape ==
    ASSUME NEW h \in Histories, NEW base \in 0 .. Len(h), NEW finalized \in Nat
    PROVE  CutOK(Cut(h, base, finalized), h, base)
<1> DEFINE c == Cut(h, base, finalized)
           blocks == Full(h).blocks
           m == Len(h)
<1>1. FullOK(h)
  BY FullShape
<1>2. blocks \in Seq(Blocks) /\ Len(blocks) = m + 1 /\ m \in Nat /\ base \in Nat /\ base <= m
  BY <1>1 DEF FullOK, Chains, Histories
<1>3. c.blocks = SubSeq(blocks, base + 1, m + 1) /\ c.base = base
  BY DEF Cut
<1> HIDE DEF blocks, m
<1>4. /\ c.blocks \in Seq(Blocks) /\ Len(c.blocks) = m - base + 1 /\ c.blocks # <<>>
      /\ c.blocks[1] = blocks[base + 1] /\ c.blocks[m - base + 1] = blocks[m + 1]
  <2> HIDE DEF c
  <2> QED BY <1>2, <1>3
<1>5. c \in Chains
  <2>1. blocks[base + 1] \in Blocks
    BY <1>2
  <2>2. RootAt(blocks[base + 1]) \in [difficulty : Nat, beacon : Seq(Nat)]
    BY <2>1 DEF RootAt, Hash, Blocks
  <2>3. Full(h).current \in Nat /\ Full(h).beacon \in Seq(Nat)
    BY <1>1 DEF FullOK, Chains
  <2>4. SubSeq(blocks, base + 1, m + 1) \in Seq(Blocks)
    BY <1>3, <1>4
  <2> QED BY <1>2, <2>2, <2>3, <2>4 DEF Cut, Chains, blocks, m
<1>6. c # Invalid /\ c # Absent
  BY <1>4 DEF Invalid, Absent
<1>7. NextIndex(c) = m + 1 /\ TipIndex(c) = m
  <2> HIDE DEF c
  <2>1. NextIndex(c) = base + (m - base + 1)
    BY <1>3, <1>4 DEF NextIndex
  <2>2. base + (m - base + 1) = m + 1 /\ (m + 1) - 1 = m
    BY <1>2
  <2> QED BY <2>1, <2>2 DEF TipIndex
<1>8. LatestHash(c) = << 0 >> \o h
  <2>1. Last(c.blocks) = blocks[m + 1] /\ Last(blocks) = blocks[m + 1]
    BY <1>2, <1>4 DEF Last
  <2>2. LatestHash(Full(h)) = << 0 >> \o h
    BY <1>1 DEF FullOK
  <2> QED BY <2>1, <2>2 DEF LatestHash, blocks
<1>9. Head(c.blocks) = blocks[base + 1]
  BY <1>4
<1>10. c.current \in MIN_DIFFICULTY .. MAX_DIFFICULTY
  BY <1>1 DEF FullOK, Cut
<1> HIDE DEF c
<1> QED BY <1>4, <1>5, <1>6, <1>7, <1>8, <1>9, <1>10 DEF CutOK, blocks, m, c

\* A history is read off the hash of its tip.
LEMMA HashTellsHistory ==
    ASSUME NEW h \in Histories, NEW g \in Histories, << 0 >> \o h = << 0 >> \o g
    PROVE  h = g
<1>1. h \in Seq(Nat) /\ g \in Seq(Nat)
  BY GapsAreNats
<1>2. ASSUME NEW q \in Seq(Nat)
      PROVE  Len(<< 0 >> \o q) = Len(q) + 1 /\ \A i \in 1 .. Len(q) : (<< 0 >> \o q)[i + 1] = q[i]
  OBVIOUS
<1>3. Len(h) = Len(g)
  BY <1>1, <1>2
<1>4. \A i \in 1 .. Len(h) : h[i] = g[i]
  BY <1>1, <1>2, <1>3
<1> QED BY <1>1, <1>3, <1>4, SameList

\* What a node seals, appends and takes from others is what the whole chain would: its
\* missing past makes no difference.
LEMMA CutGrows ==
    ASSUME NEW h \in Histories, NEW gap \in Gaps, NEW base \in 0 .. Len(h), OnBoundary(base),
           NEW finalized \in Nat
    PROVE  /\ NextBlock(Cut(h, base, finalized), gap) = NextBlock(Full(h), gap)
           /\ Valid(Cut(h, base, finalized), NextBlock(Full(h), gap))
           /\ Commit(Cut(h, base, finalized), NextBlock(Full(h), gap)) =
                  Cut(Append(h, gap), base, finalized)
<1> DEFINE c == Cut(h, base, finalized)
           b == NextBlock(Full(h), gap)
           more == Append(h, gap)
           blocks == Full(h).blocks
           m == Len(h)
<1>1. FullOK(h) /\ CutOK(c, h, base) /\ h \in Seq(Gaps)
  BY FullShape, CutShape DEF Histories
<1>2. c.current = Full(h).current /\ c.beacon = Full(h).beacon /\ LatestHash(c) = LatestHash(Full(h))
  BY <1>1 DEF CutOK, FullOK, Cut
<1>3. NextBlock(c, gap) = b
  BY <1>2 DEF NextBlock
<1>4. Valid(c, b)
  BY <1>2 DEF Valid, NextBlock
<1>5. b \in Blocks /\ b.gap = gap /\ Full(more) = Commit(Full(h), b)
  <2>1. b.gap = gap
    BY DEF NextBlock
  <2> QED BY <1>1, <2>1, FullGrows
<1> HIDE DEF b
<1>6. /\ blocks \in Seq(Blocks) /\ Len(blocks) = m + 1 /\ m \in Nat /\ base \in Nat /\ base <= m
      /\ Len(more) = m + 1
  BY <1>1 DEF FullOK, Chains
<1>7. /\ Full(more).blocks = Append(blocks, b)
      /\ Full(more).beacon = Append(Full(h).beacon, gap)
      /\ Full(more).current = Retarget(Append(blocks, b), 0, Full(h).current)
  <2>1. Full(h) \in Chains /\ Full(h).base = 0
        /\ Full(h).current \in MIN_DIFFICULTY .. MAX_DIFFICULTY
    BY <1>1 DEF FullOK
  <2>2. /\ Commit(Full(h), b).blocks = Append(Full(h).blocks, b)
        /\ Commit(Full(h), b).beacon = Append(Full(h).beacon, b.gap)
        /\ Commit(Full(h), b).current = Retarget(Append(Full(h).blocks, b), Full(h).base, Full(h).current)
    BY <1>5, <2>1, CommitType
  <2> QED BY <1>5, <2>1, <2>2
<1>8. /\ c.blocks = SubSeq(blocks, base + 1, m + 1) /\ c.base = base /\ c.finalized = finalized
      /\ c.root = RootAt(blocks[base + 1])
  BY DEF Cut
<1>9. /\ Commit(c, b) \in Chains
      /\ Commit(c, b).base = base /\ Commit(c, b).root = RootAt(blocks[base + 1])
      /\ Commit(c, b).finalized = finalized
      /\ Commit(c, b).blocks = Append(c.blocks, b)
      /\ Commit(c, b).beacon = Append(c.beacon, gap)
      /\ Commit(c, b).current = Retarget(Append(c.blocks, b), base, c.current)
  <2>1. c \in Chains /\ c.current \in MIN_DIFFICULTY .. MAX_DIFFICULTY
    BY <1>1 DEF CutOK
  <2> HIDE DEF c, blocks, m
  <2>2. /\ Commit(c, b) \in Chains
        /\ Commit(c, b).base = c.base /\ Commit(c, b).root = c.root
        /\ Commit(c, b).finalized = c.finalized
        /\ Commit(c, b).blocks = Append(c.blocks, b)
        /\ Commit(c, b).beacon = Append(c.beacon, b.gap)
        /\ Commit(c, b).current = Retarget(Append(c.blocks, b), c.base, c.current)
    BY <1>5, <2>1, CommitType
  <2> QED BY <1>5, <1>8, <2>2
<1> HIDE DEF blocks, m
<1>10. /\ Append(blocks, b) \in Seq(Blocks) /\ Len(Append(blocks, b)) = m + 2
       /\ Append(blocks, b)[base + 1] = blocks[base + 1]
       /\ base \in 0 .. Len(Append(blocks, b)) - 1
  BY <1>5, <1>6
<1>11. Append(c.blocks, b) = SubSeq(Append(blocks, b), base + 1, m + 2)
  <2>1. c.blocks \in Seq(Blocks) /\ Len(c.blocks) = m - base + 1
    BY <1>1 DEF CutOK, Chains, m
  <2>2. \A i \in 1 .. m - base + 1 : c.blocks[i] = blocks[base + i]
    <3>1. ASSUME NEW i \in 1 .. m - base + 1
          PROVE  SubSeq(blocks, base + 1, m + 1)[i] = blocks[base + i]
      <4>1. i \in 1 .. (m + 1) - (base + 1) + 1 /\ (base + 1) + i - 1 = base + i
        BY <1>6
      <4>2. \A j \in 1 .. (m + 1) - (base + 1) + 1 :
               SubSeq(blocks, base + 1, m + 1)[j] = blocks[(base + 1) + j - 1]
        BY <1>6
      <4> QED BY <4>1, <4>2
    <3> QED BY <1>8, <3>1
  <2> DEFINE left == Append(c.blocks, b)
             all == Append(blocks, b)
             right == SubSeq(all, base + 1, m + 2)
  <2>3. left \in Seq(Blocks) /\ Len(left) = m - base + 2
    BY <1>5, <1>6, <2>1
  <2>4. right \in Seq(Blocks) /\ Len(right) = m - base + 2
    BY <1>6, <1>10
  <2>5. ASSUME NEW i \in 1 .. m - base + 2 PROVE left[i] = right[i]
    <3>1. right[i] = all[base + i]
      <4>1. i \in 1 .. (m + 2) - (base + 1) + 1 /\ (base + 1) + i - 1 = base + i
        BY <1>6
      <4>2. \A j \in 1 .. (m + 2) - (base + 1) + 1 :
               SubSeq(all, base + 1, m + 2)[j] = all[(base + 1) + j - 1]
        BY <1>6, <1>10
      <4> QED BY <4>1, <4>2
    <3>2. CASE i <= m - base + 1
      <4>1. left[i] = c.blocks[i]
        BY <1>5, <2>1, <3>2
      <4>2. all[base + i] = blocks[base + i]
        BY <1>5, <1>6, <3>2
      <4> QED BY <1>6, <2>2, <3>1, <3>2, <4>1, <4>2
    <3>3. CASE i = m - base + 2
      <4>1. left[i] = b
        BY <1>5, <1>6, <2>1, <3>3
      <4>2. base + i = m + 2 /\ all[m + 2] = b
        BY <1>5, <1>6, <3>3
      <4> QED BY <3>1, <4>1, <4>2
    <3>4. i <= m - base + 1 \/ i = m - base + 2
      BY <1>6, <2>5
    <3> HIDE DEF left, right
    <3> QED BY <3>2, <3>3, <3>4
  <2> HIDE DEF left, right
  <2>6. left = right
    BY <2>3, <2>4, <2>5, SameList
  <2> QED BY <2>6 DEF left, right
<1>12. Retarget(Append(c.blocks, b), base, c.current) = Retarget(Append(blocks, b), 0, c.current)
  <2>1. ASSUME NEW all \in Seq(Blocks), base \in 0 .. Len(all) - 1
        PROVE  Retarget(SubSeq(all, base + 1, Len(all)), base, c.current) = Retarget(all, 0, c.current)
    BY <2>1, RetargetCut
  <2> QED BY <1>10, <1>11, <2>1
<1>13. Cut(more, base, finalized) =
          [base |-> base, blocks |-> Append(c.blocks, b), root |-> RootAt(blocks[base + 1]),
           current |-> Commit(c, b).current, beacon |-> Append(c.beacon, gap),
           finalized |-> finalized]
  <2>1. Len(more) + 1 = m + 2
    BY <1>6
  <2> HIDE DEF c, more
  <2> QED BY <1>2, <1>7, <1>9, <1>10, <1>11, <1>12, <2>1 DEF Cut
<1>14. Commit(c, b) = Cut(more, base, finalized)
  <2> HIDE DEF c, more
  <2> QED BY <1>9, <1>13 DEF Chains
<1> QED BY <1>3, <1>4, <1>14 DEF b

-----------------------------------------------------------------------------
(* Replaying                                                               *)

LEMMA PartShape ==
    ASSUME NEW T, NEW seq \in Seq(T), NEW a \in 1 .. Len(seq), NEW z \in a .. Len(seq)
    PROVE  /\ SubSeq(seq, a, z) \in Seq(T) /\ Len(SubSeq(seq, a, z)) = z - a + 1
           /\ \A j \in 1 .. z - a + 1 : SubSeq(seq, a, z)[j] = seq[a + j - 1]
OBVIOUS

\* A part of a part.
LEMMA PartOfPart ==
    ASSUME NEW T, NEW seq \in Seq(T), NEW a \in 1 .. Len(seq), NEW z \in a .. Len(seq),
           NEW i \in 1 .. z - a + 1, NEW j \in i .. z - a + 1
    PROVE  SubSeq(SubSeq(seq, a, z), i, j) = SubSeq(seq, a + i - 1, a + j - 1)
<1> DEFINE part == SubSeq(seq, a, z)
           left == SubSeq(part, i, j)
           right == SubSeq(seq, a + i - 1, a + j - 1)
<1>1. part \in Seq(T) /\ Len(part) = z - a + 1
      /\ \A k \in 1 .. z - a + 1 : part[k] = seq[a + k - 1]
  BY PartShape
<1>2. i \in 1 .. Len(part) /\ j \in i .. Len(part)
  BY <1>1
<1> HIDE DEF part
<1>3. left \in Seq(T) /\ Len(left) = j - i + 1
      /\ \A k \in 1 .. j - i + 1 : left[k] = part[i + k - 1]
  BY <1>1, <1>2, PartShape
<1>4. a + i - 1 \in 1 .. Len(seq) /\ a + j - 1 \in a + i - 1 .. Len(seq)
  OBVIOUS
<1>5. right \in Seq(T) /\ Len(right) = (a + j - 1) - (a + i - 1) + 1
      /\ \A k \in 1 .. (a + j - 1) - (a + i - 1) + 1 : right[k] = seq[(a + i - 1) + k - 1]
  BY <1>4, PartShape
<1> HIDE DEF left, right
<1>6. ASSUME NEW k \in 1 .. j - i + 1 PROVE left[k] = right[k]
  <2>1. i + k - 1 \in 1 .. z - a + 1 /\ a + (i + k - 1) - 1 = (a + i - 1) + k - 1
    OBVIOUS
  <2>2. k \in 1 .. (a + j - 1) - (a + i - 1) + 1
    OBVIOUS
  <2> QED BY <1>1, <1>3, <1>5, <2>1, <2>2
<1>7. Len(left) = Len(right)
  BY <1>3, <1>5
<1>8. left = right
  BY <1>3, <1>5, <1>6, <1>7, SameList
<1> QED BY <1>8 DEF left, right, part

\* A chain with nothing but its root.
Start(h, base, finalized) ==
    [base |-> base, blocks |-> <<Full(h).blocks[base + 1]>>, root |-> RootAt(Full(h).blocks[base + 1]),
     current |-> Full(h).blocks[base + 1].difficulty, beacon |-> Hash(Full(h).blocks[base + 1]),
     finalized |-> finalized]

\* At a boundary the root is all there is to know.
LEMMA CutStarts ==
    ASSUME NEW h \in Histories, OnBoundary(Len(h)), NEW finalized \in Nat
    PROVE  /\ Start(h, Len(h), finalized) = Cut(h, Len(h), finalized)
           /\ Tail(Cut(h, Len(h), finalized).blocks) = <<>>
<1> DEFINE m == Len(h)
           blocks == Full(h).blocks
<1>1. FullOK(h) /\ m \in 0 .. m /\ m \in Nat
  BY FullShape DEF Histories
<1>2. blocks \in Seq(Blocks) /\ Len(blocks) = m + 1
  BY <1>1 DEF FullOK, Chains
<1> HIDE DEF m, blocks
<1>3. Last(blocks) = blocks[m + 1]
  BY <1>2 DEF Last
<1>4. SubSeq(blocks, m + 1, m + 1) = <<blocks[m + 1]>>
  <2>1. ASSUME NEW i \in 1 .. Len(blocks) PROVE SubSeq(blocks, i, i) = <<blocks[i]>>
    <3>1. /\ SubSeq(blocks, i, i) \in Seq(Blocks) /\ Len(SubSeq(blocks, i, i)) = 1
          /\ SubSeq(blocks, i, i)[1] = blocks[i]
      BY <1>2
    <3>2. <<blocks[i]>> \in Seq(Blocks) /\ Len(<<blocks[i]>>) = 1 /\ <<blocks[i]>>[1] = blocks[i]
      BY <1>2
    <3>3. \A j \in 1 .. 1 : j = 1
      OBVIOUS
    <3> QED BY <3>1, <3>2, <3>3, SameList
  <2> QED BY <1>1, <1>2, <2>1
<1>5. Full(h).current = blocks[m + 1].difficulty
  BY <1>3, AnchorDifficulty DEF blocks, m
<1>6. Full(h).beacon = Hash(blocks[m + 1])
  BY <1>1, <1>3 DEF FullOK, LatestHash, blocks
<1>7. Tail(<<blocks[m + 1]>>) = <<>>
  OBVIOUS
<1> QED BY <1>4, <1>5, <1>6, <1>7 DEF Start, Cut, blocks, m

\* Replaying what a node holds gives what the node holds.
LEMMA ReplayCut ==
    ASSUME NEW h \in Histories, NEW base \in 0 .. Len(h), OnBoundary(base), NEW finalized \in Nat
    PROVE  Folded(Replayed, Start(h, base, finalized), Tail(Cut(h, base, finalized).blocks)) =
               Cut(h, base, finalized)
<1> DEFINE Same(q) == Folded(Replayed, Start(q, base, finalized), Tail(Cut(q, base, finalized).blocks))
                      = Cut(q, base, finalized)
           Good == {q \in Histories : base <= Len(q) => Same(q)}
<1>1. ASSUME NEW q \in Histories, base = Len(q) PROVE Same(q)
  <2>1. Start(q, base, finalized) = Cut(q, base, finalized)
        /\ Tail(Cut(q, base, finalized).blocks) = <<>>
    BY <1>1, CutStarts
  <2> QED BY <2>1, FoldedNothing
<1>2. <<>> \in Good
  <2>1. <<>> \in Histories /\ Len(<<>>) = 0
    BY DEF Histories
  <2>2. base <= 0 => base = 0
    OBVIOUS
  <2> HIDE DEF Same
  <2> QED BY <1>1, <2>1, <2>2
<1>3. ASSUME NEW q \in Histories, NEW gap \in Gaps, base <= Len(q) => Same(q),
             base <= Len(Append(q, gap))
      PROVE  Same(Append(q, gap))
  <2> DEFINE more == Append(q, gap)
             c == Cut(q, base, finalized)
             b == NextBlock(Full(q), gap)
  <2>1. more \in Histories /\ Len(more) = Len(q) + 1 /\ Len(q) \in Nat
    BY DEF Histories
  <2>2. CASE base <= Len(q)
    <3>1. base \in 0 .. Len(q)
      BY <2>1, <2>2
    <3>2. CutOK(c, q, base) /\ CutOK(Cut(more, base, finalized), more, base)
      <4>1. base \in 0 .. Len(more)
        BY <2>1, <3>1
      <4> QED BY <2>1, <3>1, <4>1, CutShape
    <3>3. b \in Blocks
      BY FullShape, FullGrows
    <3>4. Valid(c, b) /\ Commit(c, b) = Cut(more, base, finalized)
      BY <3>1, CutGrows
    <3>5. Cut(more, base, finalized).blocks = Append(c.blocks, b)
      <4> HIDE DEF b, c
      <4>1. c \in Chains /\ c.current \in MIN_DIFFICULTY .. MAX_DIFFICULTY
        BY <3>2 DEF CutOK
      <4>2. Commit(c, b).blocks = Append(c.blocks, b)
        BY <3>3, <4>1, CommitType
      <4> QED BY <3>4, <4>2
    <3>6. c.blocks \in Seq(Blocks) /\ c.blocks # <<>>
      <4> HIDE DEF c
      <4>1. c.blocks \in Seq(Blocks) /\ Len(c.blocks) = Len(q) - base + 1
        BY <3>2 DEF CutOK, Chains
      <4> QED BY <2>1, <3>1, <4>1
    <3>7. /\ Tail(c.blocks) \in Seq(Blocks)
          /\ Tail(Append(c.blocks, b)) = Append(Tail(c.blocks), b)
          /\ Head(Append(c.blocks, b)) = Head(c.blocks)
      <4>1. ASSUME NEW s \in Seq(Blocks), s # <<>>
            PROVE  /\ Tail(s) \in Seq(Blocks) /\ Tail(Append(s, b)) = Append(Tail(s), b)
                   /\ Head(Append(s, b)) = Head(s)
        <5> HIDE DEF b
        <5> QED BY <3>3, <4>1
      <4> QED BY <3>6, <4>1
    <3>8. Full(more).blocks[base + 1] = Full(q).blocks[base + 1]
      BY <3>2, <3>5, <3>7 DEF CutOK
    <3>9. Start(more, base, finalized) = Start(q, base, finalized)
      BY <3>8 DEF Start
    <3>10. Folded(Replayed, Start(q, base, finalized), Append(Tail(c.blocks), b)) =
               Replayed[b][Folded(Replayed, Start(q, base, finalized), Tail(c.blocks))]
      <4> HIDE DEF b, c
      <4> QED BY <3>3, <3>7, FoldedAppend
    <3>11. Replayed[b][c] = Commit(c, b)
      <4>1. c \in Chains /\ c # Invalid
        BY <3>2 DEF CutOK
      <4> HIDE DEF b, c
      <4> QED BY <3>3, <3>4, <4>1 DEF Replayed
    <3>12. Folded(Replayed, Start(q, base, finalized), Tail(c.blocks)) = c
      BY <1>3, <2>2
    <3> HIDE DEF more, b, c
    <3>13. Folded(Replayed, Start(more, base, finalized), Tail(Cut(more, base, finalized).blocks)) =
               Cut(more, base, finalized)
      BY <3>4, <3>5, <3>7, <3>9, <3>10, <3>11, <3>12
    <3> QED BY <3>13 DEF more
  <2>3. CASE base = Len(more)
    BY <1>1, <2>1, <2>3
  <2> QED BY <1>3, <2>1, <2>2, <2>3
<1>4. ASSUME NEW q \in Histories, NEW gap \in Gaps, q \in Good PROVE Append(q, gap) \in Good
  <2>1. Append(q, gap) \in Histories
    BY DEF Histories
  <2> HIDE DEF Same
  <2> QED BY <1>3, <1>4, <2>1
<1>5. Seq(Gaps) \subseteq Good
  <2> HIDE DEF Good
  <2> QED BY <1>2, <1>4, SeqInduction DEF Histories
<1>6. Same(h)
  BY <1>5 DEF Histories
<1> QED BY <1>6

\* rebuild_state from the blocks, the root and the base of a chain.
LEMMA RebuildCut ==
    ASSUME NEW h \in Histories, NEW base \in 0 .. Len(h), OnBoundary(base), NEW c \in Chains,
           c.base = base, c.blocks = Cut(h, base, 0).blocks, c.root = Cut(h, base, 0).root
    PROVE  Rebuild(c) = Cut(h, base, c.finalized)
<1> DEFINE cut == Cut(h, base, c.finalized)
<1>1. c.finalized \in Nat /\ 0 \in Nat
  BY DEF Chains
<1>2. CutOK(cut, h, base)
  BY <1>1, CutShape
<1>3. cut.blocks = c.blocks /\ cut.root = c.root
  BY DEF Cut
<1>4. Head(c.blocks) = Full(h).blocks[base + 1]
  BY <1>2, <1>3 DEF CutOK
<1>5. c.root = RootAt(Full(h).blocks[base + 1])
  BY DEF Cut
<1>6. Seed(c) = Start(h, base, c.finalized)
  <2> DEFINE b == Full(h).blocks[base + 1]
  <2>1. c.root.difficulty = b.difficulty /\ c.root.beacon = Hash(b)
    BY <1>5 DEF RootAt
  <2>2. Start(h, base, c.finalized) =
            [base |-> c.base, blocks |-> <<Head(c.blocks)>>, root |-> c.root,
             current |-> c.root.difficulty, beacon |-> c.root.beacon, finalized |-> c.finalized]
    <3> HIDE DEF cut
    <3> QED BY <1>4, <1>5, <2>1 DEF Start
  <2>3. Seed(c) = [c EXCEPT !.blocks = <<Head(c.blocks)>>, !.beacon = c.root.beacon,
                            !.current = c.root.difficulty]
    BY DEF Seed, Chains
  <2>4. Seed(c) = [base |-> c.base, blocks |-> <<Head(c.blocks)>>, root |-> c.root,
                   current |-> c.root.difficulty, beacon |-> c.root.beacon,
                   finalized |-> c.finalized]
    BY <2>3 DEF Chains
  <2> QED BY <2>2, <2>4
<1>7. Folded(Replayed, Start(h, base, c.finalized), Tail(cut.blocks)) = cut
  BY <1>1, ReplayCut
<1> HIDE DEF cut
<1> QED BY <1>3, <1>6, <1>7 DEF Rebuild, cut

LEMMA FinalityCut ==
    ASSUME NEW h \in Histories, NEW base \in 0 .. Len(h), NEW finalized \in Nat
    PROVE  \E f \in base .. Len(h) :
               /\ Len(h) - FinalityDepth <= f
               /\ Finality(Cut(h, base, finalized)) = Cut(h, base, f)
<1> DEFINE c == Cut(h, base, finalized)
           f == Max({TipIndex(c) - FinalityDepth, c.base})
<1>1. TipIndex(c) = Len(h) /\ Len(h) \in Nat
  BY CutShape DEF CutOK, Histories
<1>2. c.base = base
  BY DEF Cut
<1>3. FinalityDepth \in Nat
  BY CheckpointsAssumption
<1> HIDE DEF c
<1>4. f = IF Len(h) - FinalityDepth >= base THEN Len(h) - FinalityDepth ELSE base
  <2> DEFINE S == {Len(h) - FinalityDepth, base}
  <2>1. S \in SUBSET Int /\ base \in Int /\ Len(h) - FinalityDepth \in Int
    BY <1>1, <1>3
  <2>2. CASE Len(h) - FinalityDepth >= base
    <3>1. \A y \in S : Len(h) - FinalityDepth >= y
      BY <2>1, <2>2
    <3>2. Max(S) = Len(h) - FinalityDepth
      BY <2>1, <3>1, MaxIs
    <3> QED BY <1>1, <1>2, <2>2, <3>2
  <2>3. CASE ~(Len(h) - FinalityDepth >= base)
    <3>1. \A y \in S : base >= y
      BY <2>1, <2>3
    <3>2. Max(S) = base
      BY <2>1, <3>1, MaxIs
    <3> QED BY <1>1, <1>2, <2>3, <3>2
  <2> QED BY <2>2, <2>3
<1>5. f \in base .. Len(h) /\ Len(h) - FinalityDepth <= f
  <2> HIDE DEF f
  <2> QED BY <1>1, <1>3, <1>4
<1>6. Finality(c) = [c EXCEPT !.finalized = f]
  BY DEF Finality
<1> HIDE DEF f
<1>7. Finality(c) = Cut(h, base, f)
  BY <1>6 DEF c, Cut
<1> QED BY <1>5, <1>7 DEF c

-----------------------------------------------------------------------------
(* Checkpoints                                                             *)

\* The checkpoint of a height names the difficulty and the beacon of the block there.
LEMMA CheckpointIs ==
    ASSUME NEW h \in Histories, NEW base \in 0 .. Len(h), OnBoundary(base), NEW finalized \in Nat,
           NEW height \in base .. Len(h), OnBoundary(height)
    PROVE  CheckpointAt(Cut(h, base, finalized), height) = RootAt(Full(h).blocks[height + 1])
<1> DEFINE c == Cut(h, base, finalized)
           blocks == Full(h).blocks
           m == Len(h)
           g == SubSeq(h, 1, height)
           d == [c EXCEPT !.blocks = SubSeq(@, 1, height - c.base + 1)]
<1>1. FullOK(h) /\ CutOK(c, h, base) /\ m \in Nat /\ base \in Nat /\ height \in 0 .. m
  BY FullShape, CutShape DEF Histories
<1>2. blocks \in Seq(Blocks) /\ Len(blocks) = m + 1
  BY <1>1 DEF FullOK, Chains
<1>3. g \in Histories /\ Len(g) = height /\ Full(g).blocks = SubSeq(blocks, 1, height + 1)
  BY <1>1, FullPrefix
<1>4. FullOK(g) /\ base \in 0 .. Len(g)
  BY <1>1, <1>3, FullShape
<1>5. Last(Full(g).blocks) = blocks[height + 1]
  BY <1>1, BlockAt
<1> HIDE DEF g, m, blocks
<1>6. /\ c \in Chains /\ c.base = base /\ c.finalized = finalized
      /\ c.blocks = SubSeq(blocks, base + 1, m + 1) /\ c.root = RootAt(blocks[base + 1])
  BY <1>1 DEF CutOK, Cut, blocks, m
<1> HIDE DEF c
<1>7. SubSeq(c.blocks, 1, height - base + 1) = SubSeq(blocks, base + 1, height + 1)
  <2>1. /\ base + 1 \in 1 .. Len(blocks) /\ m + 1 \in base + 1 .. Len(blocks)
        /\ 1 \in 1 .. (m + 1) - (base + 1) + 1
        /\ height - base + 1 \in 1 .. (m + 1) - (base + 1) + 1
    BY <1>1, <1>2
  <2>2. SubSeq(SubSeq(blocks, base + 1, m + 1), 1, height - base + 1) =
            SubSeq(blocks, (base + 1) + 1 - 1, (base + 1) + (height - base + 1) - 1)
    BY <1>2, <2>1, PartOfPart
  <2>3. (base + 1) + 1 - 1 = base + 1 /\ (base + 1) + (height - base + 1) - 1 = height + 1
    BY <1>1
  <2> QED BY <1>6, <2>2, <2>3
<1>8. SubSeq(Full(g).blocks, base + 1, height + 1) = SubSeq(blocks, base + 1, height + 1)
  <2>1. /\ 1 \in 1 .. Len(blocks) /\ height + 1 \in 1 .. Len(blocks)
        /\ base + 1 \in 1 .. (height + 1) - 1 + 1
        /\ height + 1 \in base + 1 .. (height + 1) - 1 + 1
    BY <1>1, <1>2
  <2>2. SubSeq(SubSeq(blocks, 1, height + 1), base + 1, height + 1) =
            SubSeq(blocks, 1 + (base + 1) - 1, 1 + (height + 1) - 1)
    BY <1>2, <2>1, PartOfPart
  <2>3. 1 + (base + 1) - 1 = base + 1 /\ 1 + (height + 1) - 1 = height + 1
    BY <1>1
  <2> QED BY <1>3, <2>2, <2>3
<1>9. Full(g).blocks[base + 1] = blocks[base + 1]
  <2>1. base + 1 \in 1 .. height + 1
    BY <1>1
  <2>2. ASSUME NEW z \in 1 .. Len(blocks), NEW i \in 1 .. z PROVE SubSeq(blocks, 1, z)[i] = blocks[i]
    BY <1>2
  <2>3. height + 1 \in 1 .. Len(blocks)
    BY <1>1, <1>2
  <2> QED BY <1>3, <2>1, <2>2, <2>3
<1>10. /\ Cut(g, base, 0).blocks = SubSeq(blocks, base + 1, height + 1)
       /\ Cut(g, base, 0).root = RootAt(blocks[base + 1])
  BY <1>3, <1>8, <1>9 DEF Cut
<1>11. /\ d \in Chains /\ d.base = base /\ d.finalized = finalized
       /\ d.blocks = SubSeq(blocks, base + 1, height + 1) /\ d.root = RootAt(blocks[base + 1])
  <2>1. SubSeq(blocks, base + 1, height + 1) \in Seq(Blocks)
    BY <1>1, <1>2
  <2> QED BY <1>6, <1>7, <2>1 DEF Chains
<1>12. CheckpointAt(c, height) = [difficulty |-> Rebuild(d).current, beacon |-> Rebuild(d).beacon]
  BY DEF CheckpointAt
<1> HIDE DEF d
<1>13. Rebuild(d) = Cut(g, base, finalized)
  BY <1>3, <1>4, <1>10, <1>11, RebuildCut
<1>14. Cut(g, base, finalized).current = blocks[height + 1].difficulty
  BY <1>3, <1>5, AnchorDifficulty DEF Cut
<1>15. Cut(g, base, finalized).beacon = Hash(blocks[height + 1])
  BY <1>4, <1>5 DEF Cut, FullOK, LatestHash
<1> QED BY <1>12, <1>13, <1>14, <1>15 DEF RootAt, c, blocks

\* The height a bundle is exported for is one the node still holds.
LEMMA BoundaryHeld ==
    ASSUME NEW h \in Histories, NEW base \in 0 .. Len(h), OnBoundary(base), NEW finalized \in Nat
    PROVE  /\ Boundary(Cut(h, base, finalized)) \in base .. Len(h)
           /\ OnBoundary(Boundary(Cut(h, base, finalized)))
<1> DEFINE c == Cut(h, base, finalized)
           S == {x \in 0 .. TipIndex(c) : OnBoundary(x)}
<1>1. TipIndex(c) = Len(h) /\ Len(h) \in Nat
  BY CutShape DEF CutOK, Histories
<1> HIDE DEF c
<1>2. S \in SUBSET (0 .. Len(h)) /\ base \in S
  BY <1>1
<1>3. Max(S) \in S /\ Max(S) >= base
  <2> HIDE DEF S
  <2> QED BY <1>1, <1>2, SubrangeMax
<1>4. Max(S) \in base .. Len(h) /\ OnBoundary(Max(S))
  <2>1. ASSUME NEW x \in S, x >= base PROVE x \in base .. Len(h) /\ OnBoundary(x)
    BY <1>1, <2>1
  <2> QED BY <1>3, <2>1
<1>5. Boundary(c) = Max(S)
  BY DEF Boundary
<1> QED BY <1>4, <1>5 DEF c

\* What a node imports from a bundle is the chain of the exporter from the boundary on.
LEMMA BundleIs ==
    ASSUME NEW h \in Histories, NEW base \in 0 .. Len(h), OnBoundary(base), NEW finalized \in Nat
    PROVE  LET height == Boundary(Cut(h, base, finalized))
           IN  FromBundle(ExportBundle(Cut(h, base, finalized))) = Cut(h, height, height)
<1> DEFINE c == Cut(h, base, finalized)
           blocks == Full(h).blocks
           m == Len(h)
           height == Boundary(c)
           bundle == ExportBundle(c)
           d == [base |-> bundle.height, blocks |-> bundle.blocks, root |-> bundle.root,
                 current |-> bundle.root.difficulty, beacon |-> <<>>, finalized |-> bundle.height]
<1>1. FullOK(h) /\ CutOK(c, h, base) /\ m \in Nat /\ base \in Nat /\ base <= m
  BY FullShape, CutShape DEF Histories
<1>2. height \in base .. m /\ OnBoundary(height)
  BY BoundaryHeld
<1>3. CheckpointAt(c, height) = RootAt(blocks[height + 1])
  BY <1>2, CheckpointIs
<1>4. blocks \in Seq(Blocks) /\ Len(blocks) = m + 1
  BY <1>1 DEF FullOK, Chains
<1> HIDE DEF m, blocks
<1>5. c.base = base /\ c.blocks = SubSeq(blocks, base + 1, m + 1) /\ Len(c.blocks) = m - base + 1
  BY <1>1 DEF Cut, CutOK, blocks, m
<1>6. bundle = [height |-> height, root |-> CheckpointAt(c, height),
                blocks |-> SubSeq(c.blocks, height - base + 1, m - base + 1)]
  BY <1>5 DEF ExportBundle
<1> HIDE DEF c, height, bundle
<1>7. SubSeq(c.blocks, height - base + 1, m - base + 1) = SubSeq(blocks, height + 1, m + 1)
  <2>0. height \in Nat /\ base <= height /\ height <= m
    BY <1>1, <1>2
  <2>1. /\ base + 1 \in 1 .. Len(blocks) /\ m + 1 \in base + 1 .. Len(blocks)
        /\ height - base + 1 \in 1 .. (m + 1) - (base + 1) + 1
        /\ m - base + 1 \in height - base + 1 .. (m + 1) - (base + 1) + 1
    BY <1>1, <1>4, <2>0
  <2>2. SubSeq(SubSeq(blocks, base + 1, m + 1), height - base + 1, m - base + 1) =
            SubSeq(blocks, (base + 1) + (height - base + 1) - 1, (base + 1) + (m - base + 1) - 1)
    <3>1. ASSUME NEW i \in 1 .. (m + 1) - (base + 1) + 1,
                 NEW j \in i .. (m + 1) - (base + 1) + 1
          PROVE  SubSeq(SubSeq(blocks, base + 1, m + 1), i, j) =
                     SubSeq(blocks, (base + 1) + i - 1, (base + 1) + j - 1)
      BY <1>4, <2>1, PartOfPart
    <3> QED BY <2>1, <3>1
  <2>3. /\ (base + 1) + (height - base + 1) - 1 = height + 1
        /\ (base + 1) + (m - base + 1) - 1 = m + 1
    BY <1>1, <2>0
  <2> QED BY <1>5, <2>2, <2>3
<1>8. /\ bundle.height = height /\ bundle.root = RootAt(blocks[height + 1])
      /\ bundle.blocks = SubSeq(blocks, height + 1, m + 1)
  BY <1>3, <1>6, <1>7
<1>9. height \in Nat /\ height \in 0 .. m
  BY <1>1, <1>2
<1>10. /\ Cut(h, height, 0).blocks = SubSeq(blocks, height + 1, m + 1)
       /\ Cut(h, height, 0).root = RootAt(blocks[height + 1])
  BY DEF Cut, blocks, m
<1>11. d \in Chains
  <2>1. blocks[height + 1] \in Blocks /\ SubSeq(blocks, height + 1, m + 1) \in Seq(Blocks)
    <3>1. height + 1 \in 1 .. Len(blocks) /\ m + 1 \in height + 1 .. Len(blocks)
      BY <1>1, <1>4, <1>9
    <3> HIDE DEF d
    <3> QED BY <1>4, <3>1, PartShape
  <2>2. RootAt(blocks[height + 1]) \in [difficulty : Nat, beacon : Seq(Nat)]
    BY <2>1 DEF RootAt, Hash, Blocks
  <2>3. <<>> \in Seq(Nat) /\ bundle.root.difficulty \in Nat
    BY <1>8, <2>2
  <2> HIDE DEF bundle
  <2> QED BY <1>8, <1>9, <2>1, <2>2, <2>3 DEF Chains
<1>12. FromBundle(bundle) = Rebuild(d)
  BY <1>2, <1>8 DEF FromBundle
<1>13. /\ d.base = height /\ d.blocks = Cut(h, height, 0).blocks
       /\ d.root = Cut(h, height, 0).root /\ d.finalized = height
  BY <1>8, <1>10
<1> HIDE DEF d, bundle
<1>14. Rebuild(d) = Cut(h, height, height)
  BY <1>2, <1>9, <1>11, <1>13, RebuildCut DEF m
<1> QED BY <1>12, <1>14 DEF c, height, bundle

\* A chain that starts later is a part of one that starts earlier.
LEMMA CutBlocks ==
    ASSUME NEW h \in Histories, NEW base \in 0 .. Len(h), NEW height \in base .. Len(h),
           NEW finalized \in Nat, NEW other \in Nat
    PROVE  Range(Cut(h, height, other).blocks) \subseteq Range(Cut(h, base, finalized).blocks)
<1> DEFINE blocks == Full(h).blocks
           m == Len(h)
           left == SubSeq(blocks, height + 1, m + 1)
           right == SubSeq(blocks, base + 1, m + 1)
<1>1. FullOK(h) /\ m \in Nat /\ base \in Nat /\ height \in Nat /\ base <= height /\ height <= m
  BY FullShape DEF Histories
<1>2. blocks \in Seq(Blocks) /\ Len(blocks) = m + 1
  BY <1>1 DEF FullOK, Chains
<1> HIDE DEF blocks, m
<1>3. /\ left \in Seq(Blocks) /\ Len(left) = (m + 1) - (height + 1) + 1
      /\ \A i \in 1 .. (m + 1) - (height + 1) + 1 : left[i] = blocks[(height + 1) + i - 1]
  <2>1. height + 1 \in 1 .. Len(blocks) /\ m + 1 \in height + 1 .. Len(blocks)
    BY <1>1, <1>2
  <2> QED BY <1>2, <2>1, PartShape
<1>4. /\ right \in Seq(Blocks) /\ Len(right) = (m + 1) - (base + 1) + 1
      /\ \A i \in 1 .. (m + 1) - (base + 1) + 1 : right[i] = blocks[(base + 1) + i - 1]
  <2>1. base + 1 \in 1 .. Len(blocks) /\ m + 1 \in base + 1 .. Len(blocks)
    BY <1>1, <1>2
  <2> QED BY <1>2, <2>1, PartShape
<1> HIDE DEF left, right
<1>5. ASSUME NEW i \in DOMAIN left PROVE left[i] \in Range(right)
  <2>1. i \in 1 .. (m + 1) - (height + 1) + 1 /\ i \in Nat
    BY <1>1, <1>3
  <2> DEFINE j == (height - base) + i
  <2>2. j \in 1 .. (m + 1) - (base + 1) + 1 /\ (base + 1) + j - 1 = (height + 1) + i - 1
    BY <1>1, <2>1
  <2>3. j \in DOMAIN right
    BY <1>1, <1>4, <2>2
  <2> HIDE DEF j
  <2>4. left[i] = right[j]
    BY <1>3, <1>4, <2>1, <2>2
  <2> QED BY <2>3, <2>4 DEF Range
<1>6. Range(left) \subseteq Range(right)
  BY <1>5 DEF Range
<1>7. Cut(h, height, other).blocks = left /\ Cut(h, base, finalized).blocks = right
  BY DEF Cut, left, right, blocks, m
<1> QED BY <1>6, <1>7

\* Where the block of a height is among those a node holds, and what its hash tells.
LEMMA CutBlockAt ==
    ASSUME NEW h \in Histories, NEW base \in 0 .. Len(h), NEW finalized \in Nat,
           NEW height \in base .. Len(h)
    PROVE  /\ Cut(h, base, finalized).blocks[height - base + 1] = Full(h).blocks[height + 1]
           /\ Hash(Full(h).blocks[height + 1]) = << 0 >> \o SubSeq(h, 1, height)
<1> DEFINE blocks == Full(h).blocks
           m == Len(h)
<1>1. FullOK(h) /\ m \in Nat /\ base \in Nat /\ height \in Nat /\ base <= height /\ height <= m
  BY FullShape DEF Histories
<1>2. blocks \in Seq(Blocks) /\ Len(blocks) = m + 1
  BY <1>1 DEF FullOK, Chains
<1>3. Cut(h, base, finalized).blocks = SubSeq(blocks, base + 1, m + 1)
  BY DEF Cut
<1>4. Hash(blocks[height + 1]) = << 0 >> \o SubSeq(h, 1, height)
  <2>1. height \in 0 .. Len(h)
    BY <1>1
  <2>2. SubSeq(h, 1, height) \in Histories
    BY <2>1, FullPrefix
  <2>3. LatestHash(Full(SubSeq(h, 1, height))) = << 0 >> \o SubSeq(h, 1, height)
    BY <2>2, FullShape DEF FullOK
  <2>4. blocks[height + 1] = Last(Full(SubSeq(h, 1, height)).blocks)
    BY <2>1, BlockAt
  <2> QED BY <2>3, <2>4 DEF LatestHash
<1> HIDE DEF blocks, m
<1>5. SubSeq(blocks, base + 1, m + 1)[height - base + 1] = blocks[height + 1]
  <2>1. base + 1 \in 1 .. Len(blocks) /\ m + 1 \in base + 1 .. Len(blocks)
    BY <1>1, <1>2
  <2>2. \A j \in 1 .. (m + 1) - (base + 1) + 1 :
            SubSeq(blocks, base + 1, m + 1)[j] = blocks[(base + 1) + j - 1]
    BY <1>2, <2>1, PartShape
  <2>3. /\ height - base + 1 \in 1 .. (m + 1) - (base + 1) + 1
        /\ (base + 1) + (height - base + 1) - 1 = height + 1
    BY <1>1
  <2> HIDE DEF blocks, m
  <2>4. PICK j : j = height - base + 1
    OBVIOUS
  <2>5. SubSeq(blocks, base + 1, m + 1)[j] = blocks[(base + 1) + j - 1]
    BY <2>2, <2>3, <2>4
  <2> QED BY <2>3, <2>4, <2>5
<1> QED BY <1>3, <1>4, <1>5 DEF blocks

LEMMA FrontAppend ==
    ASSUME NEW T, NEW seq \in Seq(T), NEW x
    PROVE  Front(Append(seq, x)) = seq
<1>1. Len(Append(seq, x)) - 1 = Len(seq)
  OBVIOUS
<1>2. SubSeq(Append(seq, x), 1, Len(seq)) = seq
  OBVIOUS
<1> QED BY <1>1, <1>2 DEF Front

\* The beginning of a hash is the hash of the beginning.
LEMMA HashPart ==
    ASSUME NEW h \in Histories, NEW k \in 0 .. Len(h), NEW i \in 1 .. k + 1
    PROVE  (<< 0 >> \o SubSeq(h, 1, k))[i] = (<< 0 >> \o h)[i] /\ i <= Len(<< 0 >> \o h)
<1>1. h \in Seq(Nat) /\ Len(h) \in Nat /\ k \in Nat /\ k <= Len(h)
  BY GapsAreNats
<1>2. SubSeq(h, 1, k) \in Seq(Nat) /\ Len(SubSeq(h, 1, k)) = k
      /\ \A j \in 1 .. k : SubSeq(h, 1, k)[j] = h[j]
  BY <1>1
<1>3. ASSUME NEW q \in Seq(Nat)
      PROVE  /\ Len(<< 0 >> \o q) = Len(q) + 1 /\ (<< 0 >> \o q)[1] = 0
             /\ \A j \in 2 .. Len(q) + 1 : (<< 0 >> \o q)[j] = q[j - 1]
  OBVIOUS
<1>4. CASE i = 1
  BY <1>1, <1>2, <1>3, <1>4
<1>5. CASE i \in 2 .. k + 1
  <2>1. i - 1 \in 1 .. k /\ i \in 2 .. Len(h) + 1
    BY <1>1, <1>5
  <2> QED BY <1>1, <1>2, <1>3, <1>5, <2>1
<1> QED BY <1>1, <1>4, <1>5

-----------------------------------------------------------------------------
(* The invariant                                                           *)

LEMMA InitCheckpoints == Init => CheckpointsInv
<1> SUFFICES ASSUME Init PROVE CheckpointsInv
  OBVIOUS
<1>1. <<>> \in Histories /\ Len(<<>>) = 0 /\ 0 \in 0 .. 0
  BY DEF Histories
<1>2. OnBoundary(0)
  BY CheckpointsAssumption DEF OnBoundary
<1>3. Fresh = Cut(<<>>, 0, 0)
  <2>1. Full(<<>>) = Fresh
    BY FreshOK
  <2>2. SubSeq(<<GenesisBlock>>, 1, 1) = <<GenesisBlock>> /\ <<GenesisBlock>>[1] = GenesisBlock
    <3>1. ASSUME NEW T, NEW seq \in Seq(T), Len(seq) = 1 PROVE SubSeq(seq, 1, 1) = seq
      BY <3>1
    <3>2. <<GenesisBlock>> \in Seq({GenesisBlock}) /\ Len(<<GenesisBlock>>) = 1
      OBVIOUS
    <3> QED BY <3>1, <3>2
  <2>3. RootAt(GenesisBlock) = GenesisRoot
    BY DEF RootAt, GenesisRoot, GenesisBlock
  <2>4. Fresh.blocks = <<GenesisBlock>>
    BY DEF Fresh
  <2>5. Cut(<<>>, 0, 0) = [base |-> 0, blocks |-> <<GenesisBlock>>, root |-> GenesisRoot,
                           current |-> Fresh.current, beacon |-> Fresh.beacon, finalized |-> 0]
    <3>1. 0 + 1 = 1
      OBVIOUS
    <3> HIDE DEF Fresh
    <3> QED BY <1>1, <2>1, <2>2, <2>3, <2>4, <3>1 DEF Cut
  <2> QED BY <2>5 DEF Fresh
<1>4. HoldsCut(Fresh)
  <2>1. 0 - FinalityDepth <= 0
    BY CheckpointsAssumption
  <2> QED BY <1>1, <1>2, <1>3, <2>1 DEF HoldsCut
<1>5. \A n \in Nodes : node[n] = Fresh \/ node[n] = Absent
  BY DEF Init, Fresh
<1>6. NodesOK
  BY <1>4, <1>5 DEF NodesOK, Running, Init
<1>7. HeldOK
  <2>1. Range(Fresh.blocks) \subseteq {GenesisBlock}
    <3>1. \A i \in DOMAIN <<GenesisBlock>> : <<GenesisBlock>>[i] = GenesisBlock
      OBVIOUS
    <3> QED BY <3>1 DEF Range, Fresh
  <2> QED BY <1>5, <2>1 DEF HeldOK, Running
<1>8. SealedOK
  BY DEF SealedOK, Init
<1> QED BY <1>6, <1>7, <1>8 DEF CheckpointsInv

\* A step of one node.
LEMMA NodeBecomes ==
    ASSUME NodesOK, HeldOK, NEW n \in Nodes, NEW d, HoldsCut(d),
           Range(d.blocks) \subseteq sealed' \cup {GenesisBlock}, sealed \subseteq sealed',
           node' = [node EXCEPT ![n] = d]
    PROVE  NodesOK' /\ HeldOK' /\ Tips' = [Tips EXCEPT ![n] = LatestHash(d)]
<1>1. DOMAIN node' = Nodes /\ node'[n] = d /\ \A k \in Nodes \ {n} : node'[k] = node[k]
  BY DEF NodesOK
<1>2. NodesOK'
  BY <1>1 DEF NodesOK, Running
<1>3. HeldOK'
  BY <1>1 DEF HeldOK, Running
<1>4. Running(n)'
  <2>1. d # Absent
    <3>1. PICK h \in Histories, base \in Nat, finalized \in Nat :
              base \in 0 .. Len(h) /\ d = Cut(h, base, finalized)
      <4>1. ASSUME NEW h \in Histories, NEW base \in 0 .. Len(h), NEW finalized \in base .. Len(h)
            PROVE  base \in Nat /\ finalized \in Nat
        BY DEF Histories
      <4> QED BY <4>1 DEF HoldsCut
    <3> QED BY <3>1, CutShape DEF CutOK
  <2> QED BY <1>1, <2>1 DEF Running
<1>5. /\ Tips'[n] = LatestHash(d)
      /\ \A k \in Nodes \ {n} : Tips'[k] = Tips[k]
  BY <1>1, <1>4 DEF Tips, Running
<1>6. Tips' = [Tips EXCEPT ![n] = LatestHash(d)]
  BY <1>5 DEF Tips
<1> QED BY <1>2, <1>3, <1>6

Taken(n, h, gap, b) ==
    /\ NodesOK' /\ HeldOK'
    /\ Tips[n] = << 0 >> \o h /\ Tips' = [Tips EXCEPT ![n] = Hash(b)]
    /\ Hash(b) = Append(<< 0 >> \o h, gap)

\* A node at history h takes a block that was sealed there.
LEMMA NodeCommits ==
    ASSUME NodesOK, HeldOK, NEW n \in Nodes, Running(n),
           NEW h \in Histories, NEW base \in 0 .. Len(h), OnBoundary(base), NEW finalized \in Nat,
           node[n] = Cut(h, base, finalized),
           NEW gap \in Gaps, NEW b, b = NextBlock(Full(h), gap),
           b \in sealed', sealed \subseteq sealed',
           node' = [node EXCEPT ![n] = Finality(Commit(@, b))]
    PROVE  Taken(n, h, gap, b)
<1> DEFINE c == Cut(h, base, finalized)
           more == Append(h, gap)
<1>1. more \in Histories /\ Len(more) = Len(h) + 1 /\ Len(h) \in Nat /\ base \in 0 .. Len(more)
  BY DEF Histories
<1>2. Commit(c, b) = Cut(more, base, finalized)
  BY CutGrows
<1>3. PICK f \in base .. Len(more) :
          /\ Len(more) - FinalityDepth <= f
          /\ Finality(Cut(more, base, finalized)) = Cut(more, base, f)
  BY <1>1, FinalityCut
<1>4. HoldsCut(Cut(more, base, f))
  BY <1>1, <1>3 DEF HoldsCut
<1>5. Cut(more, base, f).blocks = Append(c.blocks, b)
  <2>1. b \in Blocks /\ CutOK(c, h, base)
    BY FullShape, FullGrows, CutShape
  <2>2. c \in Chains /\ c.current \in MIN_DIFFICULTY .. MAX_DIFFICULTY
    BY <2>1 DEF CutOK
  <2> HIDE DEF c
  <2>3. Commit(c, b).blocks = Append(c.blocks, b)
    BY <2>1, <2>2, CommitType
  <2>4. Cut(more, base, f).blocks = Cut(more, base, finalized).blocks
    BY DEF Cut
  <2> QED BY <1>2, <2>3, <2>4
<1>6. Range(Append(c.blocks, b)) \subseteq sealed' \cup {GenesisBlock}
  <2>1. c.blocks \in Seq(Blocks) /\ b \in Blocks
    BY FullShape, FullGrows, CutShape DEF CutOK, Chains
  <2>2. Range(c.blocks) \subseteq sealed \cup {GenesisBlock}
    BY DEF HeldOK
  <2> HIDE DEF c
  <2>3. Range(Append(c.blocks, b)) = Range(c.blocks) \cup {b}
    BY <2>1, RangeAppend
  <2> QED BY <2>2, <2>3
<1>7. node' = [node EXCEPT ![n] = Cut(more, base, f)]
  BY <1>2, <1>3 DEF NodesOK
<1>8. Tips[n] = << 0 >> \o h
  <2>1. LatestHash(node[n]) = << 0 >> \o h
    BY CutShape DEF CutOK
  <2> QED BY <2>1 DEF Tips
<1>9. /\ LatestHash(Cut(more, base, f)) = Hash(b)
      /\ Hash(b) = Append(<< 0 >> \o h, gap)
  <2>1. FullOK(h) /\ FullOK(more) /\ f \in Nat
    BY <1>1, <1>3, FullShape
  <2>2. LatestHash(Cut(more, base, f)) = << 0 >> \o more
    BY <1>1, <2>1, CutShape DEF CutOK
  <2>3. << 0 >> \o more = Append(<< 0 >> \o h, gap)
    BY GapsAreNats DEF Histories
  <2>4. Hash(b) = Append(<< 0 >> \o h, gap)
    BY <2>1 DEF NextBlock, Hash, FullOK
  <2> QED BY <2>2, <2>3, <2>4
<1> HIDE DEF more, c
<1>10. NodesOK' /\ HeldOK' /\ Tips' = [Tips EXCEPT ![n] = LatestHash(Cut(more, base, f))]
  BY <1>4, <1>5, <1>6, <1>7, NodeBecomes
<1> QED BY <1>8, <1>9, <1>10 DEF Taken

LEMMA SealStep ==
    ASSUME CheckpointsInv, NEW n \in Nodes, NEW gap \in Gaps, Seal(n, gap)
    PROVE  CheckpointsInv' /\ FullNetwork!Seal(n, gap)
<1> DEFINE b == NextBlock(node[n], gap)
<1>1. NodesOK /\ HeldOK /\ SealedOK /\ Running(n) /\ HoldsCut(node[n])
  BY DEF CheckpointsInv, NodesOK, Seal
<1>2. PICK h \in Histories : \E base \in 0 .. Len(h) : \E finalized \in base .. Len(h) :
          OnBoundary(base) /\ node[n] = Cut(h, base, finalized)
  BY <1>1 DEF HoldsCut
<1>3. PICK base \in 0 .. Len(h) : \E finalized \in base .. Len(h) :
          OnBoundary(base) /\ node[n] = Cut(h, base, finalized)
  BY <1>2
<1>4. PICK finalized \in base .. Len(h) : OnBoundary(base) /\ node[n] = Cut(h, base, finalized)
  BY <1>3
<1>5. finalized \in Nat
  BY DEF Histories
<1>6. b = NextBlock(Full(h), gap)
  BY <1>4, <1>5, CutGrows
<1>7. node' = [node EXCEPT ![n] = Finality(Commit(@, b))] /\ sealed' = sealed \cup {b}
  BY DEF Seal, NextBlock
<1> HIDE DEF b
<1>8. /\ NodesOK' /\ HeldOK'
      /\ Tips[n] = << 0 >> \o h /\ Tips' = [Tips EXCEPT ![n] = Hash(b)]
      /\ Hash(b) = Append(<< 0 >> \o h, gap)
  <2>1. Taken(n, h, gap, b)
    BY <1>1, <1>4, <1>5, <1>6, <1>7, NodeCommits
  <2> QED BY <2>1 DEF Taken
<1>9. SealedOK'
  BY <1>1, <1>6, <1>7 DEF SealedOK
<1>10. Len(Tips[n]) <= MaxHeight /\ Tips[n] # <<>>
  <2>1. TipIndex(node[n]) < MaxHeight /\ TipIndex(node[n]) = Len(h)
    BY <1>4, <1>5, CutShape DEF Seal, CutOK
  <2>2. Len(<< 0 >> \o h) = Len(h) + 1 /\ Len(h) \in Nat
    BY GapsAreNats DEF Histories
  <2> QED BY <1>8, <2>1, <2>2, CheckpointsAssumption
<1>11. {Hash(a) : a \in sealed'} = {Hash(a) : a \in sealed} \cup {Append(Tips[n], gap)}
  BY <1>7, <1>8
<1>12. FullNetwork!Seal(n, gap)
  BY <1>8, <1>10, <1>11 DEF FullNetwork!Seal, FullNetwork!Nothing
<1> QED BY <1>8, <1>9, <1>12 DEF CheckpointsInv

LEMMA ReceiveStep ==
    ASSUME CheckpointsInv, NEW n \in Nodes, NEW b \in sealed, Receive(n, b)
    PROVE  CheckpointsInv' /\ FullNetwork!Receive(n, Hash(b))
<1>1. NodesOK /\ HeldOK /\ SealedOK /\ Running(n) /\ HoldsCut(node[n]) /\ Valid(node[n], b)
  BY DEF CheckpointsInv, NodesOK, Receive
<1>2. PICK h \in Histories : \E base \in 0 .. Len(h) : \E finalized \in base .. Len(h) :
          OnBoundary(base) /\ node[n] = Cut(h, base, finalized)
  BY <1>1 DEF HoldsCut
<1>3. PICK base \in 0 .. Len(h) : \E finalized \in base .. Len(h) :
          OnBoundary(base) /\ node[n] = Cut(h, base, finalized)
  BY <1>2
<1>4. PICK finalized \in base .. Len(h) : OnBoundary(base) /\ node[n] = Cut(h, base, finalized)
  BY <1>3
<1>5. finalized \in Nat
  BY DEF Histories
<1>6. PICK g \in Histories, gap \in Gaps : b = NextBlock(Full(g), gap)
  BY <1>1 DEF SealedOK
<1>7. h = g
  <2>1. b.parent = LatestHash(Full(g)) /\ b.parent = LatestHash(node[n])
    BY <1>1, <1>6 DEF NextBlock, Valid
  <2>2. LatestHash(Full(g)) = << 0 >> \o g
    BY FullShape DEF FullOK
  <2>3. LatestHash(node[n]) = << 0 >> \o h
    BY <1>4, <1>5, CutShape DEF CutOK
  <2> QED BY <2>1, <2>2, <2>3, HashTellsHistory
<1>8. node' = [node EXCEPT ![n] = Finality(Commit(@, b))] /\ sealed' = sealed
  BY DEF Receive
<1>9. /\ NodesOK' /\ HeldOK'
      /\ Tips[n] = << 0 >> \o h /\ Tips' = [Tips EXCEPT ![n] = Hash(b)]
      /\ Hash(b) = Append(<< 0 >> \o h, gap)
  <2>1. Taken(n, h, gap, b)
    BY <1>1, <1>4, <1>5, <1>6, <1>7, <1>8, NodeCommits
  <2> QED BY <2>1 DEF Taken
<1>10. SealedOK'
  BY <1>1, <1>8 DEF SealedOK
<1>11. Front(Hash(b)) = Tips[n] /\ Tips[n] # <<>>
  <2>1. << 0 >> \o h \in Seq(Nat) /\ Len(<< 0 >> \o h) = Len(h) + 1 /\ Len(h) \in Nat
    BY GapsAreNats DEF Histories
  <2>2. Front(Append(<< 0 >> \o h, gap)) = << 0 >> \o h
    BY <2>1, FrontAppend
  <2> QED BY <1>9, <2>1, <2>2
<1>12. FullNetwork!Receive(n, Hash(b))
  <2>1. {Hash(a) : a \in sealed'} = {Hash(a) : a \in sealed}
    BY <1>8
  <2>2. FullNetwork!Front(Hash(b)) = Tips[n]
    BY <1>11 DEF FullNetwork!Front, Front
  <2> QED BY <1>9, <1>11, <2>1, <2>2 DEF FullNetwork!Receive, FullNetwork!Nothing
<1> QED BY <1>9, <1>10, <1>12 DEF CheckpointsInv

\* The other chain keeps what is final here, so it starts at the same block.
LEMMA AdoptStep ==
    ASSUME CheckpointsInv, NEW n \in Nodes, NEW m \in Nodes, Adopt(n, m)
    PROVE  CheckpointsInv' /\ FullNetwork!Adopt(n, m)
<1>1. NodesOK /\ HeldOK /\ SealedOK /\ Running(m) /\ HoldsCut(node[n]) /\ HoldsCut(node[m])
  BY DEF CheckpointsInv, NodesOK, Adopt
<1>2. PICK h \in Histories : \E base \in 0 .. Len(h) : \E finalized \in base .. Len(h) :
          /\ OnBoundary(base) /\ Len(h) - FinalityDepth <= finalized
          /\ node[n] = Cut(h, base, finalized)
  BY <1>1 DEF HoldsCut
<1>3. PICK base \in 0 .. Len(h) : \E finalized \in base .. Len(h) :
          /\ OnBoundary(base) /\ Len(h) - FinalityDepth <= finalized
          /\ node[n] = Cut(h, base, finalized)
  BY <1>2
<1>4. PICK finalized \in base .. Len(h) :
          /\ OnBoundary(base) /\ Len(h) - FinalityDepth <= finalized
          /\ node[n] = Cut(h, base, finalized)
  BY <1>3
<1>5. PICK g \in Histories : \E start \in 0 .. Len(g) : \E final \in start .. Len(g) :
          OnBoundary(start) /\ node[m] = Cut(g, start, final)
  BY <1>1 DEF HoldsCut
<1>6. PICK start \in 0 .. Len(g) : \E final \in start .. Len(g) :
          OnBoundary(start) /\ node[m] = Cut(g, start, final)
  BY <1>5
<1>7. PICK final \in start .. Len(g) : OnBoundary(start) /\ node[m] = Cut(g, start, final)
  BY <1>6
<1>8. finalized \in Nat /\ final \in Nat /\ base \in Nat /\ start \in Nat /\ Len(h) \in Nat
      /\ base <= finalized /\ finalized <= Len(h) /\ 0 \in Nat
  BY DEF Histories
<1>9. start = base
  <2>1. node[n].base = node[m].base
    BY DEF Adopt
  <2> QED BY <1>4, <1>7, <2>1 DEF Cut
<1>10. CutOK(node[n], h, base) /\ CutOK(node[m], g, base)
  BY <1>4, <1>7, <1>8, <1>9, CutShape
<1>11. /\ Full(g).blocks[base + 1] = Full(h).blocks[base + 1]
       /\ Full(g).blocks[finalized + 1] = Full(h).blocks[finalized + 1]
       /\ finalized <= Len(g)
  <2> DEFINE mine == node[n].blocks
             theirs == node[m].blocks
             k == finalized - base + 1
  <2>1. IsPrefix(SubSeq(mine, 1, k), theirs)
    <3>1. node[n].base = base /\ node[n].finalized = finalized
      BY <1>4 DEF Cut
    <3> QED BY <3>1 DEF Adopt
  <2>2. mine \in Seq(Blocks) /\ theirs \in Seq(Blocks) /\ Len(mine) = Len(h) - base + 1
        /\ Len(theirs) = Len(g) - base + 1
    BY <1>10 DEF CutOK, Chains
  <2> HIDE DEF mine, theirs
  <2>3. k \in 1 .. Len(mine) /\ k \in Nat
    BY <1>8, <2>2
  <2>4. SubSeq(mine, 1, k) \in Seq(Blocks) /\ Len(SubSeq(mine, 1, k)) = k
        /\ \A i \in 1 .. k : SubSeq(mine, 1, k)[i] = mine[i]
    <3> HIDE DEF k
    <3> QED BY <2>2, <2>3
  <2>5. k <= Len(theirs) /\ \A i \in 1 .. k : mine[i] = theirs[i]
    <3> HIDE DEF k
    <3>1. k <= Len(theirs) /\ SubSeq(SubSeq(mine, 1, k), 1, k) = SubSeq(theirs, 1, k)
      BY <2>1, <2>4 DEF IsPrefix
    <3>2. ASSUME NEW i \in 1 .. k PROVE mine[i] = theirs[i]
      <4>1. SubSeq(SubSeq(mine, 1, k), 1, k)[i] = mine[i]
        BY <2>3, <2>4
      <4>2. SubSeq(theirs, 1, k)[i] = theirs[i]
        BY <2>2, <2>3, <3>1
      <4> QED BY <3>1, <4>1, <4>2
    <3> QED BY <3>1, <3>2
  <2>6. finalized <= Len(g)
    BY <1>8, <2>2, <2>5
  <2>7. ASSUME NEW height \in base .. finalized
        PROVE  Full(g).blocks[height + 1] = Full(h).blocks[height + 1]
    <3>1. height \in base .. Len(h) /\ height \in base .. Len(g)
      BY <1>8, <2>6
    <3>2. mine[height - base + 1] = Full(h).blocks[height + 1]
      <4>1. Cut(h, base, finalized).blocks[height - base + 1] = Full(h).blocks[height + 1]
        BY <1>8, <3>1, CutBlockAt
      <4> QED BY <1>4, <4>1 DEF mine
    <3>3. theirs[height - base + 1] = Full(g).blocks[height + 1]
      <4>1. base \in 0 .. Len(g)
        BY <1>9
      <4>2. Cut(g, base, final).blocks[height - base + 1] = Full(g).blocks[height + 1]
        BY <1>8, <3>1, <4>1, CutBlockAt
      <4>3. theirs = Cut(g, base, final).blocks
        BY <1>7, <1>9 DEF theirs
      <4> QED BY <4>2, <4>3
    <3>4. height - base + 1 \in 1 .. k
      BY <1>8
    <3> HIDE DEF k
    <3>5. mine[height - base + 1] = theirs[height - base + 1]
      BY <2>5, <3>4
    <3> QED BY <3>2, <3>3, <3>5
  <2>8. base \in base .. finalized /\ finalized \in base .. finalized
    BY <1>8
  <2> QED BY <2>6, <2>7, <2>8
<1> DEFINE c == [node[n] EXCEPT !.blocks = node[m].blocks]
<1>12. /\ c \in Chains /\ c.base = base /\ c.finalized = finalized
       /\ c.blocks = Cut(g, base, 0).blocks /\ c.root = Cut(g, base, 0).root
  <2>1. node[n] \in Chains /\ node[m] \in Chains
    BY <1>10 DEF CutOK
  <2>2. node[n].base = base /\ node[n].finalized = finalized
        /\ node[n].root = RootAt(Full(h).blocks[base + 1])
    BY <1>4 DEF Cut
  <2>3. node[m].blocks = Cut(g, base, 0).blocks
    BY <1>7, <1>9 DEF Cut
  <2>4. Cut(g, base, 0).root = RootAt(Full(h).blocks[base + 1])
    BY <1>11 DEF Cut
  <2> QED BY <2>1, <2>2, <2>3, <2>4 DEF Chains
<1>13. node' = [node EXCEPT ![n] = Finality(Rebuild(c))] /\ sealed' = sealed
  BY DEF Adopt
<1> HIDE DEF c
<1>14. Rebuild(c) = Cut(g, base, finalized)
  BY <1>4, <1>9, <1>12, RebuildCut
<1>15. PICK f \in base .. Len(g) :
           /\ Len(g) - FinalityDepth <= f
           /\ Finality(Cut(g, base, finalized)) = Cut(g, base, f)
  BY <1>8, <1>9, FinalityCut
<1>16. HoldsCut(Cut(g, base, f))
  BY <1>4, <1>9, <1>15 DEF HoldsCut
<1>17. Range(Cut(g, base, f).blocks) \subseteq sealed' \cup {GenesisBlock}
  <2>1. Cut(g, base, f).blocks = node[m].blocks
    BY <1>7, <1>9 DEF Cut
  <2> QED BY <1>1, <1>13, <2>1 DEF HeldOK
<1>18. NodesOK' /\ HeldOK' /\ Tips' = [Tips EXCEPT ![n] = LatestHash(Cut(g, base, f))]
  BY <1>1, <1>13, <1>14, <1>15, <1>16, <1>17, NodeBecomes
<1>19. SealedOK'
  BY <1>1, <1>13 DEF SealedOK
<1>20. Tips[n] = << 0 >> \o h /\ Tips[m] = << 0 >> \o g /\ LatestHash(Cut(g, base, f)) = Tips[m]
  <2>1. LatestHash(node[n]) = << 0 >> \o h /\ LatestHash(node[m]) = << 0 >> \o g
    BY <1>10 DEF CutOK
  <2>2. LatestHash(Cut(g, base, f)) = LatestHash(node[m])
    BY <1>7, <1>9 DEF Cut, LatestHash
  <2> QED BY <1>1, <2>1, <2>2 DEF Tips, Adopt
<1>21. /\ Len(<< 0 >> \o h) = Len(h) + 1 /\ Len(<< 0 >> \o g) = Len(g) + 1 /\ << 0 >> \o h # <<>>
       /\ Len(g) \in Nat /\ FinalityDepth \in Nat
  BY GapsAreNats, CheckpointsAssumption DEF Histories
<1>22. Len(g) >= Len(h)
  <2>1. TipIndex(node[n]) = Len(h) /\ TipIndex(node[m]) = Len(g)
    BY <1>10 DEF CutOK
  <2> QED BY <1>8, <1>21, <2>1 DEF Adopt
<1>23. ASSUME NEW i \in 1 .. Len(Tips[n]) - FinalityDepth
       PROVE  i <= Len(Tips[m]) /\ Tips[m][i] = Tips[n][i]
  <2>1. i \in 1 .. finalized + 1 /\ finalized \in 0 .. Len(h) /\ finalized \in 0 .. Len(g)
    BY <1>4, <1>8, <1>11, <1>20, <1>21
  <2>2. SubSeq(h, 1, finalized) = SubSeq(g, 1, finalized)
    <3>1. finalized \in base .. Len(h) /\ finalized \in base .. Len(g)
      BY <1>8, <1>11, <1>21
    <3>2. Hash(Full(h).blocks[finalized + 1]) = << 0 >> \o SubSeq(h, 1, finalized)
      BY <1>8, <3>1, CutBlockAt
    <3>3. Hash(Full(g).blocks[finalized + 1]) = << 0 >> \o SubSeq(g, 1, finalized)
      BY <1>8, <1>9, <3>1, CutBlockAt
    <3>4. SubSeq(h, 1, finalized) \in Histories /\ SubSeq(g, 1, finalized) \in Histories
      BY <2>1, FullPrefix
    <3> QED BY <1>11, <3>2, <3>3, <3>4, HashTellsHistory
  <2>3. (<< 0 >> \o SubSeq(h, 1, finalized))[i] = (<< 0 >> \o h)[i]
    BY <2>1, HashPart
  <2>4. (<< 0 >> \o SubSeq(g, 1, finalized))[i] = (<< 0 >> \o g)[i] /\ i <= Len(<< 0 >> \o g)
    BY <2>1, HashPart
  <2> QED BY <1>20, <2>2, <2>3, <2>4
<1>24. FullNetwork!Adopt(n, m)
  <2>1. FullNetwork!KeepsFinal(n, Tips[m])
    BY <1>23 DEF FullNetwork!KeepsFinal
  <2>2. Len(Tips[m]) >= Len(Tips[n]) /\ Tips[n] # <<>>
    BY <1>8, <1>20, <1>21, <1>22
  <2>3. {Hash(a) : a \in sealed'} = {Hash(a) : a \in sealed}
    BY <1>13
  <2> QED BY <1>18, <1>20, <2>1, <2>2, <2>3 DEF FullNetwork!Adopt, FullNetwork!Nothing
<1> QED BY <1>18, <1>19, <1>24 DEF CheckpointsInv

LEMMA JoinStep ==
    ASSUME CheckpointsInv, NEW n \in Nodes, NEW m \in Nodes, Join(n, m)
    PROVE  CheckpointsInv' /\ FullNetwork!Join(n, m)
<1>1. NodesOK /\ HeldOK /\ SealedOK /\ Running(m) /\ HoldsCut(node[m])
  BY DEF CheckpointsInv, NodesOK, Join
<1>2. PICK h \in Histories : \E base \in 0 .. Len(h) : \E finalized \in base .. Len(h) :
          OnBoundary(base) /\ node[m] = Cut(h, base, finalized)
  BY <1>1 DEF HoldsCut
<1>3. PICK base \in 0 .. Len(h) : \E finalized \in base .. Len(h) :
          OnBoundary(base) /\ node[m] = Cut(h, base, finalized)
  BY <1>2
<1>4. PICK finalized \in base .. Len(h) : OnBoundary(base) /\ node[m] = Cut(h, base, finalized)
  BY <1>3
<1> DEFINE height == Boundary(node[m])
<1>5. finalized \in Nat
  BY DEF Histories
<1>6. FromBundle(ExportBundle(node[m])) = Cut(h, height, height)
  BY <1>4, <1>5, BundleIs
<1>7. height \in base .. Len(h) /\ OnBoundary(height)
  BY <1>4, <1>5, BoundaryHeld
<1>8. node' = [node EXCEPT ![n] = Finality(FromBundle(ExportBundle(node[m])))] /\ sealed' = sealed
  BY DEF Join
<1> HIDE DEF height
<1>9. height \in 0 .. Len(h) /\ height \in Nat
  BY <1>7 DEF Histories
<1>10. PICK f \in height .. Len(h) :
           /\ Len(h) - FinalityDepth <= f
           /\ Finality(Cut(h, height, height)) = Cut(h, height, f)
  BY <1>9, FinalityCut
<1>11. HoldsCut(Cut(h, height, f))
  BY <1>7, <1>9, <1>10 DEF HoldsCut
<1>12. Range(Cut(h, height, f).blocks) \subseteq sealed' \cup {GenesisBlock}
  <2>1. f \in Nat
    BY <1>9, <1>10 DEF Histories
  <2>2. Range(Cut(h, height, f).blocks) \subseteq Range(node[m].blocks)
    BY <1>4, <1>5, <1>7, <2>1, CutBlocks
  <2> QED BY <1>1, <1>8, <2>2 DEF HeldOK
<1>13. NodesOK' /\ HeldOK' /\ Tips' = [Tips EXCEPT ![n] = LatestHash(Cut(h, height, f))]
  BY <1>1, <1>6, <1>8, <1>10, <1>11, <1>12, NodeBecomes
<1>14. SealedOK'
  BY <1>1, <1>8 DEF SealedOK
<1>15. Tips[m] = << 0 >> \o h /\ Tips[n] = <<>> /\ Tips[m] # <<>>
  <2>1. LatestHash(node[m]) = << 0 >> \o h
    BY <1>4, <1>5, CutShape DEF CutOK
  <2>2. << 0 >> \o h # <<>>
    BY GapsAreNats DEF Histories
  <2> QED BY <1>1, <2>1, <2>2 DEF Tips, Join
<1>16. LatestHash(Cut(h, height, f)) = << 0 >> \o h
  <2>1. f \in Nat
    BY <1>9, <1>10 DEF Histories
  <2> QED BY <1>9, <2>1, CutShape DEF CutOK
<1>17. FullNetwork!Join(n, m)
  <2>1. {Hash(a) : a \in sealed'} = {Hash(a) : a \in sealed}
    BY <1>8
  <2> QED BY <1>13, <1>15, <1>16, <2>1 DEF FullNetwork!Join, FullNetwork!Nothing
<1> QED BY <1>13, <1>14, <1>17 DEF CheckpointsInv

LEMMA NextCheckpoints ==
    ASSUME CheckpointsInv, [Next]_vars
    PROVE  CheckpointsInv' /\ [FullNetwork!Next]_(FullNetwork!vars)
<1>1. CASE Next
  <2>1. PICK n \in Nodes :
            \/ \E gap \in Gaps : Seal(n, gap)
            \/ \E b \in sealed : Receive(n, b)
            \/ \E m \in Nodes : Adopt(n, m) \/ Join(n, m)
    BY <1>1 DEF Next
  <2>2. ASSUME NEW gap \in Gaps, Seal(n, gap) PROVE CheckpointsInv' /\ FullNetwork!Next
    BY <2>2, SealStep DEF FullNetwork!Next
  <2>3. ASSUME NEW b \in sealed, Receive(n, b) PROVE CheckpointsInv' /\ FullNetwork!Next
    <3>1. CheckpointsInv' /\ FullNetwork!Receive(n, Hash(b))
      BY <2>3, ReceiveStep
    <3>2. Hash(b) \in {Hash(a) : a \in sealed}
      OBVIOUS
    <3> QED BY <3>1, <3>2 DEF FullNetwork!Next
  <2>4. ASSUME NEW m \in Nodes, Adopt(n, m) PROVE CheckpointsInv' /\ FullNetwork!Next
    BY <2>4, AdoptStep DEF FullNetwork!Next
  <2>5. ASSUME NEW m \in Nodes, Join(n, m) PROVE CheckpointsInv' /\ FullNetwork!Next
    BY <2>5, JoinStep DEF FullNetwork!Next
  <2> QED BY <2>1, <2>2, <2>3, <2>4, <2>5
<1>2. CASE UNCHANGED vars
  <2>1. node' = node /\ sealed' = sealed
    BY <1>2 DEF vars
  <2>2. NodesOK' /\ HeldOK' /\ SealedOK'
    BY <2>1 DEF CheckpointsInv, NodesOK, HeldOK, SealedOK, Running
  <2>3. UNCHANGED FullNetwork!vars
    BY <2>1 DEF FullNetwork!vars, Tips, Running
  <2> QED BY <2>2, <2>3 DEF CheckpointsInv
<1> QED BY <1>1, <1>2

LEMMA CheckpointsInvHolds == Spec => []CheckpointsInv
<1>1. CheckpointsInv /\ [Next]_vars => CheckpointsInv'
  BY NextCheckpoints
<1> QED BY InitCheckpoints, <1>1, PTL DEF Spec

-----------------------------------------------------------------------------
(* Theorems                                                                *)

\* What the invariant says of one node.
LEMMA RunningHolds ==
    ASSUME CheckpointsInv, NEW n \in Nodes, Running(n)
    PROVE  \E h \in Histories, base \in Nat, finalized \in Nat :
               /\ base \in 0 .. Len(h) /\ OnBoundary(base) /\ finalized \in base .. Len(h)
               /\ node[n] = Cut(h, base, finalized) /\ CutOK(node[n], h, base)
<1>1. HoldsCut(node[n])
  BY DEF CheckpointsInv, NodesOK
<1>2. ASSUME NEW h \in Histories, NEW base \in 0 .. Len(h), NEW finalized \in base .. Len(h)
      PROVE  base \in Nat /\ finalized \in Nat /\ CutOK(Cut(h, base, finalized), h, base)
  <2>1. base \in Nat /\ finalized \in Nat
    BY DEF Histories
  <2> QED BY <2>1, CutShape
<1> QED BY <1>1, <1>2 DEF HoldsCut

\* adjusted_difficulty and retarget never leave the configured bounds, and apply_finality
\* never leaves the blocks a node holds, pruned or not, so that try_adopt_chain may subtract
\* the base from the finalized height and index the blocks with the difference.
THEOREM CheckpointTypesHold == Spec => []TypeOK
<1>1. CheckpointsInv => TypeOK
  <2> SUFFICES ASSUME CheckpointsInv, NEW n \in Nodes, Running(n)
               PROVE  /\ node[n].current \in MIN_DIFFICULTY .. MAX_DIFFICULTY
                      /\ node[n].finalized \in node[n].base .. TipIndex(node[n])
                      /\ Head(node[n].blocks) \in sealed \cup {GenesisBlock}
    BY DEF TypeOK
  <2>1. PICK h \in Histories, base \in Nat, finalized \in Nat :
            /\ base \in 0 .. Len(h) /\ OnBoundary(base) /\ finalized \in base .. Len(h)
            /\ node[n] = Cut(h, base, finalized) /\ CutOK(node[n], h, base)
    BY RunningHolds
  <2>2. node[n].finalized = finalized /\ node[n].base = base
    BY <2>1 DEF Cut
  <2>3. TipIndex(node[n]) = Len(h) /\ node[n].current \in MIN_DIFFICULTY .. MAX_DIFFICULTY
    BY <2>1 DEF CutOK
  <2>4. Head(node[n].blocks) \in Range(node[n].blocks)
    <3>1. node[n].blocks \in Seq(Blocks) /\ Len(node[n].blocks) = Len(h) - base + 1
          /\ Len(h) \in Nat /\ base \in Nat /\ base <= Len(h)
      BY <2>1 DEF CutOK, Chains, Histories
    <3>2. 1 \in DOMAIN node[n].blocks /\ Head(node[n].blocks) = node[n].blocks[1]
      BY <3>1
    <3> QED BY <3>2 DEF Range
  <2>5. Range(node[n].blocks) \subseteq sealed \cup {GenesisBlock}
    BY DEF CheckpointsInv, HeldOK
  <2> QED BY <2>1, <2>2, <2>3, <2>4, <2>5
<1> QED BY <1>1, CheckpointsInvHolds, PTL

\* validate_block_candidate accepts every block that was sealed on the tip a node has: the
\* retarget and the beacon come out the same on a full node, on one that replayed its blocks
\* and on one that started from a checkpoint.
THEOREM SealedBlocksAreTaken == Spec => []SealedBlocksFit
<1>1. CheckpointsInv => SealedBlocksFit
  <2> SUFFICES ASSUME CheckpointsInv, NEW n \in Nodes, NEW b \in sealed, Running(n),
                      b.parent = LatestHash(node[n])
               PROVE  Valid(node[n], b)
    BY DEF SealedBlocksFit
  <2>1. PICK h \in Histories, base \in Nat, finalized \in Nat :
            /\ base \in 0 .. Len(h) /\ OnBoundary(base) /\ node[n] = Cut(h, base, finalized)
            /\ CutOK(node[n], h, base)
    BY RunningHolds
  <2>2. PICK g \in Histories, gap \in Gaps : b = NextBlock(Full(g), gap)
    BY DEF CheckpointsInv, SealedOK
  <2>3. LatestHash(node[n]) = << 0 >> \o h /\ LatestHash(Full(g)) = << 0 >> \o g
    BY <2>1, FullShape DEF CutOK, FullOK
  <2>4. h = g
    <3>1. b.parent = LatestHash(Full(g))
      BY <2>2 DEF NextBlock
    <3> QED BY <2>3, <3>1, HashTellsHistory
  <2>5. Valid(Cut(h, base, finalized), NextBlock(Full(h), gap))
    BY <2>1, CutGrows
  <2> QED BY <2>1, <2>2, <2>4, <2>5
<1> QED BY <1>1, CheckpointsInvHolds, PTL

\* export_bundle, from_bundle and rebuild_state agree: an importer, and a node that is
\* started again, ends with the tip, the difficulty and the beacon of the exporter.
THEOREM BundlesAreFaithful == Spec => []BundlesRestore
<1>1. CheckpointsInv => BundlesRestore
  <2> SUFFICES ASSUME CheckpointsInv, NEW n \in Nodes, Running(n),
                      NEW d, d = Rebuild(node[n]) \/ d = FromBundle(ExportBundle(node[n]))
               PROVE  /\ d # Invalid
                      /\ LatestHash(d) = LatestHash(node[n])
                      /\ d.current = node[n].current /\ d.beacon = node[n].beacon
    BY DEF BundlesRestore
  <2>1. PICK h \in Histories, base \in Nat, finalized \in Nat :
            /\ base \in 0 .. Len(h) /\ OnBoundary(base) /\ node[n] = Cut(h, base, finalized)
            /\ CutOK(node[n], h, base)
    BY RunningHolds
  <2>2. ASSUME NEW start \in 0 .. Len(h), NEW final \in Nat, d = Cut(h, start, final)
        PROVE  /\ d # Invalid
               /\ LatestHash(d) = LatestHash(node[n])
               /\ d.current = node[n].current /\ d.beacon = node[n].beacon
    <3>1. CutOK(d, h, start)
      BY <2>2, CutShape
    <3>2. d.current = node[n].current /\ d.beacon = node[n].beacon
      BY <2>1, <2>2 DEF Cut
    <3>3. d # Invalid /\ LatestHash(d) = << 0 >> \o h
      BY <3>1 DEF CutOK
    <3>4. LatestHash(node[n]) = << 0 >> \o h
      BY <2>1 DEF CutOK
    <3> QED BY <3>2, <3>3, <3>4
  <2>3. CASE d = Rebuild(node[n])
    <3>1. /\ node[n] \in Chains /\ node[n].base = base /\ node[n].finalized = finalized
          /\ node[n].blocks = Cut(h, base, 0).blocks /\ node[n].root = Cut(h, base, 0).root
      BY <2>1 DEF CutOK, Cut
    <3>2. Rebuild(node[n]) = Cut(h, base, finalized)
      BY <2>1, <3>1, RebuildCut
    <3> QED BY <2>1, <2>2, <2>3, <3>2
  <2>4. CASE d = FromBundle(ExportBundle(node[n]))
    <3> DEFINE height == Boundary(node[n])
    <3>1. FromBundle(ExportBundle(node[n])) = Cut(h, height, height)
      BY <2>1, BundleIs
    <3>2. height \in base .. Len(h)
      BY <2>1, BoundaryHeld
    <3> HIDE DEF height
    <3>3. height \in 0 .. Len(h) /\ height \in Nat
      BY <3>2 DEF Histories
    <3> QED BY <2>2, <2>4, <3>1, <3>3
  <2> QED BY <2>3, <2>4
<1> QED BY <1>1, CheckpointsInvHolds, PTL

-----------------------------------------------------------------------------
(* The network of full nodes that a network with pruned nodes looks like   *)

\* Every step of a network with pruned nodes, be it a seal, a gossiped block, a fork choice or
\* an import, is one that a network of full nodes could make: try_adopt_chain, commit_block and
\* from_bundle never lead to a tip that depends on how much of the past a node holds.
THEOREM NetworkLooksFull == Spec => ImplementsFullNetwork
<1>1. Init => FullNetwork!Init
  <2> SUFFICES ASSUME Init PROVE FullNetwork!Init
    OBVIOUS
  <2>1. LatestHash(Fresh) = << 0 >>
    <3>1. LatestHash(Full(<<>>)) = << 0 >> \o <<>> /\ Full(<<>>) = Fresh
      BY FreshOK DEF FullOK
    <3>2. << 0 >> \o <<>> = << 0 >>
      BY GapsAreNats
    <3> QED BY <3>1, <3>2
  <2>2. Fresh # Absent
    BY DEF Fresh, Absent
  <2>3. node = [n \in Nodes |-> IF n \in Founders THEN Fresh ELSE Absent] /\ sealed = {}
    BY DEF Init, Fresh
  <2>4. Tips = [n \in Nodes |-> IF n \in Founders THEN << 0 >> ELSE <<>>]
    BY <2>1, <2>2, <2>3 DEF Tips, Running
  <2>5. {Hash(b) : b \in sealed} = {}
    BY <2>3
  <2> QED BY <2>4, <2>5 DEF FullNetwork!Init, FullNetwork!Genesis, FullNetwork!Nothing
<1>2. CheckpointsInv /\ [Next]_vars => [FullNetwork!Next]_(FullNetwork!vars)
  BY NextCheckpoints
<1> QED BY <1>1, <1>2, CheckpointsInvHolds, PTL DEF Spec, FullNetwork!Spec, ImplementsFullNetwork

\* What the full network keeps, beside its promise.
ChainsAreLists ==
    /\ Tips \in [Nodes -> Seq(Nat)]
    /\ {Hash(b) : b \in sealed} \subseteq Seq(Nat)

\* A step of the full network: one node gets a chain, which was sealed and keeps what is deep.
LEMMA FullStep ==
    ASSUME ChainsAreLists, FullNetwork!PastWasSealed, FullNetwork!Next
    PROVE  /\ ChainsAreLists' /\ FullNetwork!PastWasSealed'
           /\ \A n \in Nodes : Len(Tips'[n]) >= Len(Tips[n]) /\ FullNetwork!KeepsFinal(n, Tips'[n])
<1> DEFINE chains == {Hash(b) : b \in sealed}
           more == {Hash(b) : b \in sealed'}
<1>1. FinalityDepth \in Nat /\ Gaps \subseteq Nat /\ << 0 >> \in Seq(Nat) /\ <<>> \in Seq(Nat)
  BY GapsAreNats, CheckpointsAssumption
<1>2. /\ Tips \in [Nodes -> Seq(Nat)] /\ chains \subseteq Seq(Nat)
      /\ \A n \in Nodes : Tips[n] \in chains \cup {<<>>, << 0 >>}
      /\ \A chain \in chains : Front(chain) \in chains \cup {<< 0 >>}
  BY DEF ChainsAreLists, FullNetwork!PastWasSealed, FullNetwork!Nothing, FullNetwork!Genesis,
         FullNetwork!Front, Front
<1> DEFINE Deep(n, chain) ==
               /\ Len(chain) >= Len(Tips[n])
               /\ \A i \in 1 .. Len(Tips[n]) - FinalityDepth :
                      i <= Len(chain) /\ chain[i] = Tips[n][i]
<1> SUFFICES \E n \in Nodes : \E chain \in Seq(Nat) :
                 /\ Tips' = [Tips EXCEPT ![n] = chain]
                 /\ chain \in more \cup {<<>>, << 0 >>} /\ chains \subseteq more
                 /\ more \subseteq Seq(Nat)
                 /\ \A c \in more : Front(c) \in more \cup {<< 0 >>}
                 /\ Deep(n, chain)
  <2>1. PICK n \in Nodes, chain \in Seq(Nat) :
            /\ Tips' = [Tips EXCEPT ![n] = chain]
            /\ chain \in more \cup {<<>>, << 0 >>} /\ chains \subseteq more
            /\ more \subseteq Seq(Nat)
            /\ \A c \in more : Front(c) \in more \cup {<< 0 >>}
            /\ Deep(n, chain)
    OBVIOUS
  <2> HIDE DEF chains, more
  <2>2. /\ Tips' \in [Nodes -> Seq(Nat)]
        /\ \A k \in Nodes : Tips'[k] = IF k = n THEN chain ELSE Tips[k]
    BY <1>2, <2>1
  <2>3. \A k \in Nodes : Tips'[k] \in more \cup {<<>>, << 0 >>}
    BY <1>2, <2>1, <2>2
  <2>4. ASSUME NEW k \in Nodes PROVE Deep(k, Tips'[k])
    <3>1. CASE k = n
      BY <2>1, <2>2, <3>1
    <3>2. CASE k # n
      <4>1. Tips'[k] = Tips[k] /\ Len(Tips[k]) \in Nat
        BY <1>2, <2>2, <3>2
      <4> QED BY <1>1, <4>1
    <3> QED BY <3>1, <3>2
  <2> QED BY <2>1, <2>2, <2>3, <2>4
          DEF ChainsAreLists, FullNetwork!PastWasSealed, FullNetwork!Nothing, FullNetwork!Genesis,
              FullNetwork!Front, Front, FullNetwork!KeepsFinal, more
<1>3. ASSUME NEW chain \in Seq(Nat), NEW n \in Nodes, Front(chain) = Tips[n], Tips[n] # <<>>
      PROVE  Deep(n, chain)
  <2>1. Tips[n] \in Seq(Nat) /\ Len(Tips[n]) \in Nat /\ Len(Tips[n]) > 0 /\ Len(chain) \in Nat
    BY <1>2, <1>3
  <2>2. SubSeq(chain, 1, Len(chain) - 1) = Tips[n]
    BY <1>3 DEF Front
  <2>3. Len(chain) = Len(Tips[n]) + 1
    BY <2>1, <2>2
  <2>4. \A i \in 1 .. Len(Tips[n]) : Tips[n][i] = chain[i]
    BY <2>1, <2>2, <2>3
  <2>5. \A i \in 1 .. Len(Tips[n]) - FinalityDepth : i \in 1 .. Len(Tips[n]) /\ i <= Len(chain)
    BY <1>1, <2>1, <2>3
  <2>6. Len(chain) >= Len(Tips[n])
    BY <2>1, <2>3
  <2> QED BY <2>4, <2>5, <2>6
<1>4. CASE \E n \in Nodes, gap \in Gaps : FullNetwork!Seal(n, gap)
  <2>1. PICK n \in Nodes, gap \in Gaps : FullNetwork!Seal(n, gap)
    BY <1>4
  <2> DEFINE chain == Append(Tips[n], gap)
  <2>2. /\ Tips[n] # <<>> /\ Tips' = [Tips EXCEPT ![n] = chain]
        /\ more = chains \cup {chain}
    BY <1>2, <2>1 DEF FullNetwork!Seal, FullNetwork!Nothing
  <2>3. Tips[n] \in Seq(Nat) /\ gap \in Nat /\ chain \in Seq(Nat)
    BY <1>1, <1>2
  <2>4. Front(chain) = Tips[n]
    BY <2>3, FrontAppend
  <2> HIDE DEF chain, chains, more
  <2>5. Deep(n, chain)
    BY <1>3, <2>2, <2>3, <2>4
  <2>6. \A c \in more : Front(c) \in more \cup {<< 0 >>}
    BY <1>2, <2>2, <2>4
  <2>7. more \subseteq Seq(Nat)
    BY <1>2, <2>2, <2>3
  <2> HIDE DEF Deep
  <2> QED BY <2>2, <2>3, <2>5, <2>6, <2>7
<1>5. CASE \E n \in Nodes, chain \in chains : FullNetwork!Receive(n, chain)
  <2>1. PICK n \in Nodes, chain \in chains : FullNetwork!Receive(n, chain)
    BY <1>5
  <2>2. /\ Tips[n] # <<>> /\ Tips' = [Tips EXCEPT ![n] = chain] /\ more = chains
        /\ Front(chain) = Tips[n] /\ chain \in Seq(Nat)
    BY <1>2, <2>1 DEF FullNetwork!Receive, FullNetwork!Nothing, FullNetwork!Front, Front
  <2> HIDE DEF chains, more
  <2>3. Deep(n, chain)
    BY <1>3, <2>2
  <2> HIDE DEF Deep
  <2> QED BY <1>2, <2>2, <2>3
<1>6. CASE \E n \in Nodes, m \in Nodes : FullNetwork!Adopt(n, m) \/ FullNetwork!Join(n, m)
  <2>1. PICK n \in Nodes, m \in Nodes : FullNetwork!Adopt(n, m) \/ FullNetwork!Join(n, m)
    BY <1>6
  <2>2. Tips' = [Tips EXCEPT ![n] = Tips[m]] /\ more = chains
    BY <2>1 DEF FullNetwork!Adopt, FullNetwork!Join
  <2> HIDE DEF chains, more
  <2>3. Deep(n, Tips[m])
    <3>1. CASE FullNetwork!Adopt(n, m)
      BY <3>1 DEF FullNetwork!Adopt, FullNetwork!KeepsFinal
    <3>2. CASE FullNetwork!Join(n, m)
      <4>1. Tips[n] = <<>> /\ Len(Tips[m]) \in Nat
        BY <1>2, <3>2 DEF FullNetwork!Join, FullNetwork!Nothing
      <4>2. 1 .. Len(<<>>) - FinalityDepth = {} /\ Len(<<>>) = 0
        BY <1>1
      <4> QED BY <4>1, <4>2
    <3> QED BY <2>1, <3>1, <3>2
  <2> HIDE DEF Deep
  <2> QED BY <1>2, <2>2, <2>3
<1> HIDE DEF Deep
<1> QED BY <1>4, <1>5, <1>6 DEF FullNetwork!Next

\* In a network of full nodes every chain that a node is on can be walked back to genesis over
\* blocks that were sealed, and a fork never replaces a block that is FinalityDepth deep.
THEOREM FullNetworkIsSound ==
    FullNetwork!Spec => []FullNetwork!PastWasSealed /\ FullNetwork!DeepBlocksStay
<1>1. FullNetwork!Init => ChainsAreLists /\ FullNetwork!PastWasSealed
  <2> SUFFICES ASSUME FullNetwork!Init PROVE ChainsAreLists /\ FullNetwork!PastWasSealed
    OBVIOUS
  <2>1. /\ Tips = [n \in Nodes |-> IF n \in Founders THEN << 0 >> ELSE <<>>]
        /\ {Hash(b) : b \in sealed} = {}
    BY DEF FullNetwork!Init, FullNetwork!Genesis, FullNetwork!Nothing
  <2>2. << 0 >> \in Seq(Nat) /\ <<>> \in Seq(Nat)
    BY GapsAreNats
  <2>3. \A n \in Nodes : Tips[n] \in {<<>>, << 0 >>}
    BY <2>1
  <2> QED BY <2>1, <2>2, <2>3
          DEF ChainsAreLists, FullNetwork!PastWasSealed, FullNetwork!Nothing, FullNetwork!Genesis
<1>2. ChainsAreLists /\ FullNetwork!PastWasSealed /\ [FullNetwork!Next]_(FullNetwork!vars) =>
          /\ ChainsAreLists' /\ FullNetwork!PastWasSealed'
          /\ [FullNetwork!DeepKept]_(FullNetwork!vars)
  <2> SUFFICES ASSUME ChainsAreLists, FullNetwork!PastWasSealed,
                      [FullNetwork!Next]_(FullNetwork!vars)
               PROVE  /\ ChainsAreLists' /\ FullNetwork!PastWasSealed'
                      /\ [FullNetwork!DeepKept]_(FullNetwork!vars)
    OBVIOUS
  <2>1. CASE FullNetwork!Next
    BY <2>1, FullStep DEF FullNetwork!DeepKept
  <2>2. CASE UNCHANGED FullNetwork!vars
    <3>1. Tips' = Tips /\ {Hash(b) : b \in sealed}' = {Hash(b) : b \in sealed}
      BY <2>2 DEF FullNetwork!vars
    <3>2. ChainsAreLists' /\ FullNetwork!PastWasSealed'
      BY <3>1 DEF ChainsAreLists, FullNetwork!PastWasSealed, FullNetwork!Nothing,
                  FullNetwork!Genesis, FullNetwork!Front
    <3> QED BY <2>2, <3>2
  <2> QED BY <2>1, <2>2
<1> QED BY <1>1, <1>2, PTL DEF FullNetwork!Spec, FullNetwork!DeepBlocksStay

\* Pruned nodes keep what full nodes keep: blocks that are FinalityDepth deep stay (the loop over
\* finalized_local in try_adopt_chain), also those below the checkpoint of a pruned node, and what
\* lies below it was sealed.
THEOREM PrunedNetworkIsSound == Spec => []FullNetwork!PastWasSealed /\ FullNetwork!DeepBlocksStay
BY NetworkLooksFull, FullNetworkIsSound DEF ImplementsFullNetwork
=============================================================================
