--------------------------- MODULE RotationProofs ---------------------------
(***************************************************************************)
(* Proofs about leader rotation, for any validators and clocks, every slot *)
(* timeout, number of rounds and tolerance, and every selection of leaders.*)
(***************************************************************************)
EXTENDS LeaderRotation, FiniteSetTheorems, WellFoundedInduction, TLAPS

-----------------------------------------------------------------------------
(* Smallest and largest elements                                           *)

LEMMA Least ==
    ASSUME NEW S \in SUBSET Nat, S # {}
    PROVE  \E m \in S : \A k \in S : m <= k
<1>1. \E m \in S : \A k \in S : <<k, m>> \notin OpToRel(<, Nat)
  BY NatLessThanWellFounded, WFMin
<1>2. PICK m \in S : \A k \in S : <<k, m>> \notin OpToRel(<, Nat)
  BY <1>1
<1>3. OpToRel(<, Nat) = {p \in Nat \X Nat : p[1] < p[2]}
  BY DEF OpToRel
<1>4. ASSUME NEW k \in S PROVE m <= k
  <2>1. ~(k < m)
    BY <1>2, <1>3
  <2> QED BY <2>1
<1> QED BY <1>4

LEMMA MinOf ==
    ASSUME NEW S \in SUBSET Nat, S # {}
    PROVE  Min(S) \in S /\ \A k \in S : Min(S) <= k
BY Least DEF Min

\* By the size of the set: the smallest set without a largest element loses one
\* of its elements.
LEMMA Largest ==
    ASSUME NEW S \in SUBSET Int, IsFiniteSet(S), S # {}
    PROVE  \E m \in S : \A k \in S : m >= k
<1> DEFINE HasLargest(T) == \E m \in T : \A k \in T : m >= k
           Bad(T) == T \in SUBSET Int /\ IsFiniteSet(T) /\ T # {} /\ ~HasLargest(T)
           Sizes == {c \in Nat : \E T \in SUBSET Int : Bad(T) /\ Cardinality(T) = c}
<1> SUFFICES ASSUME Bad(S) PROVE FALSE
  OBVIOUS
<1>1. Cardinality(S) \in Sizes
  BY FS_CardinalityType
<1>2. PICK c \in Sizes : \A k \in Sizes : c <= k
  <2>1. Sizes \in SUBSET Nat /\ Sizes # {}
    BY <1>1
  <2> HIDE DEF Sizes
  <2> QED BY <2>1, Least
<1>3. PICK T \in SUBSET Int : Bad(T) /\ Cardinality(T) = c
  BY <1>2
<1>4. PICK x \in T : TRUE
  BY <1>3
<1> DEFINE U == T \ {x}
<1>5. U \in SUBSET Int /\ IsFiniteSet(U) /\ Cardinality(U) = c - 1
  BY <1>3, <1>4, FS_RemoveElement
<1>6. c - 1 < c /\ c \in Nat /\ Cardinality(U) \in Nat
  BY <1>2, <1>5, FS_CardinalityType
<1>7. ~Bad(U)
  BY <1>2, <1>5, <1>6
<1>8. CASE U = {}
  <2>1. \A k \in T : x >= k
    BY <1>8
  <2> QED BY <1>3, <2>1
<1>9. CASE HasLargest(U)
  <2>1. PICK m \in U : \A k \in U : m >= k
    BY <1>9
  <2>2. CASE m >= x
    <3>1. \A k \in T : m >= k
      BY <2>1, <2>2
    <3> QED BY <1>3, <2>1, <3>1
  <2>3. CASE x >= m
    <3>1. \A k \in T : x >= k
      BY <1>5, <2>1, <2>3
    <3> QED BY <1>3, <3>1
  <2> QED BY <1>5, <2>1, <2>2, <2>3
<1> QED BY <1>5, <1>7, <1>8, <1>9

LEMMA MaxOf ==
    ASSUME NEW S \in SUBSET Int, IsFiniteSet(S), S # {}
    PROVE  Max(S) \in S /\ \A k \in S : Max(S) >= k
BY Largest DEF Max

LEMMA MinOfTwo ==
    ASSUME NEW a \in Int, NEW b \in Int
    PROVE  /\ Min({a, b}) \in Int
           /\ Min({a, b}) <= a /\ Min({a, b}) <= b
           /\ Min({a, b}) = a \/ Min({a, b}) = b
<1>1. \E x \in {a, b} : \A y \in {a, b} : x =< y
  OBVIOUS
<1>2. Min({a, b}) \in {a, b} /\ \A y \in {a, b} : Min({a, b}) =< y
  BY <1>1 DEF Min
<1> QED BY <1>2

-----------------------------------------------------------------------------
(* Rounds and time                                                         *)

\* At OldAge every round is open on every clock, however late a block is stamped.
LEMMA OldAgeOpensAll ==
    /\ OldAge \in Nat
    /\ \A n \in Nodes : OldAge + Skew[n] - MaxWork >= MAX_SLOT_ROUNDS * SLOT_TIMEOUT
    /\ OldAge >= MAX_SLOT_ROUNDS * SLOT_TIMEOUT
    /\ \A n \in Nodes : OldAge >= MaxWork - Skew[n]
<1> DEFINE S == {0} \cup {-Skew[n] : n \in Nodes}
<1>1. S \in SUBSET Int /\ S # {}
  BY RotationAssumption
<1>2. IsFiniteSet(S)
  <2>1. IsFiniteSet({-Skew[n] : n \in Nodes})
    <3> DEFINE f == [n \in Nodes |-> -Skew[n]]
    <3>1. f \in Surjection(Nodes, {-Skew[n] : n \in Nodes})
      BY DEF Surjection
    <3> QED BY <3>1, RotationAssumption, FS_Surjection
  <2> QED BY <2>1, FS_AddElement
<1>3. Max(S) \in Int /\ Max(S) >= 0 /\ \A n \in Nodes : Max(S) >= -Skew[n]
  BY <1>1, <1>2, MaxOf
<1>4. MAX_SLOT_ROUNDS * SLOT_TIMEOUT \in Nat
  BY RotationAssumption
<1>5. OldAge = MAX_SLOT_ROUNDS * SLOT_TIMEOUT + MaxWork + Max(S)
  BY DEF OldAge
<1> DEFINE p == MAX_SLOT_ROUNDS * SLOT_TIMEOUT
           x == Max(S)
<1>6. p \in Nat /\ x \in Nat /\ OldAge = p + MaxWork + x /\ \A n \in Nodes : x >= -Skew[n]
  BY <1>3, <1>4, <1>5
<1> HIDE DEF p, x
<1>7. /\ OldAge \in Nat
      /\ \A n \in Nodes : OldAge + Skew[n] - MaxWork >= p
      /\ OldAge >= p
      /\ \A n \in Nodes : OldAge >= MaxWork - Skew[n]
  BY <1>6, RotationAssumption
<1> QED BY <1>7 DEF p

\* Round r is open iff r timeouts have passed.
LEMMA RoundOpen ==
    ASSUME NEW r \in Rounds, NEW e \in Int
    PROVE  r \in 0 .. OpenRounds(e) <=> (r = 0 \/ r * SLOT_TIMEOUT <= e)
<1> DEFINE q == e \div SLOT_TIMEOUT
           m == e % SLOT_TIMEOUT
<1>1. SLOT_TIMEOUT \in Nat /\ SLOT_TIMEOUT > 0 /\ MAX_SLOT_ROUNDS \in Nat /\ r \in Nat /\ r <= MAX_SLOT_ROUNDS
  BY RotationAssumption DEF Rounds
<1>2. q \in Int /\ m \in 0 .. SLOT_TIMEOUT - 1 /\ e = SLOT_TIMEOUT * q + m
  BY <1>1
<1>3. r * SLOT_TIMEOUT >= 0
  BY <1>1
<1>4. CASE e <= 0
  <2>1. OpenRounds(e) = 0
    BY <1>4 DEF OpenRounds
  <2>2. r # 0 => r * SLOT_TIMEOUT >= SLOT_TIMEOUT
    BY <1>1
  <2> QED BY <1>1, <1>4, <2>1, <2>2
<1>5. CASE e > 0
  <2>1. OpenRounds(e) = Min({q, MAX_SLOT_ROUNDS})
    BY <1>5 DEF OpenRounds
  <2>2. q >= 0
    BY <1>1, <1>2, <1>5
  <2> HIDE DEF q, m
  <2>3. (Min({q, MAX_SLOT_ROUNDS}) = q \/ Min({q, MAX_SLOT_ROUNDS}) = MAX_SLOT_ROUNDS) /\ Min({q, MAX_SLOT_ROUNDS}) <= q
    BY <1>1, <1>2, MinOfTwo
  <2>4. r \in 0 .. OpenRounds(e) <=> r <= q
    BY <1>1, <1>2, <2>1, <2>2, <2>3
  <2>5. r <= q => r * SLOT_TIMEOUT <= e
    <3>1. r <= q => r * SLOT_TIMEOUT <= q * SLOT_TIMEOUT
      BY <1>1, <1>2
    <3> QED BY <1>1, <1>2, <3>1
  <2>6. r > q => r * SLOT_TIMEOUT > e
    <3>1. r > q => r * SLOT_TIMEOUT >= (q + 1) * SLOT_TIMEOUT
      BY <1>1, <1>2
    <3>2. (q + 1) * SLOT_TIMEOUT = SLOT_TIMEOUT * q + SLOT_TIMEOUT
      BY <1>1, <1>2
    <3> QED BY <1>1, <1>2, <3>1, <3>2
  <2>7. r = 0 => r <= q
    BY <2>2
  <2> QED BY <1>1, <1>2, <2>4, <2>5, <2>6, <2>7
<1> QED BY <1>4, <1>5

-----------------------------------------------------------------------------
(* Turns                                                                   *)

Types ==
    /\ Sealed \subseteq Seq(Block) /\ <<>> \in Sealed
    /\ chain \in [Nodes -> Sealed]
    /\ age \in [Sealed -> Int] /\ \A c \in Sealed : age[c] <= OldAge
    /\ DOMAIN draw = Sealed
    /\ plan \in [Nodes -> [on : Sealed, by : Validators \cup {"nobody"}, round : Rounds,
                           busy : -1 .. MaxWork]]

\* v leads round r on top of c, and no round before it.
FirstTurn(c, v, r) ==
    /\ r \in DOMAIN draw[c] /\ draw[c][r] = v
    /\ \A k \in 0 .. r - 1 : ~(k \in DOMAIN draw[c] /\ draw[c][k] = v)

LEMMA OpenRoundsType ==
    ASSUME NEW e \in Int
    PROVE  OpenRounds(e) \in Rounds
<1>1. SLOT_TIMEOUT \in Nat /\ SLOT_TIMEOUT > 0 /\ MAX_SLOT_ROUNDS \in Nat
  BY RotationAssumption
<1> DEFINE q == e \div SLOT_TIMEOUT
<1>2. q \in Int /\ (e > 0 => q >= 0)
  BY <1>1
<1> HIDE DEF q
<1>3. (Min({q, MAX_SLOT_ROUNDS}) = q \/ Min({q, MAX_SLOT_ROUNDS}) = MAX_SLOT_ROUNDS) /\ Min({q, MAX_SLOT_ROUNDS}) <= MAX_SLOT_ROUNDS
  <2>1. q \in Int /\ MAX_SLOT_ROUNDS \in Int
    BY <1>1, <1>2
  <2> QED BY <2>1, MinOfTwo
<1>4. OpenRounds(e) = IF e <= 0 THEN 0 ELSE Min({q, MAX_SLOT_ROUNDS})
  BY DEF OpenRounds, q
<1> QED BY <1>1, <1>2, <1>3, <1>4 DEF Rounds

\* The slot of v is the first round that draws it, and it is open.
LEMMA SlotFirst ==
    ASSUME NEW c, NEW v, NEW e \in Int, Turns(c, v, e) # {}
    PROVE  /\ SlotOf(c, v, e) \in Rounds
           /\ SlotOf(c, v, e) \in 0 .. OpenRounds(e)
           /\ FirstTurn(c, v, SlotOf(c, v, e))
<1>1. OpenRounds(e) \in Nat /\ OpenRounds(e) <= MAX_SLOT_ROUNDS /\ MAX_SLOT_ROUNDS \in Nat
  BY OpenRoundsType, RotationAssumption DEF Rounds
<1>2. Turns(c, v, e) \in SUBSET Nat
  BY <1>1 DEF Turns
<1>3. /\ SlotOf(c, v, e) \in Turns(c, v, e)
      /\ \A k \in Turns(c, v, e) : SlotOf(c, v, e) <= k
  BY <1>2, MinOf DEF SlotOf
<1> DEFINE r == SlotOf(c, v, e)
<1> HIDE DEF r
<1>4. r \in 0 .. OpenRounds(e) /\ r \in DOMAIN draw[c] /\ draw[c][r] = v
  BY <1>3 DEF Turns, r
<1>5. ASSUME NEW k \in 0 .. r - 1, k \in DOMAIN draw[c], draw[c][k] = v
      PROVE  FALSE
  <2>1. k \in 0 .. OpenRounds(e) /\ k < r
    BY <1>1, <1>4
  <2>2. k \in Turns(c, v, e)
    BY <1>5, <2>1 DEF Turns
  <2> QED BY <1>1, <1>3, <1>4, <2>1, <2>2 DEF r
<1> QED BY <1>1, <1>4, <1>5 DEF FirstTurn, Rounds, r

\* The other way round: the first round that draws v is its slot once it is open.
LEMMA FirstIsSlot ==
    ASSUME NEW c, NEW v, NEW e \in Int, NEW r \in Rounds, FirstTurn(c, v, r),
           r \in 0 .. OpenRounds(e)
    PROVE  Turns(c, v, e) # {} /\ SlotOf(c, v, e) = r
<1>1. r \in Turns(c, v, e)
  BY DEF Turns, FirstTurn
<1>2. SlotOf(c, v, e) \in Rounds /\ FirstTurn(c, v, SlotOf(c, v, e))
  BY <1>1, SlotFirst
<1> DEFINE q == SlotOf(c, v, e)
<1> HIDE DEF q
<1>3. q \in Nat /\ r \in Nat /\ FirstTurn(c, v, q)
  BY <1>2, RotationAssumption DEF Rounds, q
<1>4. ~(q < r) /\ ~(r < q)
  BY <1>3 DEF FirstTurn
<1> QED BY <1>1, <1>3, <1>4 DEF q

\* A valid block for a fallback round has let its timeouts pass.
LEMMA ValidPatience ==
    ASSUME NEW c, NEW b \in Block, ValidOn(c, b)
    PROVE  b.round = 0 \/ b.round * SLOT_TIMEOUT <= b.elapsed
<1>1. b.elapsed \in Int /\ b.round \in Rounds
  BY DEF Block
<1>2. b.round \in 0 .. OpenRounds(b.elapsed)
  BY <1>1, SlotFirst DEF ValidOn
<1> QED BY <1>1, <1>2, RoundOpen

-----------------------------------------------------------------------------
(* Sealed chains                                                           *)

LEMMA OneMore ==
    ASSUME NEW c \in Seq(Block), NEW b \in Block
    PROVE  /\ Append(c, b) \in Seq(Block) /\ Append(c, b) # <<>>
           /\ Len(Append(c, b)) = Len(c) + 1
           /\ Front(Append(c, b)) = c /\ Last(Append(c, b)) = b
<1>1. Append(c, b) \in Seq(Block) /\ Len(Append(c, b)) = Len(c) + 1
  OBVIOUS
<1>2. Last(Append(c, b)) = b
  BY <1>1 DEF Last
<1>3. SubSeq(Append(c, b), 1, Len(c)) = c
  OBVIOUS
<1> QED BY <1>1, <1>2, <1>3 DEF Front

LEMMA LastBlock ==
    ASSUME NEW c \in Seq(Block), c # <<>>
    PROVE  /\ Len(c) \in Nat /\ Len(c) > 0 /\ Last(c) = c[Len(c)] /\ Last(c) \in Block
           /\ Front(c) = SubSeq(c, 1, Len(c) - 1)
           /\ Len(Front(c)) = Len(c) - 1
<1>1. Len(c) \in Nat /\ Len(c) > 0
  OBVIOUS
<1>2. Len(SubSeq(c, 1, Len(c) - 1)) = Len(c) - 1
  <2>1. \A k \in 0 .. Len(c) : Len(SubSeq(c, 1, k)) = k
    OBVIOUS
  <2>2. Len(c) - 1 \in 0 .. Len(c)
    BY <1>1
  <2> QED BY <2>1, <2>2
<1>3. c[Len(c)] \in Block
  BY <1>1
<1> QED BY <1>1, <1>2, <1>3 DEF Last, Front

\* The ages of two blocks are apart what the timestamps say, as long as the
\* older one is not past counting.
Ages ==
    \A c \in Sealed : c # <<>> =>
        /\ Front(c) \in Sealed
        /\ age[Front(c)] >= age[c] + Last(c).elapsed \/ age[Front(c)] = OldAge

\* A node is never below a block it sealed itself, so it seals no chain twice.
OwnBelowTip ==
    \A n \in Nodes : \A c \in Sealed :
        c # <<>> /\ Last(c).by \in Producers[n] => Len(c) <= Len(chain[n])

\* The slot n works on is the first turn of its producer, and it was open, by
\* n's clock, when the work began.
Planned(n) ==
    plan[n] # NoPlan =>
        /\ plan[n].by \in Producers[n]
        /\ FirstTurn(plan[n].on, plan[n].by, plan[n].round)
        /\ plan[n].busy \in 0 .. MaxWork
        /\ \/ plan[n].round = 0
           \/ plan[n].round * SLOT_TIMEOUT <= age[plan[n].on] + Skew[n] - plan[n].busy
           \/ age[plan[n].on] = OldAge

Inv == Types /\ Ages /\ OwnBelowTip /\ \A n \in Nodes : Planned(n)

-----------------------------------------------------------------------------
(* Steps                                                                   *)

\* What Inv says of a node that works on a block does not change with the other
\* nodes.
LEMMA PlannedKept ==
    ASSUME NEW n \in Nodes, Planned(n), plan'[n] = plan[n],
           age'[plan[n].on] = age[plan[n].on], draw'[plan[n].on] = draw[plan[n].on]
    PROVE  Planned(n)'
BY DEF Planned, FirstTurn

\* One node moves to a chain that is sealed and not shorter.
LEMMA SwitchStep ==
    ASSUME Inv, NEW n \in Nodes, NEW c \in Sealed, Len(c) >= Len(chain[n]),
           chain' = [chain EXCEPT ![n] = c], UNCHANGED <<plan, age, draw>>
    PROVE  Inv'
<1>1. Types'
  BY DEF Inv, Types, Sealed
<1>2. Ages'
  BY DEF Inv, Ages, Sealed
<1>3. \A m \in Nodes : Len(chain'[m]) >= Len(chain[m]) /\ Len(chain'[m]) \in Nat /\ Len(chain[m]) \in Nat
  BY DEF Inv, Types
<1>4. OwnBelowTip'
  <2> SUFFICES ASSUME NEW m \in Nodes, NEW d \in Sealed, d # <<>>, Last(d).by \in Producers[m]
               PROVE  Len(d) <= Len(chain'[m])
    BY DEF OwnBelowTip, Sealed
  <2>1. Len(d) <= Len(chain[m]) /\ Len(d) \in Nat
    BY DEF Inv, OwnBelowTip, Types
  <2> QED BY <1>3, <2>1
<1>5. \A m \in Nodes : Planned(m)'
  BY PlannedKept DEF Inv
<1> QED BY <1>1, <1>2, <1>4, <1>5 DEF Inv

LEMMA TickStep ==
    ASSUME Inv, Tick
    PROVE  Inv'
<1>1. OldAge \in Nat /\ MaxWork \in Nat
  BY OldAgeOpensAll, RotationAssumption
<1>2. \A c \in Sealed : age[c] \in Int /\ age[c] <= OldAge
  BY DEF Inv, Types
\* An age grows by one, or not any more.
<1>3. ASSUME NEW c \in Sealed
      PROVE  /\ Min({age[c] + 1, OldAge}) \in Int
             /\ Min({age[c] + 1, OldAge}) <= OldAge /\ Min({age[c] + 1, OldAge}) <= age[c] + 1
             /\ Min({age[c] + 1, OldAge}) = age[c] + 1 \/ Min({age[c] + 1, OldAge}) = OldAge
  <2> DEFINE a == age[c] + 1
  <2>1. a \in Int /\ OldAge \in Int
    BY <1>1, <1>2
  <2> HIDE DEF a
  <2>2. /\ Min({a, OldAge}) \in Int
        /\ Min({a, OldAge}) <= OldAge /\ Min({a, OldAge}) <= a
        /\ Min({a, OldAge}) = a \/ Min({a, OldAge}) = OldAge
    BY <2>1, MinOfTwo
  <2> QED BY <2>2 DEF a
<1>4. /\ Sealed' = Sealed /\ age' \in [Sealed -> Int]
      /\ \A c \in Sealed : /\ age'[c] <= OldAge /\ age'[c] <= age[c] + 1
                           /\ age'[c] = age[c] + 1 \/ age'[c] = OldAge
  <2> DEFINE f == [c \in Sealed |-> Min({age[c] + 1, OldAge})]
  <2>1. age' = f
    BY DEF Tick
  <2>2. f \in [Sealed -> Int]
    BY <1>3
  <2>3. \A c \in Sealed : f[c] = Min({age[c] + 1, OldAge})
    OBVIOUS
  <2> HIDE DEF f
  <2>4. Sealed' = DOMAIN f
    BY <2>1 DEF Sealed
  <2> QED BY <1>3, <2>1, <2>2, <2>3, <2>4
<1>5. \A n \in Nodes : plan'[n] = IF plan[n] = NoPlan THEN NoPlan
                                  ELSE [plan[n] EXCEPT !.busy = @ + 1]
  BY DEF Tick
<1>6. Types'
  <2>1. plan' \in [Nodes -> [on : Sealed, by : Validators \cup {"nobody"}, round : Rounds,
                             busy : -1 .. MaxWork]]
    <3> DEFINE P == [on : Sealed, by : Validators \cup {"nobody"}, round : Rounds,
                     busy : -1 .. MaxWork]
    <3>1. ASSUME NEW n \in Nodes
          PROVE  (IF plan[n] = NoPlan THEN NoPlan ELSE [plan[n] EXCEPT !.busy = @ + 1]) \in P
      <4>1. plan[n] \in P /\ plan[n].busy < MaxWork
        BY DEF Inv, Types, Tick
      <4>2. plan[n].busy + 1 \in -1 .. MaxWork
        BY <1>1, <4>1
      <4>3. [plan[n] EXCEPT !.busy = @ + 1] \in P
        BY <4>1, <4>2
      <4> QED BY <4>1, <4>3
    <3> QED BY <3>1 DEF Tick
  <2>2. DOMAIN draw' = Sealed /\ chain' = chain
    BY DEF Tick, Inv, Types
  <2> QED BY <1>4, <2>1, <2>2 DEF Inv, Types
<1>7. Ages'
  <2> SUFFICES ASSUME NEW c \in Sealed, c # <<>>
               PROVE  /\ Front(c) \in Sealed
                      /\ age'[Front(c)] >= age'[c] + Last(c).elapsed \/ age'[Front(c)] = OldAge
    BY <1>4 DEF Ages
  <2>1. /\ Front(c) \in Sealed
        /\ age[Front(c)] >= age[c] + Last(c).elapsed \/ age[Front(c)] = OldAge
    BY DEF Inv, Ages
  <2>2. Last(c).elapsed \in Nat
    <3>1. Last(c) \in Block
      BY LastBlock DEF Inv, Types
    <3> QED BY <3>1 DEF Block
  <2>3. age'[c] \in Int /\ age'[Front(c)] \in Int
    BY <1>4, <2>1
  <2> QED BY <1>1, <1>2, <1>4, <2>1, <2>2, <2>3
<1>8. OwnBelowTip'
  BY <1>4 DEF Inv, OwnBelowTip, Tick
<1>9. ASSUME NEW n \in Nodes PROVE Planned(n)'
  <2>1. CASE plan[n] = NoPlan
    BY <1>5, <2>1 DEF Planned
  <2>2. CASE plan[n] # NoPlan
    <3> DEFINE c == plan[n].on
               r == plan[n].round
    <3>1. /\ plan[n].by \in Producers[n] /\ FirstTurn(c, plan[n].by, r)
          /\ plan[n].busy \in 0 .. MaxWork
          /\ r = 0 \/ r * SLOT_TIMEOUT <= age[c] + Skew[n] - plan[n].busy \/ age[c] = OldAge
      BY <2>2 DEF Inv, Planned
    <3>2. /\ c \in Sealed /\ r \in Nat
          /\ plan[n] \in [on : Sealed, by : Validators \cup {"nobody"}, round : Rounds,
                          busy : -1 .. MaxWork]
      BY RotationAssumption DEF Inv, Types, Rounds
    <3>3. /\ plan'[n].on = c /\ plan'[n].by = plan[n].by /\ plan'[n].round = r
          /\ plan'[n].busy = plan[n].busy + 1
      BY <1>5, <2>2, <3>2
    <3>4. draw' = draw /\ plan[n].busy < MaxWork
      BY DEF Tick
    <3>5. plan'[n].busy \in 0 .. MaxWork
      BY <1>1, <3>1, <3>3, <3>4
    <3>6. r * SLOT_TIMEOUT \in Int /\ Skew[n] \in Int
      BY <3>2, RotationAssumption
    <3>7. r = 0 \/ r * SLOT_TIMEOUT <= age'[c] + Skew[n] - plan'[n].busy \/ age'[c] = OldAge
      BY <1>1, <1>2, <1>4, <3>1, <3>2, <3>3, <3>6
    <3>8. FirstTurn(c, plan[n].by, r)'
      BY <3>1, <3>4, <3>3 DEF FirstTurn
    <3> QED BY <3>1, <3>3, <3>5, <3>7, <3>8 DEF Planned, FirstTurn
  <2> QED BY <2>1, <2>2
<1> QED BY <1>6, <1>7, <1>8, <1>9 DEF Inv

LEMMA PlanStep ==
    ASSUME Inv, NEW n \in Nodes, NEW v \in Validators, Plan(n, v)
    PROVE  Inv'
<1> DEFINE c == chain[n]
           e == Elapsed(n, c)
           r == SlotOf(c, v, e)
           b == [on |-> c, by |-> v, busy |-> 0, round |-> r]
<1>1. c \in Sealed /\ age[c] \in Int /\ e \in Int /\ MaxWork \in Nat /\ Skew[n] \in Int
  BY RotationAssumption DEF Inv, Types, Elapsed
<1>2. r \in Rounds /\ r \in 0 .. OpenRounds(e) /\ FirstTurn(c, v, r)
  BY <1>1, SlotFirst DEF Plan
<1>3. r = 0 \/ r * SLOT_TIMEOUT <= e
  BY <1>1, <1>2, RoundOpen
<1>4. b \in [on : Sealed, by : Validators \cup {"nobody"}, round : Rounds, busy : -1 .. MaxWork]
  BY <1>1, <1>2
<1>5. plan' = [plan EXCEPT ![n] = b] /\ UNCHANGED <<chain, age, draw>> /\ v \in Producers[n]
  BY DEF Plan
<1>6. plan'[n].on = c /\ plan'[n].by = v /\ plan'[n].round = r /\ plan'[n].busy = 0
  BY <1>5 DEF Inv, Types
<1>7. e = age[c] + Skew[n]
  BY DEF Elapsed
<1> HIDE DEF r, e, c
<1>8. Types'
  BY <1>4, <1>5 DEF Inv, Types, Sealed
<1>9. Ages' /\ OwnBelowTip'
  BY <1>5 DEF Inv, Ages, OwnBelowTip, Sealed
<1>10. Planned(n)'
  <2>1. FirstTurn(c, v, r)'
    BY <1>2, <1>5 DEF FirstTurn, c, r, e, SlotOf, Turns, Elapsed
  <2>2. age'[c] + Skew[n] - 0 = e
    BY <1>1, <1>5, <1>7
  <2> QED BY <1>1, <1>2, <1>3, <1>5, <1>6, <2>2 DEF Planned, FirstTurn
<1>11. ASSUME NEW m \in Nodes, m # n PROVE Planned(m)'
  BY <1>5, <1>11, PlannedKept DEF Inv, Types
<1> QED BY <1>8, <1>9, <1>10, <1>11 DEF Inv

\* The work is done in time: the new chain is one nobody sealed before, its parent
\* is the tip of n, and the block waited for its round.
Commits(n, c, late) ==
    /\ chain' = [chain EXCEPT ![n] = c]
    /\ age' = [x \in Sealed \cup {c} |-> IF x = c THEN late - Skew[n] ELSE age[x]]
    /\ \E leaders : draw' = [x \in Sealed \cup {c} |-> IF x = c THEN leaders ELSE draw[x]]
    /\ plan' = [plan EXCEPT ![n] = NoPlan]
    /\ late \in 0 .. MaxWork
    /\ c \notin Sealed /\ c \in Seq(Block) /\ c # <<>> /\ Len(c) = Len(chain[n]) + 1
    /\ Front(c) = chain[n]
    /\ Last(c).by \in Producers[n] /\ Last(c).elapsed \in Nat
    /\ Last(c).elapsed <= Elapsed(n, chain[n]) - late
    /\ Last(c).round = 0 \/ Last(c).round * SLOT_TIMEOUT <= Last(c).elapsed

LEMMA SealCommits ==
    ASSUME Inv, NEW n \in Nodes, NEW late \in 0 .. MaxWork, NEW leaders,
           Seal(n, late, leaders)
    PROVE  \/ \E c : Commits(n, c, late)
           \/ UNCHANGED <<chain, age, draw>> /\ plan' = [plan EXCEPT ![n] = NoPlan]
<1> DEFINE b == Built(n, late)
           c == Append(plan[n].on, b)
<1>1. CASE ~(chain[n] = plan[n].on /\ InOrder(Since(n, late)) /\ ValidOn(chain[n], Last(c)))
  BY <1>1 DEF Seal
<1>2. CASE chain[n] = plan[n].on /\ InOrder(Since(n, late)) /\ ValidOn(chain[n], Last(c))
  <2>1. /\ plan[n].by \in Producers[n] /\ plan[n].round \in Rounds
        /\ plan[n].on \in Seq(Block) /\ plan[n].on \in Sealed
    BY DEF Seal, Inv, Planned, Types
  <2>2. /\ Since(n, late) \in Int /\ Since(n, late) >= 0
        /\ Since(n, late) = Elapsed(n, chain[n]) - late
    BY <1>2, <2>1, RotationAssumption DEF Since, Elapsed, Inv, Types, InOrder
  <2>3. /\ Min({Since(n, late), OldAge}) \in Nat
        /\ Min({Since(n, late), OldAge}) <= Since(n, late)
    <3>1. OldAge \in Nat
      BY OldAgeOpensAll
    <3> DEFINE a == Since(n, late)
    <3>2. a \in Int /\ a >= 0 /\ OldAge \in Int
      BY <2>2, <3>1
    <3> HIDE DEF a
    <3>3. Min({a, OldAge}) \in Int /\ Min({a, OldAge}) <= a
          /\ (Min({a, OldAge}) = a \/ Min({a, OldAge}) = OldAge)
      BY <3>2, MinOfTwo
    <3>4. Min({a, OldAge}) \in Nat
      BY <3>1, <3>2, <3>3
    <3> QED BY <3>3, <3>4 DEF a
  <2>4. /\ b.by = plan[n].by /\ b.elapsed = Min({Since(n, late), OldAge})
        /\ b \in Block
    BY <2>1, <2>3, RotationAssumption DEF Built, Block
  <2> HIDE DEF b
  <2>5. /\ c \in Seq(Block) /\ c # <<>> /\ Len(c) = Len(chain[n]) + 1
        /\ Front(c) = chain[n] /\ Last(c) = b
    BY <1>2, <2>1, <2>4, OneMore
  <2>6. /\ chain' = [chain EXCEPT ![n] = c]
        /\ age' = [x \in Sealed \cup {c} |-> IF x = c THEN late - Skew[n] ELSE age[x]]
        /\ draw' = [x \in Sealed \cup {c} |-> IF x = c THEN leaders ELSE draw[x]]
        /\ plan' = [plan EXCEPT ![n] = NoPlan]
    BY <1>2 DEF Seal, b
  <2> HIDE DEF c
  <2>7. c \notin Sealed
    <3>1. Len(chain[n]) \in Nat
      BY DEF Inv, Types
    <3> QED BY <2>1, <2>4, <2>5, <3>1 DEF Inv, OwnBelowTip
  <2>8. Last(c).round = 0 \/ Last(c).round * SLOT_TIMEOUT <= Last(c).elapsed
    BY <1>2, <2>4, <2>5, ValidPatience
  <2>9. Commits(n, c, late)
    BY <2>1, <2>2, <2>3, <2>4, <2>5, <2>6, <2>7, <2>8 DEF Commits
  <2> QED BY <2>9
<1> QED BY <1>1, <1>2

LEMMA CommitStep ==
    ASSUME Inv, NEW n \in Nodes, NEW c, NEW late, Commits(n, c, late)
    PROVE  Inv'
<1>1. /\ Sealed' = Sealed \cup {c} /\ c \notin Sealed
      /\ age'[c] = late - Skew[n] /\ \A x \in Sealed : age'[x] = age[x]
      /\ \A x \in Sealed : draw'[x] = draw[x]
  <2>1. age' = [x \in Sealed \cup {c} |-> IF x = c THEN late - Skew[n] ELSE age[x]]
    BY DEF Commits
  <2>2. Sealed' = Sealed \cup {c} /\ c \notin Sealed
    BY <2>1 DEF Commits, Sealed
  <2>3. age'[c] = late - Skew[n] /\ \A x \in Sealed : age'[x] = age[x]
    BY <2>1, <2>2
  <2>4. \A x \in Sealed : draw'[x] = draw[x]
    BY <2>2 DEF Commits
  <2> QED BY <2>2, <2>3, <2>4
<1>2. OldAge \in Nat /\ late \in Nat /\ late <= MaxWork /\ MaxWork \in Nat /\ Skew[n] \in Int
      /\ OldAge >= MaxWork - Skew[n]
  BY OldAgeOpensAll, RotationAssumption DEF Commits
<1>3. /\ Len(c) = Len(chain[n]) + 1 /\ c \in Seq(Block) /\ c # <<>> /\ Front(c) = chain[n]
      /\ Last(c).by \in Producers[n] /\ Last(c).elapsed \in Nat
      /\ Last(c).elapsed <= age[chain[n]] + Skew[n] - late
  <2>1. Last(c).elapsed <= Elapsed(n, chain[n]) - late
    BY DEF Commits
  <2>2. Last(c).elapsed <= age[chain[n]] + Skew[n] - late
    <3>1. Elapsed(n, chain[n]) = age[chain[n]] + Skew[n]
      BY DEF Elapsed
    <3>2. age[chain[n]] \in Int /\ Skew[n] \in Int /\ late \in Int
      BY <1>2 DEF Inv, Types
    <3> QED BY <2>1, <3>1, <3>2
  <2>3. /\ Len(c) = Len(chain[n]) + 1 /\ c \in Seq(Block) /\ c # <<>> /\ Front(c) = chain[n]
        /\ Last(c).by \in Producers[n] /\ Last(c).elapsed \in Nat
    BY DEF Commits
  <2> QED BY <2>2, <2>3
<1>4. /\ chain[n] \in Sealed /\ age[chain[n]] \in Int
      /\ \A m \in Nodes : chain[m] \in Sealed /\ Len(chain[m]) \in Nat
  BY DEF Inv, Types
<1>5. /\ chain'[n] = c /\ plan'[n] = NoPlan
      /\ \A m \in Nodes \ {n} : chain'[m] = chain[m] /\ plan'[m] = plan[m]
  BY DEF Commits, Inv, Types
<1>6. Types'
  <2>1. Sealed' \subseteq Seq(Block) /\ <<>> \in Sealed'
    BY <1>1, <1>3 DEF Inv, Types
  <2>2. chain' \in [Nodes -> Sealed']
    BY <1>1 DEF Commits, Inv, Types
  <2>3. age' \in [Sealed' -> Int]
    BY <1>1, <1>2 DEF Commits, Inv, Types
  <2>4. \A x \in Sealed' : age'[x] <= OldAge
    BY <1>1, <1>2 DEF Inv, Types
  <2>5. DOMAIN draw' = Sealed'
    BY <1>1 DEF Commits
  <2>6. plan' \in [Nodes -> [on : Sealed', by : Validators \cup {"nobody"}, round : Rounds,
                             busy : -1 .. MaxWork]]
    <3>1. NoPlan \in [on : Sealed, by : Validators \cup {"nobody"}, round : Rounds,
                      busy : -1 .. MaxWork]
      BY <1>2, RotationAssumption DEF NoPlan, Rounds, Inv, Types
    <3>2. plan' \in [Nodes -> [on : Sealed, by : Validators \cup {"nobody"}, round : Rounds,
                               busy : -1 .. MaxWork]]
      BY <3>1 DEF Commits, Inv, Types
    <3> QED BY <1>1, <3>2
  <2> QED BY <2>1, <2>2, <2>3, <2>4, <2>5, <2>6 DEF Types
<1>7. Ages'
  <2> SUFFICES ASSUME NEW x \in Sealed', x # <<>>
               PROVE  /\ Front(x) \in Sealed'
                      /\ age'[Front(x)] >= age'[x] + Last(x).elapsed \/ age'[Front(x)] = OldAge
    BY DEF Ages
  <2>1. CASE x \in Sealed
    <3>1. Front(x) \in Sealed
      BY <2>1 DEF Inv, Ages
    <3> QED BY <1>1, <2>1, <3>1 DEF Inv, Ages
  <2>2. CASE x = c
    <3>1. age'[Front(x)] = age[chain[n]] /\ Front(x) \in Sealed
      BY <1>1, <1>3, <1>4, <2>2
    <3> QED BY <1>1, <1>2, <1>3, <1>4, <2>2, <3>1
  <2> QED BY <1>1, <2>1, <2>2
<1>8. OwnBelowTip'
  <2> SUFFICES ASSUME NEW m \in Nodes, NEW x \in Sealed', x # <<>>, Last(x).by \in Producers[m]
               PROVE  Len(x) <= Len(chain'[m])
    BY DEF OwnBelowTip
  <2>1. Len(chain'[m]) >= Len(chain[m])
    BY <1>3, <1>4, <1>5
  <2>2. CASE x \in Sealed
    <3>1. Len(x) <= Len(chain[m]) /\ Len(x) \in Nat /\ Len(chain'[m]) \in Nat
      <4>1. Len(x) <= Len(chain[m])
        BY <2>2 DEF Inv, OwnBelowTip
      <4>2. x \in Seq(Block) /\ c \in Seq(Block)
        BY <1>3, <2>2 DEF Inv, Types
      <4>3. Len(chain'[m]) \in Nat
        BY <1>4, <1>5, <4>2
      <4> QED BY <4>1, <4>2, <4>3
    <3> QED BY <1>4, <2>1, <3>1
  <2>3. CASE x = c
    <3>1. m = n
      <4>1. Last(c).by \in Producers[m] \cap Producers[n]
        BY <1>3, <2>3
      <4>2. m # n => Producers[m] \cap Producers[n] = {}
        BY RotationAssumption
      <4> QED BY <4>1, <4>2
    <3> QED BY <1>3, <1>4, <1>5, <2>3, <3>1
  <2> QED BY <1>1, <2>2, <2>3
<1>9. \A m \in Nodes : Planned(m)'
  <2> SUFFICES ASSUME NEW m \in Nodes PROVE Planned(m)'
    OBVIOUS
  <2>1. CASE m = n
    BY <1>5, <2>1 DEF Planned
  <2>2. CASE m # n
    <3>1. plan[m].on \in Sealed /\ Planned(m)
      BY DEF Inv, Types
    <3> QED BY <1>1, <1>5, <2>2, <3>1, PlannedKept
  <2> QED BY <2>1, <2>2
<1> QED BY <1>6, <1>7, <1>8, <1>9 DEF Inv

\* The work was in vain.
LEMMA DropStep ==
    ASSUME Inv, NEW n \in Nodes, UNCHANGED <<chain, age, draw>>,
           plan' = [plan EXCEPT ![n] = NoPlan]
    PROVE  Inv'
<1>1. NoPlan \in [on : Sealed, by : Validators \cup {"nobody"}, round : Rounds,
                  busy : -1 .. MaxWork]
  BY RotationAssumption DEF NoPlan, Rounds, Inv, Types
<1>2. Types'
  BY <1>1 DEF Inv, Types, Sealed
<1>3. Ages' /\ OwnBelowTip'
  BY DEF Inv, Ages, OwnBelowTip, Sealed
<1>4. ASSUME NEW m \in Nodes PROVE Planned(m)'
  <2>1. CASE m = n
    BY <2>1 DEF Planned, Inv, Types
  <2>2. CASE m # n
    BY <2>2, PlannedKept DEF Inv, Types
  <2> QED BY <2>1, <2>2
<1> QED BY <1>2, <1>3, <1>4 DEF Inv

\* A node takes over a chain that fits on its tip, is longer or carries more work.
LEMMA SwitchesUp ==
    ASSUME Inv, NEW n \in Nodes, NEW c \in Sealed, Receive(n, c) \/ Adopt(n, c)
    PROVE  /\ chain' = [chain EXCEPT ![n] = c] /\ UNCHANGED <<plan, age, draw>>
           /\ Len(c) >= Len(chain[n]) /\ c \in Seq(Block) /\ c # <<>>
           /\ ~TooFarAhead(n, c)
           /\ ValidOn(Front(c), Last(c))
<1>1. c \in Seq(Block) /\ chain[n] \in Seq(Block) /\ Len(c) \in Nat /\ Len(chain[n]) \in Nat
  BY DEF Inv, Types
<1>2. CASE Receive(n, c)
  <2>1. c # <<>> /\ Front(c) = chain[n]
    BY <1>2 DEF Receive
  <2>2. Len(c) >= Len(chain[n])
    BY <1>1, <2>1, LastBlock
  <2> QED BY <1>1, <1>2, <2>1, <2>2 DEF Receive, Acceptable
<1>3. CASE Adopt(n, c)
  <2>1. c # chain[n] /\ Len(c) >= Len(chain[n])
    BY <1>1, <1>3 DEF Adopt
  <2>2. c # <<>> /\ Len(c) \in 1 .. Len(c)
    <3>1. ASSUME c = <<>> PROVE FALSE
      <4>1. Len(chain[n]) = 0
        BY <1>1, <2>1, <3>1
      <4>2. chain[n] = <<>>
        BY <1>1, <4>1
      <4> QED BY <2>1, <3>1, <4>2
    <3> QED BY <1>1, <3>1
  <2>3. Front(c) = SubSeq(c, 1, Len(c) - 1) /\ Last(c) = c[Len(c)]
    BY DEF Front, Last
  <2>4. ValidOn(SubSeq(c, 1, Len(c) - 1), c[Len(c)])
    BY <1>3, <2>2 DEF Adopt
  <2> QED BY <1>1, <1>3, <2>1, <2>2, <2>3, <2>4 DEF Adopt
<1> QED BY <1>2, <1>3

LEMMA InvInit == Init => Inv
<1> SUFFICES ASSUME Init PROVE Inv
  OBVIOUS
<1>1. age = [c \in {<<>>} |-> 0] /\ Sealed = {<<>>}
  BY DEF Init, Sealed
<1>2. DOMAIN draw = {<<>>}
  BY DEF Init
<1>3. <<>> \in Seq(Block)
  OBVIOUS
<1>4. NoPlan \in [on : Sealed, by : Validators \cup {"nobody"}, round : Rounds,
                  busy : -1 .. MaxWork]
  BY <1>1, RotationAssumption DEF NoPlan, Rounds
<1>5. Types
  BY <1>1, <1>2, <1>3, <1>4, OldAgeOpensAll DEF Init, Types
<1>6. Ages /\ OwnBelowTip
  BY <1>1 DEF Ages, OwnBelowTip
<1>7. \A n \in Nodes : Planned(n)
  BY DEF Init, Planned
<1> QED BY <1>5, <1>6, <1>7 DEF Inv

LEMMA InvNext == Inv /\ [Next]_vars => Inv'
<1> SUFFICES ASSUME Inv, [Next]_vars PROVE Inv'
  OBVIOUS
<1>1. CASE Tick
  BY <1>1, TickStep
<1>2. ASSUME NEW n \in Nodes, NEW v \in Validators, Plan(n, v) PROVE Inv'
  BY <1>2, PlanStep
<1>3. ASSUME NEW n \in Nodes, NEW late \in 0 .. MaxWork, NEW leaders, Seal(n, late, leaders)
      PROVE  Inv'
  BY <1>3, SealCommits, CommitStep, DropStep
<1>4. ASSUME NEW n \in Nodes, NEW c \in Sealed, Receive(n, c) \/ Adopt(n, c) PROVE Inv'
  <2>1. /\ chain' = [chain EXCEPT ![n] = c] /\ UNCHANGED <<plan, age, draw>>
        /\ Len(c) >= Len(chain[n]) /\ c \in Seq(Block)
    BY <1>4, SwitchesUp
  <2>2. Len(c) >= Len(chain[n])
    BY <2>1 DEF Inv, Types
  <2> QED BY <2>1, <2>2, SwitchStep
<1>5. CASE UNCHANGED vars
  BY <1>5, PlannedKept DEF vars, Inv, Types, Ages, OwnBelowTip, Sealed
<1> QED BY <1>1, <1>2, <1>3, <1>4, <1>5 DEF Next

LEMMA InvAlways == Spec => []Inv
BY InvInit, InvNext, PTL DEF Spec

-----------------------------------------------------------------------------
(* The properties                                                          *)

\* The first turn of a producer is its slot at any later stamp.
LEMMA SlotStays == Inv => PlannedSlotHolds
<1> SUFFICES ASSUME Inv, NEW n \in Nodes, NEW late \in 0 .. plan[n].busy,
                    chain[n] = plan[n].on, InOrder(Since(n, late))
             PROVE  ValidOn(chain[n], Built(n, late))
  BY DEF PlannedSlotHolds
<1> DEFINE c == plan[n].on
           v == plan[n].by
           r == plan[n].round
           s == Since(n, late)
           e == Min({s, OldAge})
<1>1. plan[n] # NoPlan
  BY DEF NoPlan
<1>2. /\ FirstTurn(c, v, r) /\ plan[n].busy \in 0 .. MaxWork
      /\ r = 0 \/ r * SLOT_TIMEOUT <= age[c] + Skew[n] - plan[n].busy \/ age[c] = OldAge
  BY <1>1 DEF Inv, Planned
<1>3. /\ r \in Rounds /\ c \in Sealed /\ age[c] \in Int /\ Skew[n] \in Int /\ MaxWork \in Nat
      /\ r \in Nat /\ r <= MAX_SLOT_ROUNDS
  BY RotationAssumption DEF Inv, Types, Rounds
<1>4. s = age[c] + Skew[n] - late
  <2>1. Since(n, late) = Elapsed(n, c) - late
    BY DEF Since
  <2>2. Elapsed(n, c) = age[c] + Skew[n]
    BY DEF Elapsed
  <2> QED BY <1>3, <2>1, <2>2
<1>5. r * SLOT_TIMEOUT \in Int /\ r * SLOT_TIMEOUT <= MAX_SLOT_ROUNDS * SLOT_TIMEOUT
  BY <1>3, RotationAssumption
<1>6. /\ OldAge \in Nat /\ OldAge >= MAX_SLOT_ROUNDS * SLOT_TIMEOUT
      /\ OldAge + Skew[n] - MaxWork >= MAX_SLOT_ROUNDS * SLOT_TIMEOUT
      /\ MAX_SLOT_ROUNDS * SLOT_TIMEOUT \in Int
  BY OldAgeOpensAll, RotationAssumption
<1> HIDE DEF s
<1>7. s \in Int
  BY <1>3, <1>4
<1>8. e \in Int /\ (e = s \/ e = OldAge)
  <2>1. OldAge \in Int
    BY <1>6
  <2> QED BY <1>7, <2>1, MinOfTwo
<1> HIDE DEF e, c, v, r
<1>9. r = 0 \/ r * SLOT_TIMEOUT <= s
  <2> DEFINE a == age[c]
             k == plan[n].busy
             p == r * SLOT_TIMEOUT
             q == MAX_SLOT_ROUNDS * SLOT_TIMEOUT
             x == Skew[n]
  <2>1. /\ r = 0 \/ p <= a + x - k \/ a = OldAge
        /\ p \in Int /\ q \in Int /\ p <= q /\ OldAge + x - MaxWork >= q /\ s = a + x - late
        /\ a \in Int /\ x \in Int /\ k \in 0 .. MaxWork /\ late \in 0 .. k /\ MaxWork \in Nat
        /\ OldAge \in Nat
    BY <1>2, <1>3, <1>4, <1>5, <1>6
  <2> HIDE DEF a, k, p, q, x
  <2>2. r = 0 \/ p <= s
    BY <2>1
  <2> QED BY <2>2 DEF p
<1>10. r = 0 \/ r * SLOT_TIMEOUT <= e
  BY <1>5, <1>6, <1>7, <1>8, <1>9
<1>11. r \in 0 .. OpenRounds(e)
  BY <1>3, <1>8, <1>10, RoundOpen
<1>12. Turns(c, v, e) # {} /\ SlotOf(c, v, e) = r
  BY <1>2, <1>3, <1>8, <1>11, FirstIsSlot
<1>13. Built(n, late) = [by |-> v, round |-> r, elapsed |-> e]
  BY DEF Built, v, r, e, s
<1> QED BY <1>12, <1>13 DEF ValidOn, c

\* However many rounds open while a producer works, what it seals on a tip that
\* stays is valid, unless its clock is behind the parent's timestamp.
THEOREM WorkIsNeverInVain == Spec => []PlannedSlotHolds
BY InvAlways, SlotStays, PTL

\* Both ways into a chain wait for the rounds before: sealing by the clock of the
\* node, taking over by the tolerance against it.
LEMMA PatientStep ==
    Inv /\ [Next]_vars =>
       \A n \in Nodes :
          chain'[n] # chain[n] =>
              Elapsed(n, Front(chain'[n])) >= Last(chain'[n]).round * SLOT_TIMEOUT - MAX_SKEW
<1> SUFFICES ASSUME Inv, [Next]_vars, NEW n \in Nodes, chain'[n] # chain[n]
             PROVE  Elapsed(n, Front(chain'[n])) >= Last(chain'[n]).round * SLOT_TIMEOUT - MAX_SKEW
  OBVIOUS
<1>1. chain \in [Nodes -> Sealed] /\ Sealed \subseteq Seq(Block)
  BY DEF Inv, Types
<1>2. MAX_SKEW \in Nat /\ SLOT_TIMEOUT \in Nat /\ MAX_SLOT_ROUNDS \in Nat /\ \A m \in Nodes : Skew[m] \in Int
  BY RotationAssumption
<1>3. ASSUME NEW c, NEW late, Commits(n, c, late)
      PROVE  Elapsed(n, Front(chain'[n])) >= Last(chain'[n]).round * SLOT_TIMEOUT - MAX_SKEW
  <2>1. chain'[n] = c /\ Front(c) = chain[n]
    BY <1>1, <1>3 DEF Commits
  <2>2. Elapsed(n, chain[n]) \in Int
    BY <1>1, <1>2 DEF Elapsed, Inv, Types
  <2>3. Last(c).round \in Nat
    <3>1. Last(c) \in Block
      BY <1>3, LastBlock DEF Commits
    <3> QED BY <1>2, <3>1 DEF Block, Rounds
  <2> DEFINE x == Elapsed(n, chain[n])
             l == Last(c).elapsed
             p == Last(c).round * SLOT_TIMEOUT
  <2>4. /\ l \in Nat /\ late \in Nat /\ l <= x - late /\ p \in Nat
        /\ Last(c).round = 0 \/ p <= l
        /\ Last(c).round = 0 => p = 0
    BY <1>2, <1>3, <2>3, RotationAssumption DEF Commits
  <2> HIDE DEF x, l, p
  <2>5. x >= p - MAX_SKEW
    BY <1>2, <2>2, <2>4 DEF x
  <2> QED BY <2>1, <2>5 DEF x, p
<1>4. ASSUME NEW c \in Sealed, Receive(n, c) \/ Adopt(n, c)
      PROVE  Elapsed(n, Front(chain'[n])) >= Last(chain'[n]).round * SLOT_TIMEOUT - MAX_SKEW
  <2>1. /\ chain'[n] = c /\ c \in Seq(Block) /\ c # <<>> /\ ~TooFarAhead(n, c)
        /\ ValidOn(Front(c), Last(c))
    BY <1>1, <1>4, SwitchesUp
  <2>2. Last(c) \in Block
    BY <2>1, LastBlock
  <2>3. /\ Last(c).round \in Nat /\ Last(c).round <= MAX_SLOT_ROUNDS /\ Last(c).elapsed \in Nat
    BY <1>2, <2>2 DEF Block, Rounds
  <2>4. Last(c).round = 0 \/ Last(c).round * SLOT_TIMEOUT <= Last(c).elapsed
    BY <2>1, <2>2, ValidPatience
  <2>5. /\ Front(c) \in Sealed
        /\ age[Front(c)] >= age[c] + Last(c).elapsed \/ age[Front(c)] = OldAge
    BY <2>1 DEF Inv, Ages
  <2>6. age[c] \in Int /\ age[Front(c)] \in Int
    BY <2>5 DEF Inv, Types
  <2>7. ~(age[c] + Skew[n] < -MAX_SKEW)
    BY <2>1 DEF TooFarAhead, Elapsed
  <2>8. /\ OldAge \in Nat /\ OldAge + Skew[n] - MaxWork >= MAX_SLOT_ROUNDS * SLOT_TIMEOUT
        /\ MaxWork \in Nat
    BY OldAgeOpensAll, RotationAssumption
  <2> DEFINE p == Last(c).round * SLOT_TIMEOUT
             q == MAX_SLOT_ROUNDS * SLOT_TIMEOUT
  <2>9. p \in Nat /\ q \in Nat /\ p <= q /\ (Last(c).round = 0 => p = 0)
    BY <1>2, <2>3
  <2> DEFINE a == age[c]
             f == age[Front(c)]
             x == Skew[n]
             l == Last(c).elapsed
  <2>10. /\ a \in Int /\ f \in Int /\ x \in Int /\ l \in Nat /\ MAX_SKEW \in Nat /\ MaxWork \in Nat
         /\ p = 0 \/ p <= l
         /\ f >= a + l \/ f = OldAge
         /\ ~(a + x < -MAX_SKEW)
         /\ OldAge \in Nat /\ OldAge + x - MaxWork >= q
    BY <1>2, <2>3, <2>4, <2>5, <2>6, <2>7, <2>8, <2>9
  <2> HIDE DEF p, q, a, f, x, l
  <2>11. f + x >= p - MAX_SKEW
    BY <2>9, <2>10
  <2>12. Elapsed(n, Front(chain'[n])) = f + x
    BY <2>1 DEF Elapsed, f, x
  <2> QED BY <2>1, <2>11, <2>12 DEF p
<1>5. ASSUME NEW m \in Nodes, NEW late \in 0 .. MaxWork, NEW leaders, Seal(m, late, leaders)
      PROVE  Elapsed(n, Front(chain'[n])) >= Last(chain'[n]).round * SLOT_TIMEOUT - MAX_SKEW
  <2>1. PICK c : Commits(m, c, late)
    BY <1>5, SealCommits
  <2>2. m = n
    BY <1>1, <2>1 DEF Commits
  <2> QED BY <1>3, <2>1, <2>2
<1>6. ASSUME NEW m \in Nodes, NEW c \in Sealed, Receive(m, c) \/ Adopt(m, c)
      PROVE  Elapsed(n, Front(chain'[n])) >= Last(chain'[n]).round * SLOT_TIMEOUT - MAX_SKEW
  <2>1. chain' = [chain EXCEPT ![m] = c]
    BY <1>6 DEF Receive, Adopt
  <2>2. m = n
    BY <1>1, <2>1
  <2> QED BY <1>4, <1>6, <2>2
<1>7. ~Tick /\ ~UNCHANGED vars /\ \A m \in Nodes, v \in Validators : ~Plan(m, v)
  BY DEF Tick, Plan, vars
<1> QED BY <1>5, <1>6, <1>7 DEF Next

\* Nobody jumps the queue: a block for a fallback round enters no chain before
\* the rounds before it had their time, by the clock of that node.
THEOREM FallbacksWait == Spec => NoEarlyFallback
<1>1. Inv /\ [Next]_vars =>
        [\A n \in Nodes :
            chain'[n] # chain[n] =>
                Elapsed(n, Front(chain'[n]))
                   >= Last(chain'[n]).round * SLOT_TIMEOUT - MAX_SKEW]_vars
  BY PatientStep
<1> QED BY <1>1, InvAlways, PTL DEF Spec, NoEarlyFallback

=============================================================================
