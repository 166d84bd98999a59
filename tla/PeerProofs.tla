----------------------------- MODULE PeerProofs ----------------------------
(***************************************************************************)
(* Proofs about what a node does with its peers: about the gate, for every *)
(* set of peers and envelopes, every capacity of the replay cache and all  *)
(* scores that ScoresAssumption allows, and about the lists of peers that  *)
(* announcing and learning keep, for every set of nodes and addresses.     *)
(***************************************************************************)
EXTENDS PeerGate, PeerSync, DataTheorems, TLAPS

-----------------------------------------------------------------------------
(* Scores                                                                  *)

LEMMA MinOfTwo ==
    ASSUME NEW a \in Int, NEW b \in Int
    PROVE  Min({a, b}) = IF a <= b THEN a ELSE b
<1>1. \E x \in {a, b} : \A y \in {a, b} : x =< y
  OBVIOUS
<1>2. /\ Min({a, b}) \in {a, b}
      /\ \A y \in {a, b} : Min({a, b}) =< y
  BY <1>1 DEF Min
<1> QED BY <1>2

LEMMA MaxOfTwo ==
    ASSUME NEW a \in Int, NEW b \in Int
    PROVE  Max({a, b}) = IF a >= b THEN a ELSE b
<1>1. \E x \in {a, b} : \A y \in {a, b} : x >= y
  OBVIOUS
<1>2. /\ Max({a, b}) \in {a, b}
      /\ \A y \in {a, b} : Max({a, b}) >= y
  BY <1>1 DEF Max
<1> QED BY <1>2

\* The part of the state a peer's standing depends on.
BookOK ==
    /\ score \in [Peers -> SCORE_MIN .. SCORE_MAX]
    /\ banned \in [Peers -> 0 .. BAN_TIME]
    /\ struck \in [Peers -> BOOLEAN]

LEMMA BanAfter == BAN_THRESHOLD \div 2 \in SCORE_MIN .. SCORE_MAX
<1>1. \A i \in Int : i \div 2 \in Int
  OBVIOUS
<1> QED BY <1>1, ScoresAssumption

LEMMA LoweredType ==
    ASSUME BookOK, NEW p \in Peers
    PROVE  /\ Lowered(p) \in SCORE_MIN .. SCORE_MAX
           /\ Lowered(p) <= score[p]
           /\ Lowered(p) <= BAN_THRESHOLD => score[p] + BAD_DELTA <= BAN_THRESHOLD
<1>1. score[p] \in Int /\ SCORE_MIN <= score[p] /\ score[p] <= SCORE_MAX
  BY ScoresAssumption DEF BookOK
<1>2. score[p] + BAD_DELTA \in Int /\ SCORE_MIN \in Int
  BY <1>1, ScoresAssumption
<1>3. Lowered(p) = IF score[p] + BAD_DELTA >= SCORE_MIN THEN score[p] + BAD_DELTA ELSE SCORE_MIN
  BY <1>2, MaxOfTwo DEF Lowered
<1> QED BY <1>1, <1>3, ScoresAssumption

LEMMA GoodStep ==
    ASSUME BookOK, NEW p \in Peers, RecordGood(p)
    PROVE  BookOK' /\ \A q \in Peers : score'[q] >= score[q]
<1>1. score[p] + GOOD_DELTA \in Int /\ SCORE_MAX \in Int /\ score[p] \in SCORE_MIN .. SCORE_MAX
  BY ScoresAssumption DEF BookOK
<1> DEFINE raised == Min({score[p] + GOOD_DELTA, SCORE_MAX})
<1>2. raised = IF score[p] + GOOD_DELTA <= SCORE_MAX THEN score[p] + GOOD_DELTA ELSE SCORE_MAX
  BY <1>1, MinOfTwo
<1>3. score' = [score EXCEPT ![p] = raised] /\ UNCHANGED <<banned, struck>>
  BY DEF RecordGood
<1> HIDE DEF raised
<1>4. raised \in SCORE_MIN .. SCORE_MAX /\ raised >= score[p]
  BY <1>1, <1>2, ScoresAssumption
<1> QED BY <1>1, <1>3, <1>4, ScoresAssumption DEF BookOK

LEMMA BadStep ==
    ASSUME BookOK, NEW p \in Peers, RecordBad(p)
    PROVE  BookOK' /\ \A q \in Peers \ {p} : score'[q] = score[q] /\ struck'[q] = struck[q]
                                            /\ banned'[q] = banned[q]
<1>1. /\ Lowered(p) \in SCORE_MIN .. SCORE_MAX
      /\ BAN_THRESHOLD \div 2 \in SCORE_MIN .. SCORE_MAX
      /\ BAN_TIME \in Nat
  BY LoweredType, BanAfter, PeerGateAssumption
<1> QED BY <1>1 DEF RecordBad, BookOK

\* A step touches the book of at most one peer, or lets time pass.  A penalty is
\* for a message that no relaying peer sends.
LEMMA BookStep ==
    ASSUME [Next]_vars
    PROVE  \/ UNCHANGED book
           \/ \E p \in Peers : RecordGood(p)
           \/ \E e \in Envelopes :
                 /\ RecordBad(From[e])
                 /\ e \in stale \/ Says[e].kind \notin {"ping", "block"}
           \/ Tick
<1>1. \A e \in Envelopes : From[e] \in Peers
  BY PeerGateAssumption
<1>2. ASSUME NEW e \in Envelopes, Refuse(e)
      PROVE  RecordBad(From[e]) /\ (e \in stale \/ Says[e].kind \notin {"ping", "block"})
  BY <1>2 DEF Refuse
<1>3. ASSUME NEW e \in Envelopes, Replay(e) \/ Admit(e) \/ Expire(e) PROVE UNCHANGED book
  BY <1>3 DEF Replay, Admit, Expire
<1>4. ASSUME NEW e \in Envelopes, Judge(e)
      PROVE  \/ UNCHANGED book
             \/ RecordGood(From[e])
             \/ RecordBad(From[e]) /\ Says[e].kind \notin {"ping", "block"}
  <2>1. CASE Says[e].kind = "ping" /\ UNCHANGED <<book, ledger>>
    BY <2>1
  <2>2. CASE Says[e].kind = "junk" /\ RecordBad(From[e]) /\ UNCHANGED ledger
    BY <2>2
  <2>3. CASE Says[e].kind = "payment" /\ JudgePayment(From[e], Says[e].number)
    BY <2>3 DEF JudgePayment
  <2>4. CASE Says[e].kind = "block" /\ JudgeBlock(From[e], Says[e].number)
    BY <2>4 DEF JudgeBlock
  <2>5. CASE Says[e].kind = "sibling" /\ JudgeSibling(From[e], Says[e].number)
    BY <2>5 DEF JudgeSibling
  <2> QED BY <1>4, <2>1, <2>2, <2>3, <2>4, <2>5 DEF Judge
<1>5. CASE Advance
  BY <1>5 DEF Advance
<1>6. CASE UNCHANGED vars
  BY <1>6 DEF vars
<1> QED BY <1>1, <1>2, <1>3, <1>4, <1>5, <1>6 DEF Next

LEMMA ClockStep ==
    ASSUME BookOK, Tick
    PROVE  /\ BookOK'
           /\ UNCHANGED <<score, struck>>
           /\ \A p \in Peers : banned'[p] <= banned[p]
<1>1. ASSUME NEW p \in Peers
      PROVE  banned'[p] \in 0 .. BAN_TIME /\ banned'[p] <= banned[p]
  <2>1. banned[p] - 1 \in Int /\ banned[p] \in 0 .. BAN_TIME /\ BAN_TIME \in Nat
    BY PeerGateAssumption DEF BookOK
  <2>2. banned'[p] = Max({banned[p] - 1, 0})
    BY DEF Tick
  <2>3. banned'[p] = IF banned[p] - 1 >= 0 THEN banned[p] - 1 ELSE 0
    BY <2>1, <2>2, MaxOfTwo
  <2> QED BY <2>1, <2>3
<1> QED BY <1>1 DEF BookOK, Tick

-----------------------------------------------------------------------------
(* Bans                                                                    *)

\* A peer without an offence since its last ban is more than one offence away
\* from the next.
Margin == BookOK /\ \A p \in Peers : ~struck[p] => score[p] + BAD_DELTA > BAN_THRESHOLD

LEMMA InitMargin == Init => Margin
<1> SUFFICES ASSUME Init PROVE Margin
  OBVIOUS
<1>1. BookOK
  BY PeerGateAssumption, ScoresAssumption DEF Init, BookOK
<1> QED BY <1>1, ScoresAssumption DEF Init, Margin

LEMMA NextMargin ==
    ASSUME Margin, [Next]_vars
    PROVE  Margin' /\ \A p \in Peers : banned'[p] > banned[p] => struck[p]
<1> USE DEF Margin
<1>1. CASE UNCHANGED book
  BY <1>1 DEF book, BookOK
<1>2. ASSUME NEW p \in Peers, RecordGood(p)
      PROVE  Margin' /\ \A q \in Peers : banned'[q] > banned[q] => struck[q]
  <2>1. BookOK' /\ \A q \in Peers : score'[q] >= score[q]
    BY <1>2, GoodStep
  <2>2. UNCHANGED <<banned, struck>>
    BY <1>2 DEF RecordGood
  <2>3. \A q \in Peers : score[q] \in Int /\ score'[q] \in Int /\ banned[q] \in Int
    BY <2>1, ScoresAssumption DEF BookOK
  <2> QED BY <2>1, <2>2, <2>3, ScoresAssumption
<1>3. ASSUME NEW e \in Envelopes, RecordBad(From[e])
      PROVE  Margin' /\ \A q \in Peers : banned'[q] > banned[q] => struck[q]
  <2> DEFINE p == From[e]
             ban == Lowered(p) <= BAN_THRESHOLD /\ Accepted(p)
  <2>1. p \in Peers
    BY PeerGateAssumption
  <2>2. BookOK' /\ \A q \in Peers \ {p} : score'[q] = score[q] /\ struck'[q] = struck[q]
                                         /\ banned'[q] = banned[q]
    BY <1>3, <2>1, BadStep
  <2>3. /\ score'[p] = IF ban THEN BAN_THRESHOLD \div 2 ELSE Lowered(p)
        /\ banned'[p] = IF ban THEN BAN_TIME ELSE banned[p]
        /\ struck'[p] = ~ban
    BY <1>3, <2>1 DEF RecordBad, BookOK
  <2>4. ~struck'[p] => score'[p] + BAD_DELTA > BAN_THRESHOLD
    BY <2>3, ScoresAssumption
  <2>5. ban => struck[p]
    <3>1. score[p] \in Int
      BY <2>1, ScoresAssumption DEF BookOK
    <3>2. Lowered(p) <= BAN_THRESHOLD => score[p] + BAD_DELTA <= BAN_THRESHOLD
      BY <2>1, LoweredType
    <3> QED BY <2>1, <3>1, <3>2, ScoresAssumption
  <2> HIDE DEF p, ban
  <2>6. \A q \in Peers : banned[q] \in Nat
    BY PeerGateAssumption DEF BookOK
  <2> QED BY <2>1, <2>2, <2>3, <2>4, <2>5, <2>6
<1>4. CASE Tick
  <2>1. /\ BookOK' /\ UNCHANGED <<score, struck>>
        /\ \A p \in Peers : banned'[p] <= banned[p]
    BY <1>4, ClockStep
  <2>2. \A p \in Peers : banned[p] \in Int /\ banned'[p] \in Int
    BY <2>1 DEF BookOK
  <2> QED BY <2>1, <2>2
<1> QED BY <1>1, <1>2, <1>3, <1>4, BookStep

\* No ban is for a single message, whatever the scores are, as long as neither a
\* newcomer nor a peer after its ban starts within one penalty of the threshold.
THEOREM EveryBanIsEarned == Spec => BansAreEarned
<1>1. Init => Margin
  BY InitMargin
<1>2. Margin /\ [Next]_vars =>
          Margin' /\ \A p \in Peers : banned'[p] > banned[p] => struck[p]
  BY NextMargin
<1> QED BY <1>1, <1>2, PTL DEF Spec, BansAreEarned

-----------------------------------------------------------------------------
(* Relaying                                                                *)

\* The envelopes of a relaying peer stay fresh, so none of them is refused.
Fair ==
    /\ BookOK
    /\ \A e \in stale : e \in Envelopes /\ From[e] \notin Honest
    /\ RelayingIsFree

LEMMA InitFair == Init => Fair
<1> SUFFICES ASSUME Init PROVE Fair
  OBVIOUS
<1>1. BookOK
  BY InitMargin DEF Margin
<1> QED BY <1>1, PeerGateAssumption, ScoresAssumption DEF Init, Fair, RelayingIsFree

LEMMA NextFair ==
    ASSUME Fair, [Next]_vars
    PROVE  Fair'
<1>1. \A p \in Honest : p \in Peers /\ score[p] \in Int /\ score[p] >= INITIAL_SCORE
  BY PeerGateAssumption, ScoresAssumption DEF Fair, RelayingIsFree, BookOK
<1>2. (\A e \in stale : e \in Envelopes /\ From[e] \notin Honest)'
  <2>1. UNCHANGED stale \/ \E e \in Envelopes : Expire(e)
    BY DEF Next, Refuse, Replay, Admit, Judge, Advance, Tick, vars
  <2> QED BY <2>1 DEF Fair, Expire
<1>3. CASE UNCHANGED book
  BY <1>2, <1>3 DEF Fair, BookOK, RelayingIsFree, book
<1>4. ASSUME NEW p \in Peers, RecordGood(p) PROVE Fair'
  <2>1. BookOK' /\ \A q \in Peers : score'[q] >= score[q]
    BY <1>4, GoodStep DEF Fair
  <2>2. \A q \in Peers : score'[q] \in Int
    BY <2>1, ScoresAssumption DEF BookOK
  <2>3. RelayingIsFree'
    BY <1>1, <2>1, <2>2, ScoresAssumption DEF RelayingIsFree
  <2> QED BY <1>2, <2>1, <2>3 DEF Fair
<1>5. ASSUME NEW e \in Envelopes, RecordBad(From[e]),
             e \in stale \/ Says[e].kind \notin {"ping", "block"}
      PROVE  Fair'
  <2>1. From[e] \in Peers /\ From[e] \notin Honest
    BY <1>5, PeerGateAssumption DEF Fair
  <2>2. BookOK' /\ \A q \in Peers \ {From[e]} : score'[q] = score[q]
    BY <1>5, <2>1, BadStep DEF Fair
  <2>3. RelayingIsFree'
    BY <1>1, <2>1, <2>2 DEF RelayingIsFree
  <2> QED BY <1>2, <2>2, <2>3 DEF Fair
<1>6. CASE Tick
  BY <1>2, <1>6, ClockStep DEF Fair, RelayingIsFree
<1> QED BY <1>3, <1>4, <1>5, <1>6, BookStep

\* A peer that relays our chain is never worse off for it, whatever else the
\* others send, for every cache and all scores.
THEOREM RelayingStaysFree == Spec => []RelayingIsFree
<1>1. Init => Fair
  BY InitFair
<1>2. Fair /\ [Next]_vars => Fair'
  BY NextFair
<1>3. Fair => RelayingIsFree
  BY DEF Fair
<1> QED BY <1>1, <1>2, <1>3, PTL DEF Spec

-----------------------------------------------------------------------------
(* The replay cache                                                        *)

\* An envelope is in the cache at the place that tells how many were admitted
\* after it, until as many were as the cache holds.
Remembered ==
    /\ seen \in Seq(Envelopes) /\ Len(seen) <= CAPACITY
    /\ since \in [Envelopes -> Int]
    /\ \A e \in Envelopes :
          \/ since[e] \in {Never, CAPACITY}
          \/ /\ since[e] \in 0 .. CAPACITY - 1 /\ since[e] < Len(seen)
             /\ seen[Len(seen) - since[e]] = e

LEMMA InitRemembered == Init => Remembered
<1> SUFFICES ASSUME Init PROVE Remembered
  OBVIOUS
<1>1. seen = <<>> /\ since = [e \in Envelopes |-> Never] /\ Never \in Int
  BY DEF Init, Never
<1> QED BY <1>1, PeerGateAssumption DEF Remembered

\* What is in the cache is found there.
LEMMA SeenWhenRemembered ==
    ASSUME Remembered, NEW e \in Envelopes, since[e] \notin {Never, CAPACITY}
    PROVE  e \in ToSet(seen)
<1>1. Len(seen) - since[e] \in 1 .. Len(seen) /\ seen[Len(seen) - since[e]] = e
  BY PeerGateAssumption DEF Remembered
<1>2. DOMAIN seen = 1 .. Len(seen)
  BY DEF Remembered
<1> QED BY <1>1, <1>2 DEF ToSet

LEMMA AdmitRemembered ==
    ASSUME Remembered, NEW e \in Envelopes, Admit(e)
    PROVE  Remembered'
<1>1. CAPACITY \in Nat \ {0} /\ seen \in Seq(Envelopes) /\ Len(seen) <= CAPACITY
  BY PeerGateAssumption DEF Remembered
<1> DEFINE kept == IF Len(seen) >= CAPACITY THEN Tail(seen) ELSE seen
<1>2. seen' = Append(kept, e)
  BY DEF Admit, Insert
<1>3. /\ kept \in Seq(Envelopes) /\ Len(kept) \in Nat /\ Len(kept) < CAPACITY
      /\ Len(seen) >= CAPACITY => Len(seen) = Len(kept) + 1
      /\ Len(seen) < CAPACITY => Len(seen) = Len(kept)
  BY <1>1
<1>4. ASSUME NEW i \in 0 .. CAPACITY - 2, i < Len(seen)
      PROVE  i < Len(kept) /\ kept[Len(kept) - i] = seen[Len(seen) - i]
  <2>1. CASE Len(seen) >= CAPACITY
    BY <1>1, <1>3, <1>4, <2>1
  <2>2. CASE Len(seen) < CAPACITY
    BY <1>1, <1>3, <1>4, <2>2
  <2> QED BY <1>1, <2>1, <2>2
<1> HIDE DEF kept
<1>5. /\ seen' \in Seq(Envelopes) /\ Len(seen') = Len(kept) + 1 /\ Len(seen') <= CAPACITY
      /\ seen'[Len(seen')] = e
      /\ \A i \in 1 .. Len(kept) : seen'[i] = kept[i]
  BY <1>1, <1>2, <1>3
<1>6. \A f \in Envelopes :
          since'[f] = IF f = e THEN 0
                      ELSE IF since[f] = Never THEN Never
                      ELSE IF since[f] + 1 <= CAPACITY THEN since[f] + 1 ELSE CAPACITY
  BY <1>1, MinOfTwo DEF Admit, Remembered
<1>7. since' \in [Envelopes -> Int]
  <2>1. since' = [f \in Envelopes |->
                     IF f = e THEN 0
                     ELSE IF since[f] = Never THEN Never ELSE Min({since[f] + 1, CAPACITY})]
    BY DEF Admit
  <2>2. \A f \in Envelopes : since[f] \in Int
    BY DEF Remembered
  <2>3. \A f \in Envelopes : since'[f] \in Int
    BY <1>1, <1>6, <2>2 DEF Never
  <2> QED BY <2>1, <2>3
<1>8. ASSUME NEW f \in Envelopes
      PROVE  \/ since'[f] \in {Never, CAPACITY}
             \/ /\ since'[f] \in 0 .. CAPACITY - 1 /\ since'[f] < Len(seen')
                /\ seen'[Len(seen') - since'[f]] = f
  <2>1. CASE f = e
    BY <1>1, <1>3, <1>5, <1>6, <2>1
  <2>2. CASE f # e /\ since[f] = Never
    BY <1>6, <2>2
  <2>3. CASE f # e /\ since[f] = CAPACITY /\ since[f] # Never
    BY <1>1, <1>6, <2>3
  <2>4. CASE f # e /\ since[f] \notin {Never, CAPACITY}
    <3>1. /\ since[f] \in 0 .. CAPACITY - 1 /\ since[f] < Len(seen)
          /\ seen[Len(seen) - since[f]] = f
      BY <2>4 DEF Remembered
    <3>2. since'[f] = since[f] + 1
      BY <1>1, <1>6, <2>4, <3>1
    <3>3. CASE since[f] = CAPACITY - 1
      BY <1>1, <3>2, <3>3
    <3>4. CASE since[f] < CAPACITY - 1
      <4>1. since[f] < Len(kept) /\ kept[Len(kept) - since[f]] = f
        BY <1>1, <1>4, <3>1, <3>4
      <4>2. Len(kept) - since[f] \in 1 .. Len(kept)
            /\ Len(seen') - since'[f] = Len(kept) - since[f]
        BY <1>1, <1>3, <1>5, <3>1, <3>2, <4>1
      <4> QED BY <1>1, <1>3, <1>5, <3>1, <3>2, <3>4, <4>1, <4>2
    <3> QED BY <1>1, <3>1, <3>3, <3>4
  <2> QED BY <2>1, <2>2, <2>3, <2>4
<1> QED BY <1>5, <1>7, <1>8 DEF Remembered

LEMMA NextRemembered ==
    ASSUME Remembered, [Next]_vars
    PROVE  /\ Remembered'
           /\ \A e \in Envelopes : e \in inside' \ inside => since[e] \in {Never, CAPACITY}
<1>1. ASSUME NEW e \in Envelopes, Admit(e)
      PROVE  /\ Remembered'
             /\ \A f \in Envelopes : f \in inside' \ inside => since[f] \in {Never, CAPACITY}
  <2>1. inside' = inside \cup {e} /\ e \notin ToSet(seen)
    BY <1>1 DEF Admit
  <2> QED BY <1>1, <2>1, AdmitRemembered, SeenWhenRemembered
<1>2. ASSUME UNCHANGED <<seen, since>>, inside' \subseteq inside
      PROVE  /\ Remembered'
             /\ \A f \in Envelopes : f \in inside' \ inside => since[f] \in {Never, CAPACITY}
  BY <1>2 DEF Remembered
<1>3. ASSUME NEW e \in Envelopes, Refuse(e) \/ Judge(e) \/ Expire(e)
      PROVE  UNCHANGED <<seen, since>> /\ inside' \subseteq inside
  BY <1>3 DEF Refuse, Judge, Expire
<1>4. ASSUME NEW e \in Envelopes, Replay(e)
      PROVE  UNCHANGED <<seen, since>> /\ inside' \subseteq inside
  BY <1>4 DEF Replay, Insert
<1>5. CASE Advance \/ Tick
  BY <1>2, <1>5 DEF Advance, Tick
<1>6. CASE UNCHANGED vars
  BY <1>2, <1>6 DEF vars
<1> QED BY <1>1, <1>2, <1>3, <1>4, <1>5, <1>6 DEF Next

\* The cache protects against replays for as long as its capacity says, in every
\* order of arrivals and copies: an envelope gets in a second time only after
\* CAPACITY others did.
THEOREM ReplaysNeedAFlood == Spec => ReplayNeedsFlood
<1>1. Init => Remembered
  BY InitRemembered
<1>2. Remembered /\ [Next]_vars =>
          /\ Remembered'
          /\ \A e \in Envelopes : e \in inside' \ inside => since[e] \in {Never, CAPACITY}
  BY NextRemembered
<1> QED BY <1>1, <1>2, PTL DEF Spec, ReplayNeedsFlood

-----------------------------------------------------------------------------
(* Lists of peers                                                          *)

\* Addresses that belong on n's list, and lists that hold none of them twice.
Others(n) == {a \in Addresses : n \in Announcing => a # n}
CleanLists(n) == {list \in Seq(Others(n)) : IsInjective(list)}

LEMMA OthersAreAddresses ==
    ASSUME NEW n
    PROVE  Seq(Others(n)) \subseteq Seq(Addresses) /\ CleanLists(n) \subseteq Seq(Addresses)
<1>1. Others(n) \subseteq Addresses
  BY DEF Others
<1> HIDE DEF Others
<1> QED BY <1>1 DEF CleanLists

\* register_peer looks before it adds.
LEMMA AddKeepsClean ==
    ASSUME NEW n, NEW list \in CleanLists(n), NEW a \in Others(n)
    PROVE  Add(list, a) \in CleanLists(n)
<1> HIDE DEF Others
<1>1. list \in Seq(Others(n)) /\ IsInjective(list)
  BY DEF CleanLists
<1>2. CASE a \in ToSet(list)
  BY <1>2 DEF Add
<1>3. CASE a \notin ToSet(list)
  <2>1. \A i \in 1 .. Len(list) : list[i] # a
    BY <1>1, <1>3 DEF ToSet
  <2>2. Append(list, a) \in Seq(Others(n)) /\ Len(Append(list, a)) = Len(list) + 1
    BY <1>1
  <2>3. \A i, j \in 1 .. Len(list) : list[i] = list[j] => i = j
    BY <1>1 DEF IsInjective
  <2>4. ASSUME NEW i \in 1 .. Len(list) + 1, NEW j \in 1 .. Len(list) + 1,
               Append(list, a)[i] = Append(list, a)[j]
        PROVE  i = j
    <3>1. \A k \in 1 .. Len(list) : Append(list, a)[k] = list[k]
      BY <1>1
    <3>2. Append(list, a)[Len(list) + 1] = a
      BY <1>1
    <3> QED BY <1>1, <2>1, <2>3, <2>4, <3>1, <3>2
  <2>5. IsInjective(Append(list, a))
    BY <1>1, <2>2, <2>4 DEF IsInjective
  <2> QED BY <1>3, <2>2, <2>5 DEF Add, CleanLists
<1> QED BY <1>2, <1>3

LEMMA AddAllKeepsClean ==
    ASSUME NEW n, NEW list \in CleanLists(n), NEW more \in Seq(Others(n))
    PROVE  AddAll(list, more) \in CleanLists(n)
<1> DEFINE step == [a \in Addresses |-> [l \in Seq(Addresses) |-> Add(l, a)]]
<1>1. ASSUME NEW a \in Others(n), NEW l \in CleanLists(n)
      PROVE  step[a][l] \in CleanLists(n)
  <2>1. a \in Addresses /\ l \in Seq(Addresses)
    BY OthersAreAddresses DEF Others
  <2>2. step[a][l] = Add(l, a)
    BY <2>1
  <2> QED BY <2>2, AddKeepsClean
<1> HIDE DEF step
<1>2. Folded(step, list, more) \in CleanLists(n)
  BY <1>1, FoldedStays
<1> QED BY <1>2 DEF AddAll, step

LEMMA TakenType ==
    ASSUME NEW T, NEW list \in Seq(T), NEW k \in Nat
    PROVE  Taken(list, k) \in Seq(T)
<1>1. Len(list) \in Nat /\ k \in Int /\ Len(list) \in Int
  OBVIOUS
<1>2. Min({k, Len(list)}) = IF k <= Len(list) THEN k ELSE Len(list)
  BY <1>1, MinOfTwo
<1>3. ASSUME NEW m \in 0 .. Len(list) PROVE SubSeq(list, 1, m) \in Seq(T)
  OBVIOUS
<1>4. Min({k, Len(list)}) \in 0 .. Len(list)
  BY <1>1, <1>2
<1> QED BY <1>3, <1>4 DEF Taken

LEMMA LearnKeepsClean ==
    ASSUME NEW n, NEW known, NEW learned \in CleanLists(n), NEW theirs \in Seq(Addresses)
    PROVE  Learn(n, known, learned, theirs) \in CleanLists(n)
<1> DEFINE step == [a \in Addresses |->
                      [l \in Seq(Addresses) |-> IF KeepsOut(n, known, a) THEN l ELSE Add(l, a)]]
<1>1. ASSUME NEW a \in Addresses, NEW l \in CleanLists(n)
      PROVE  step[a][l] \in CleanLists(n)
  <2>1. step[a][l] = IF KeepsOut(n, known, a) THEN l ELSE Add(l, a)
    BY OthersAreAddresses
  <2>2. ~KeepsOut(n, known, a) => a \in Others(n)
    BY DEF KeepsOut, Others
  <2> HIDE DEF step
  <2> QED BY <2>1, <2>2, AddKeepsClean
<1>2. Taken(theirs, MAX_LEARNED_PEERS_PER_TICK) \in Seq(Addresses)
  BY TakenType, PeerSyncAssumption
<1> HIDE DEF step
<1>3. Folded(step, learned, Taken(theirs, MAX_LEARNED_PEERS_PER_TICK)) \in CleanLists(n)
  BY <1>1, <1>2, FoldedStays
<1> QED BY <1>3 DEF Learn, step

-----------------------------------------------------------------------------
(* Where a tick is                                                         *)

Heights == 0 .. MaxHeight
Heads == {<<>>} \cup {<<head>> : head \in [peer : Nodes, height : Heights]}

Asking(n) == [at : {"ask"}, known : Seq(Addresses), learned : CleanLists(n),
              left : Seq(Others(n))]
Polling == [at : {"poll"}, ours : Heights, best : Heads, left : Seq(Addresses)]
Fetching == [at : {"fetch"}, peer : Nodes, target : Heights, passes : Nat]
Applying == {t \in [at : {"apply"}, peer : Nodes, target : Heights, passes : Nat,
                    from : Nat, upto : Heights] : t.from <= t.upto}
Saving == [at : {"save"}, then : {Idle} \cup Fetching]
Tasks(n) == {Idle} \cup Asking(n) \cup Polling \cup Fetching \cup Applying \cup Saving

\* A list is clean in memory and on disk, and what a tick carries along between its
\* steps keeps it so.  The snapshot is never ahead of the chain.
ListsOK ==
    /\ peers \in [Nodes -> Seq(Addresses)]
    /\ \A n \in Nodes : peers[n] \in CleanLists(n)
ChainOK == top \in [Nodes -> Heights] /\ \A n \in Nodes : Root[n] <= top[n]
DiskOK ==
    /\ saved \in [Nodes -> [peers : Seq(Addresses), tip : Heights]]
    /\ \A n \in Nodes : /\ saved[n].peers \in CleanLists(n)
                       /\ Root[n] <= saved[n].tip /\ saved[n].tip <= top[n]
TasksOK == DOMAIN task = Nodes /\ \A n \in Nodes : task[n] \in Tasks(n)
FaultsOK == faults \in 0 .. MaxFaults

SyncInv == ListsOK /\ ChainOK /\ DiskOK /\ TasksOK /\ FaultsOK

\* The task of a node in each phase of its tick.
LEMMA TaskPhases ==
    ASSUME NEW n, NEW t \in Tasks(n)
    PROVE  /\ t.at = "ask" => t \in Asking(n)
           /\ t.at = "poll" => t \in Polling
           /\ t.at = "fetch" => t \in Fetching
           /\ t.at = "apply" => t \in Applying
           /\ t.at = "save" => t \in Saving
<1>1. Idle.at = "idle"
  BY DEF Idle
<1>2. /\ \A u \in Asking(n) : u.at = "ask"
      /\ \A u \in Polling : u.at = "poll"
      /\ \A u \in Fetching : u.at = "fetch"
      /\ \A u \in Applying : u.at = "apply"
      /\ \A u \in Saving : u.at = "save"
  BY DEF Asking, Polling, Fetching, Applying, Saving
<1> QED BY <1>1, <1>2 DEF Tasks

\* Losses are counted up to their bound.
LEMMA LosingType ==
    ASSUME FaultsOK, NEW requests, IsFiniteSet(requests), NEW arrived, Losing(requests, arrived)
    PROVE  FaultsOK'
<1>1. IsFiniteSet(requests \ arrived)
  BY FS_Difference
<1>2. Cardinality(requests \ arrived) \in Nat
  BY <1>1, FS_CardinalityType
<1> QED BY <1>2, PeerSyncAssumption DEF FaultsOK, Losing

LEMMA RequestsFinite ==
    /\ IsFiniteSet({"announce", "answer"}) /\ IsFiniteSet({"head"})
    /\ IsFiniteSet({"blocks"}) /\ IsFiniteSet({"chain"})
<1>1. \A r : IsFiniteSet({r})
  BY FS_Singleton
<1>2. {"announce", "answer"} = {"announce"} \cup {"answer"}
  OBVIOUS
<1>3. IsFiniteSet({"announce"} \cup {"answer"})
  BY <1>1, FS_Union
<1> QED BY <1>1, <1>2, <1>3

LEMMA BootnodesAreOthers ==
    ASSUME NEW n \in Nodes
    PROVE  Bootnodes[n] \in Seq(Others(n))
<1>1. Bootnodes[n] \in Seq(Addresses) /\ n \notin ToSet(Bootnodes[n])
  BY PeerSyncAssumption
<1>2. \A i \in 1 .. Len(Bootnodes[n]) : Bootnodes[n][i] \in Others(n)
  BY <1>1 DEF ToSet, Others
<1> HIDE DEF Others
<1> QED BY <1>1, <1>2

LEMMA InitSync == SyncInit => SyncInv
<1> SUFFICES ASSUME SyncInit PROVE SyncInv
  OBVIOUS
<1> USE DEF SyncInit
<1>1. \A n \in Nodes : Bootnodes[n] \in CleanLists(n)
  BY BootnodesAreOthers, PeerSyncAssumption DEF CleanLists
<1>2. ListsOK
  BY <1>1, PeerSyncAssumption DEF ListsOK
<1>3. Max(Range(Root)) \in Heights /\ \A n \in Nodes : Root[n] <= Max(Range(Root))
  <2>1. Range(Root) \in SUBSET (0 .. MaxHeight) /\ \A n \in Nodes : Root[n] \in Range(Root)
    BY PeerSyncAssumption DEF Range
  <2>2. Range(Root) # {} /\ MaxHeight \in Nat
    BY <2>1, PeerSyncAssumption
  <2>3. Max(Range(Root)) \in Range(Root) /\ \A h \in Range(Root) : Max(Range(Root)) >= h
    BY <2>1, <2>2, SubrangeMax
  <2>4. \A h \in 0 .. MaxHeight : h \in Int
    OBVIOUS
  <2> QED BY <2>1, <2>3, <2>4 DEF Heights
<1>4. ChainOK
  BY <1>3, PeerSyncAssumption DEF ChainOK, Heights
<1>5. DiskOK
  <2>1. ASSUME NEW n \in Nodes PROVE <<>> \in CleanLists(n)
    BY DEF CleanLists, IsInjective
  <2>2. \A n \in Nodes : Root[n] \in Int /\ top[n] \in Int
    BY <1>4, PeerSyncAssumption DEF ChainOK, Heights
  <2> QED BY <1>4, <2>1, <2>2 DEF DiskOK, ChainOK
<1>6. TasksOK
  BY DEF TasksOK, Tasks
<1>7. FaultsOK
  BY PeerSyncAssumption DEF FaultsOK
<1> QED BY <1>2, <1>4, <1>5, <1>6, <1>7 DEF SyncInv

\* Heights and limits are integers.
LEMMA HeightsAreInts ==
    /\ MaxHeight \in Nat /\ \A h \in Heights : h \in Nat /\ h <= MaxHeight
    /\ MAX_PEERS_PER_TICK \in Nat /\ MAX_SYNC_BATCH \in Nat
    /\ \A n \in Nodes : Root[n] \in Nat
BY PeerSyncAssumption DEF Heights

\* The other tasks are where they were.
LEMMA TaskMoves ==
    ASSUME TasksOK, NEW n \in Nodes, NEW t \in Tasks(n), task' = [task EXCEPT ![n] = t]
    PROVE  TasksOK'
BY DEF TasksOK

\* A snapshot holds a clean list and the tip: the disk may be written at any time.
LEMMA SnapshotKeepsDisk ==
    ASSUME SyncInv, NEW n \in Nodes, saved' = [saved EXCEPT ![n] = Snapshot(n)], top' = top
    PROVE  DiskOK'
<1>1. Snapshot(n) \in [peers : Seq(Addresses), tip : Heights]
  BY DEF SyncInv, ListsOK, ChainOK, Snapshot
<1>2. /\ Snapshot(n).peers \in CleanLists(n) /\ Snapshot(n).tip = top[n]
      /\ Root[n] <= top[n] /\ top[n] <= top[n]
  BY HeightsAreInts DEF SyncInv, ListsOK, ChainOK, Snapshot
<1> QED BY <1>1, <1>2 DEF SyncInv, DiskOK

\* Announcing and learning: an announcement reaches the list of the peer, an answer
\* the list of what was learned.
LEMMA StartTickKeeps ==
    ASSUME SyncInv, NEW n \in Nodes, StartTick(n)
    PROVE  SyncInv'
<1>1. peers[n] \in Seq(Addresses) /\ peers[n] \in Seq(Others(n))
  BY DEF SyncInv, ListsOK, CleanLists
<1>2. Taken(peers[n], MAX_PEERS_PER_TICK) \in Seq(Others(n))
  BY <1>1, HeightsAreInts, TakenType
<1>3. <<>> \in CleanLists(n)
  BY DEF CleanLists, IsInjective
<1>4. [at |-> "ask", known |-> peers[n], learned |-> <<>>,
       left |-> Taken(peers[n], MAX_PEERS_PER_TICK)] \in Tasks(n)
  BY <1>1, <1>2, <1>3 DEF Tasks, Asking
<1>5. TasksOK'
  BY <1>4, TaskMoves DEF SyncInv, StartTick
<1> QED BY <1>5 DEF SyncInv, StartTick, ListsOK, ChainOK, DiskOK, FaultsOK

LEMMA AskKeeps ==
    ASSUME SyncInv, NEW n \in Nodes, NEW arrived, Ask(n, arrived)
    PROVE  SyncInv'
<1> DEFINE p == Head(task[n].left)
           told == p \in Nodes /\ n \in Announcing /\ "announce" \in arrived
           heard == p \in Nodes /\ "answer" \in arrived
           t == task[n]
<1>1. t \in Asking(n) /\ task[n].left # <<>>
  BY TaskPhases DEF Ask, SyncInv, TasksOK
<1>2. p \in Others(n) /\ Tail(t.left) \in Seq(Others(n))
  BY <1>1 DEF Asking
<1>3. ListsOK'
  <2>1. CASE told
    <3>1. n \in Others(p)
      <4>1. p # n
        BY <1>2, <2>1 DEF Others
      <4> QED BY <4>1 DEF Others, Addresses
    <3>2. Add(peers[p], n) \in CleanLists(p)
      BY <2>1, <3>1, AddKeepsClean DEF SyncInv, ListsOK
    <3>3. peers' = [peers EXCEPT ![p] = Add(peers[p], n)]
      BY <2>1 DEF Ask
    <3>4. Add(peers[p], n) \in Seq(Addresses)
      BY <3>2, OthersAreAddresses
    <3> HIDE DEF p, told
    <3> QED BY <3>2, <3>3, <3>4 DEF SyncInv, ListsOK
  <2>2. CASE ~told
    <3>1. peers' = peers
      BY <2>2 DEF Ask
    <3> QED BY <3>1 DEF SyncInv, ListsOK
  <2> QED BY <2>1, <2>2
<1>4. ChainOK'
  BY DEF SyncInv, ChainOK, Ask
<1>5. DiskOK'
  BY DEF SyncInv, DiskOK, Ask
<1>6. TasksOK'
  <2> DEFINE learned == IF heard THEN Learn(n, t.known, t.learned, peers'[p]) ELSE t.learned
  <2>1. learned \in CleanLists(n)
    <3>1. CASE heard
      <4>1. peers'[p] \in Seq(Addresses) /\ t.learned \in CleanLists(n)
        BY <1>1, <1>3, <3>1 DEF ListsOK, Asking
      <4>2. Learn(n, t.known, t.learned, peers'[p]) \in CleanLists(n)
        BY <4>1, LearnKeepsClean
      <4> QED BY <3>1, <4>2
    <3>2. CASE ~heard
      BY <1>1, <3>2 DEF Asking
    <3> QED BY <3>1, <3>2
  <2>2. task' = [task EXCEPT ![n] = [t EXCEPT !.left = Tail(t.left), !.learned = learned]]
    <3>1. n \in DOMAIN task /\ DOMAIN t = {"at", "known", "learned", "left"}
      BY <1>1 DEF Asking, SyncInv, TasksOK
    <3>2. [t EXCEPT !.left = Tail(t.left)].learned = t.learned
      BY <3>1
    <3>3. task' = [task EXCEPT ![n].left = Tail(@),
                               ![n].learned = IF heard THEN Learn(n, t.known, @, peers'[p]) ELSE @]
      BY DEF Ask
    <3> HIDE DEF heard, p
    <3> QED BY <3>1, <3>2, <3>3
  <2> HIDE DEF learned, p, told, heard
  <2>3. [t EXCEPT !.left = Tail(t.left), !.learned = learned] \in Asking(n)
    BY <1>1, <1>2, <2>1 DEF Asking
  <2>4. [t EXCEPT !.left = Tail(t.left), !.learned = learned] \in Tasks(n)
    BY <2>3 DEF Tasks
  <2> QED BY <2>2, <2>4, TaskMoves DEF SyncInv
<1>7. FaultsOK'
  BY LosingType, RequestsFinite DEF SyncInv, Ask
<1> QED BY <1>3, <1>4, <1>5, <1>6, <1>7 DEF SyncInv

LEMMA MergeKeeps ==
    ASSUME SyncInv, NEW n \in Nodes, Merge(n)
    PROVE  SyncInv'
<1>1. task[n] \in Asking(n)
  BY TaskPhases DEF Merge, SyncInv, TasksOK
<1>2. task[n].learned \in Seq(Others(n)) /\ peers[n] \in CleanLists(n)
  BY <1>1 DEF Asking, CleanLists, SyncInv, ListsOK
<1>3. Merged(peers[n], task[n].learned) \in CleanLists(n)
  BY <1>2, AddAllKeepsClean DEF Merged
<1>4. peers' = [peers EXCEPT ![n] = Merged(peers[n], task[n].learned)]
  BY DEF Merge
<1>5. ListsOK'
  <2>1. Merged(peers[n], task[n].learned) \in Seq(Addresses)
    BY <1>3, OthersAreAddresses
  <2> QED BY <1>3, <1>4, <2>1 DEF SyncInv, ListsOK
<1>6. Taken(peers'[n], MAX_PEERS_PER_TICK) \in Seq(Addresses)
  BY <1>5, HeightsAreInts, TakenType DEF ListsOK
<1>7. [at |-> "poll", ours |-> top[n], best |-> <<>>,
       left |-> Taken(peers'[n], MAX_PEERS_PER_TICK)] \in Tasks(n)
  BY <1>6 DEF SyncInv, ChainOK, Tasks, Polling, Heads
<1>8. TasksOK'
  BY <1>7, TaskMoves DEF SyncInv, Merge
<1> QED BY <1>5, <1>8 DEF SyncInv, Merge, ChainOK, DiskOK, FaultsOK

\* Catching up: the best head, the batch, and what becomes of it.
LEMMA PollKeeps ==
    ASSUME SyncInv, NEW n \in Nodes, NEW arrived, Poll(n, arrived)
    PROVE  SyncInv'
<1> DEFINE p == Head(task[n].left)
           t == task[n]
           better == p \in Nodes /\ arrived # {} /\ SameNetwork(n, p) /\ Better(top[p], t.best)
           best == IF better THEN <<[peer |-> p, height |-> top[p]]>> ELSE t.best
<1>1. t \in Polling /\ task[n].left # <<>>
  BY TaskPhases DEF Poll, SyncInv, TasksOK
<1>2. best \in Heads
  BY <1>1 DEF Polling, Heads, SyncInv, ChainOK
<1>3. Tail(t.left) \in Seq(Addresses)
  BY <1>1 DEF Polling
<1>4. task' = [task EXCEPT ![n] = [t EXCEPT !.left = Tail(t.left), !.best = best]]
  BY DEF Poll
<1> HIDE DEF p, best, better
<1>5. [t EXCEPT !.left = Tail(t.left), !.best = best] \in Polling
  BY <1>1, <1>2, <1>3 DEF Polling
<1>6. [t EXCEPT !.left = Tail(t.left), !.best = best] \in Tasks(n)
  BY <1>5 DEF Tasks
<1>7. TasksOK'
  BY <1>4, <1>6, TaskMoves DEF SyncInv
<1>8. FaultsOK'
  BY LosingType, RequestsFinite DEF SyncInv, Poll
<1> QED BY <1>7, <1>8 DEF SyncInv, Poll, ListsOK, ChainOK, DiskOK

LEMMA ChooseKeeps ==
    ASSUME SyncInv, NEW n \in Nodes, Choose(n)
    PROVE  SyncInv'
<1> DEFINE t == task[n]
           ahead == t.best # <<>> /\ t.best[1].height > t.ours
           next == IF ahead THEN [at |-> "fetch", peer |-> t.best[1].peer,
                                  target |-> t.best[1].height, passes |-> 0]
                   ELSE Idle
<1>1. t \in Polling
  BY TaskPhases DEF Choose, SyncInv, TasksOK
<1>2. next \in Tasks(n)
  <2>1. CASE ahead
    <3>1. t.best \in Heads /\ t.best # <<>>
      BY <1>1, <2>1 DEF Polling
    <3>2. PICK head \in [peer : Nodes, height : Heights] : t.best = <<head>>
      BY <3>1 DEF Heads
    <3>3. t.best[1] = head
      BY <3>2
    <3>4. t.best[1].peer \in Nodes /\ t.best[1].height \in Heights
      BY <3>2, <3>3
    <3> QED BY <2>1, <3>4 DEF Tasks, Fetching
  <2>2. CASE ~ahead
    BY <2>2 DEF Tasks
  <2> QED BY <2>1, <2>2
<1>3. task' = [task EXCEPT ![n] = next]
  BY DEF Choose
<1> HIDE DEF next
<1>4. TasksOK'
  BY <1>2, <1>3, TaskMoves DEF SyncInv
<1> QED BY <1>4 DEF SyncInv, Choose, ListsOK, ChainOK, DiskOK, FaultsOK

LEMMA FetchKeeps ==
    ASSUME SyncInv, NEW n \in Nodes, NEW arrived, Fetch(n, arrived)
    PROVE  SyncInv'
<1> DEFINE t == task[n]
           p == t.peer
           from == top[n] + 1
           upto == Min({top[n] + MAX_SYNC_BATCH, top[p]})
           goes == /\ t.passes < MAX_BATCHES_PER_PASS /\ from <= t.target
                   /\ arrived # {} /\ from >= Root[p] /\ from <= upto
           next == IF goes
                   THEN [at |-> "apply", peer |-> p, target |-> t.target,
                         passes |-> t.passes + 1, from |-> from, upto |-> upto]
                   ELSE Idle
<1>1. t \in Fetching
  BY TaskPhases DEF Fetch, SyncInv, TasksOK
<1>2. top[n] \in Heights /\ top[p] \in Heights
  BY <1>1 DEF Fetching, SyncInv, ChainOK
<1>3. upto \in Heights
  <2>1. top[n] + MAX_SYNC_BATCH \in Nat /\ top[p] \in Nat
    BY <1>2, HeightsAreInts
  <2>2. upto = IF top[n] + MAX_SYNC_BATCH <= top[p] THEN top[n] + MAX_SYNC_BATCH ELSE top[p]
    BY <2>1, MinOfTwo
  <2> HIDE DEF upto
  <2>3. MaxHeight \in Nat
    BY HeightsAreInts
  <2> QED BY <1>2, <2>1, <2>2, <2>3 DEF Heights
<1>4. next \in Tasks(n)
  <2>1. CASE goes
    <3>1. from \in Nat
      BY <1>2, HeightsAreInts
    <3>2. p \in Nodes /\ t.target \in Heights /\ t.passes + 1 \in Nat
      BY <1>1 DEF Fetching
    <3>3. next = [at |-> "apply", peer |-> p, target |-> t.target,
                  passes |-> t.passes + 1, from |-> from, upto |-> upto] /\ from <= upto
      BY <2>1
    <3>4. next \in Applying
      <4> HIDE DEF upto, from, p, goes, next
      <4> QED BY <1>3, <3>1, <3>2, <3>3 DEF Applying
    <3> QED BY <3>4 DEF Tasks
  <2>2. CASE ~goes
    BY <2>2 DEF Tasks
  <2> QED BY <2>1, <2>2
<1>5. task' = [task EXCEPT ![n] = next]
  BY DEF Fetch
<1> HIDE DEF next
<1>6. TasksOK'
  BY <1>4, <1>5, TaskMoves DEF SyncInv
<1>7. FaultsOK'
  BY LosingType, RequestsFinite DEF SyncInv, Fetch
<1> QED BY <1>6, <1>7 DEF SyncInv, Fetch, ListsOK, ChainOK, DiskOK

LEMMA ApplyKeeps ==
    ASSUME SyncInv, NEW n \in Nodes, NEW arrived, Apply(n, arrived)
    PROVE  SyncInv'
<1> DEFINE t == task[n]
           p == t.peer
           fits == top[n] + 1 = t.from
           reached == IF fits THEN t.upto
                      ELSE IF arrived # {} THEN Max({top[n], top[p]}) ELSE top[n]
           then == IF fits THEN NextPass(t) ELSE Idle
           next == IF reached = top[n] THEN Idle ELSE [at |-> "save", then |-> then]
<1>1. t \in Applying
  BY TaskPhases DEF Apply, SyncInv, TasksOK
<1>2. top[n] \in Heights /\ top[p] \in Heights /\ Root[n] <= top[n]
  BY <1>1 DEF Applying, SyncInv, ChainOK
<1>3. top[n] \in Nat /\ top[p] \in Nat /\ Root[n] \in Nat
  BY <1>2, HeightsAreInts
<1>4. reached \in Heights /\ top[n] <= reached
  <2>1. CASE fits
    BY <1>1, <1>3, <2>1, HeightsAreInts DEF Applying
  <2>2. CASE ~fits
    <3>1. Max({top[n], top[p]}) = IF top[n] >= top[p] THEN top[n] ELSE top[p]
      BY <1>3, MaxOfTwo
    <3> QED BY <1>2, <1>3, <2>2, <3>1
  <2> QED BY <2>1, <2>2
<1>5. reached \in Nat
  BY <1>4, HeightsAreInts
<1>6. next \in Tasks(n)
  <2>1. then \in {Idle} \cup Fetching
    BY <1>1 DEF NextPass, Fetching, Applying
  <2> HIDE DEF then, reached
  <2> QED BY <2>1 DEF Tasks, Saving
<1>7. /\ top' = [top EXCEPT ![n] = reached]
      /\ task' = [task EXCEPT ![n] = next]
      /\ saved' = saved /\ peers' = peers /\ Losing({"chain"}, arrived)
  BY DEF Apply
<1> HIDE DEF next, then, reached, p
<1>8. ListsOK' /\ ChainOK'
  BY <1>2, <1>3, <1>4, <1>5, <1>7 DEF SyncInv, ListsOK, ChainOK
<1>9. DiskOK'
  <2>1. \A m \in Nodes : saved[m].tip \in Nat /\ top[m] \in Nat
    BY HeightsAreInts DEF SyncInv, DiskOK, ChainOK
  <2> QED BY <1>3, <1>4, <1>5, <1>7, <2>1 DEF SyncInv, DiskOK, ChainOK
<1>10. TasksOK'
  BY <1>6, <1>7, TaskMoves DEF SyncInv
<1>11. FaultsOK'
  BY <1>7, LosingType, RequestsFinite DEF SyncInv
<1> QED BY <1>8, <1>9, <1>10, <1>11 DEF SyncInv

\* What a step committed is saved by a later one, of the tick or of a handler.
LEMMA SaveKeeps ==
    ASSUME SyncInv, NEW n \in Nodes, Save(n)
    PROVE  SyncInv'
<1>1. task[n] \in Saving
  BY TaskPhases DEF Save, SyncInv, TasksOK
<1>2. task[n].then \in Tasks(n)
  BY <1>1 DEF Saving, Tasks
<1>3. task' = [task EXCEPT ![n] = task[n].then]
  BY DEF Save
<1>4. TasksOK'
  BY <1>2, <1>3, TaskMoves DEF SyncInv
<1>5. DiskOK'
  BY SnapshotKeepsDisk DEF Save
<1> QED BY <1>4, <1>5 DEF SyncInv, Save, ListsOK, ChainOK, FaultsOK

LEMMA PersistKeeps ==
    ASSUME SyncInv, NEW n \in Nodes, Persist(n)
    PROVE  SyncInv'
<1>1. DiskOK'
  BY SnapshotKeepsDisk DEF Persist
<1> QED BY <1>1 DEF SyncInv, Persist, ListsOK, ChainOK, TasksOK, FaultsOK

\* One block more, not on disk yet.
LEMMA BlockKeeps ==
    ASSUME SyncInv, NEW n \in Nodes, top[n] + 1 <= MaxHeight,
           top' = [top EXCEPT ![n] = @ + 1], UNCHANGED <<peers, task, saved, faults>>
    PROVE  SyncInv'
<1>1. \A m \in Nodes : /\ top[m] \in Nat /\ top[m] <= MaxHeight /\ Root[m] \in Nat
                       /\ saved[m].tip \in Nat /\ Root[m] <= top[m]
  BY HeightsAreInts DEF SyncInv, ChainOK, DiskOK
<1>2. top[n] + 1 \in Heights /\ top'[n] = top[n] + 1
  BY <1>1, HeightsAreInts DEF Heights, SyncInv, ChainOK
<1>3. ChainOK'
  BY <1>1, <1>2 DEF SyncInv, ChainOK
<1>4. DiskOK'
  BY <1>1, <1>2 DEF SyncInv, DiskOK, ChainOK
<1> QED BY <1>3, <1>4 DEF SyncInv, ListsOK, TasksOK, FaultsOK

\* The bootnodes join what the snapshot holds.
LEMMA RestartKeeps ==
    ASSUME SyncInv, NEW n \in Nodes, Restart(n)
    PROVE  SyncInv'
<1>1. Bootnodes[n] \in Seq(Others(n))
  BY BootnodesAreOthers
<1>2. AddAll(saved[n].peers, Bootnodes[n]) \in CleanLists(n)
  BY <1>1, AddAllKeepsClean DEF SyncInv, DiskOK
<1>3. ListsOK'
  <2>1. AddAll(saved[n].peers, Bootnodes[n]) \in Seq(Addresses)
    BY <1>2, OthersAreAddresses
  <2> QED BY <1>2, <2>1 DEF SyncInv, ListsOK, Restart
<1>4. \A m \in Nodes : saved[m].tip \in Nat /\ saved[m].tip \in Heights
  BY HeightsAreInts DEF SyncInv, DiskOK
<1>5. ChainOK' /\ DiskOK'
  BY <1>4 DEF SyncInv, ChainOK, DiskOK, Restart
<1>6. TasksOK'
  BY TaskMoves DEF SyncInv, Restart, Tasks
<1>7. FaultsOK'
  BY PeerSyncAssumption DEF SyncInv, FaultsOK, Restart
<1> QED BY <1>3, <1>5, <1>6, <1>7 DEF SyncInv

LEMMA NextSync ==
    ASSUME SyncInv, [SyncNext]_syncVars
    PROVE  SyncInv'
<1>1. ASSUME NEW n \in Nodes, TickStep(n) PROVE SyncInv'
  <2>1. CASE StartTick(n)
    BY <2>1, StartTickKeeps
  <2>2. CASE Merge(n) \/ Choose(n)
    BY <2>2, MergeKeeps, ChooseKeeps
  <2>3. ASSUME NEW arrived, Ask(n, arrived) \/ Poll(n, arrived) PROVE SyncInv'
    BY <2>3, AskKeeps, PollKeeps
  <2>4. ASSUME NEW arrived, Fetch(n, arrived) \/ Apply(n, arrived) PROVE SyncInv'
    BY <2>4, FetchKeeps, ApplyKeeps
  <2>5. CASE Save(n)
    BY <2>5, SaveKeeps
  <2> QED BY <1>1, <2>1, <2>2, <2>3, <2>4, <2>5 DEF TickStep
<1>2. ASSUME NEW n \in Nodes, Gossip(n) PROVE SyncInv'
  <2>1. top[n] + 1 <= saved[Producer].tip /\ Producer \in Nodes
    BY <1>2, PeerSyncAssumption DEF Gossip
  <2>2. saved[Producer].tip \in Nat /\ saved[Producer].tip <= MaxHeight /\ top[n] \in Nat
    BY <2>1, HeightsAreInts DEF SyncInv, DiskOK, ChainOK
  <2>3. top[n] + 1 <= MaxHeight
    BY <2>1, <2>2, HeightsAreInts
  <2> QED BY <1>2, <2>3, BlockKeeps DEF Gossip
<1>3. ASSUME NEW n \in Crashing, Persist(n) \/ Restart(n) PROVE SyncInv'
  BY <1>3, PersistKeeps, RestartKeeps, PeerSyncAssumption
<1>4. CASE Produce
  <2>1. Producer \in Nodes /\ MaxHeight \in Nat
    BY PeerSyncAssumption
  <2>2. top[Producer] + 1 <= MaxHeight
    <3>1. top[Producer] \in Nat
      BY <2>1, HeightsAreInts DEF SyncInv, ChainOK
    <3> QED BY <1>4, <2>1, <3>1 DEF Produce
  <2> QED BY <1>4, <2>1, <2>2, BlockKeeps DEF Produce
<1>5. CASE UNCHANGED syncVars
  BY <1>5 DEF syncVars, SyncInv, ListsOK, ChainOK, DiskOK, TasksOK, FaultsOK
<1> QED BY <1>1, <1>2, <1>3, <1>4, <1>5 DEF SyncNext

\* The chain of a node reaches from its root to the height of the network and never
\* falls behind the snapshot it would restart from, for every set of nodes, roots,
\* limits and lost requests.
THEOREM SyncTypesHold == SyncSpec => []TypeOK
<1>1. SyncInv => TypeOK
  BY HeightsAreInts DEF SyncInv, ListsOK, ChainOK, DiskOK, FaultsOK, TypeOK, Heights
<1> QED BY InitSync, NextSync, <1>1, PTL DEF SyncSpec

\* Announcements that register_peer takes in, restarts and what a tick learned while
\* others wrote the same list: none of them ever leaves a peer on it twice, nor a node
\* that knows its own address on its own list.
THEOREM PeerListsHold == SyncSpec => []PeerListsStayClean
<1>1. SyncInv => PeerListsStayClean
  <2> SUFFICES ASSUME SyncInv, NEW n \in Nodes
               PROVE  IsInjective(peers[n]) /\ (n \in Announcing => n \notin ToSet(peers[n]))
    BY DEF PeerListsStayClean
  <2>1. peers[n] \in Seq(Others(n)) /\ IsInjective(peers[n])
    BY DEF SyncInv, ListsOK, CleanLists
  <2>2. \A i \in DOMAIN peers[n] : peers[n][i] \in Others(n)
    BY <2>1
  <2> QED BY <2>1, <2>2 DEF ToSet, Others
<1> QED BY InitSync, NextSync, <1>1, PTL DEF SyncSpec
=============================================================================
