----------------------------- MODULE NodeProofs -----------------------------
(***************************************************************************)
(* What the request handlers of one node promise: they never wait for each *)
(* other in a circle (NodeLocks), and the pool they share stays in order   *)
(* whatever races (Mempool).                                               *)
(*                                                                         *)
(* Locks.  What a task holds can be read off the rest of its script: the   *)
(* locks it releases before it takes them.  A script is sound if at every  *)
(* lock step all that is held ranks below the lock.  Soundness is kept by  *)
(* joining scripts and by holding a lower lock around one, so the scripts  *)
(* of all handlers but the two of Inverted are sound by the way they are   *)
(* put together.                                                           *)
(*                                                                         *)
(* Pool.  The transfers of one sender stand in the order of their nonces,  *)
(* without a gap from the chain's nonce on.  So the projected state has    *)
(* consumed all of them, and what applies to it comes after them all.      *)
(***************************************************************************)
EXTENDS NodeLocks, Mempool, DataTheorems

-----------------------------------------------------------------------------
(* Locks                                                                   *)

\* The order of persist_state, continued over the locks it does not take.
Rank == [chain |-> 1, contracts |-> 2, pending |-> 3, peers |-> 4, governance |-> 5,
         slash_evidence |-> 6, metrics |-> 7, peer_book |-> 8, seen |-> 9]

Steps == {"lock", "unlock"} \X Locks

\* At step i of s the lock l is held: it is released before it is taken.
Held(s, i, l) ==
    \E j \in i .. Len(s) :
        s[j] = <<"unlock", l>> /\ \A k \in i .. j : s[k] # <<"lock", l>>

\* Every lock is taken above all that are held, held from there, and released once.
Ordered(s) ==
    \A i \in 1 .. Len(s), l \in Locks :
        /\ s[i] = <<"lock", l>> =>
              /\ Held(s, i + 1, l)
              /\ \A h \in Locks : Held(s, i, h) => Rank[h] < Rank[l]
        /\ s[i] = <<"unlock", l>> => ~Held(s, i + 1, l)

Above(s, r) ==
    \A i \in 1 .. Len(s), l \in Locks : s[i] = <<"lock", l>> => Rank[l] > r

Sound(s, r) ==
    /\ s \in Seq(Steps)
    /\ Ordered(s)
    /\ Above(s, r)
    /\ \A l \in Locks : ~Held(s, 1, l)

-----------------------------------------------------------------------------
(* How scripts are put together                                            *)

\* Lemma: ranks are numbers.
LEMMA RankType == Rank \in [Locks -> 1 .. 9]
BY DEF Rank, Locks

\* Lemma: the empty script is sound.
LEMMA EmptySound == \A r \in Nat : Sound(<<>>, r)
BY DEF Sound, Ordered, Above, Held

\* Lemma: what is held inside the first of two scripts is what it holds alone.
LEMMA HeldInFirst ==
    ASSUME NEW s \in Seq(Steps), NEW t \in Seq(Steps), NEW l \in Locks, ~Held(t, 1, l),
           NEW i \in 1 .. Len(s) + 1
    PROVE  Held(s \o t, i, l) <=> Held(s, i, l)
<1> DEFINE st == s \o t
<1>1. /\ Len(st) = Len(s) + Len(t)
      /\ \A k \in 1 .. Len(s) : st[k] = s[k]
      /\ \A k \in 1 .. Len(t) : st[Len(s) + k] = t[k]
  OBVIOUS
<1>2. ASSUME Held(s, i, l) PROVE Held(st, i, l)
  <2>1. PICK j \in i .. Len(s) :
            s[j] = <<"unlock", l>> /\ \A k \in i .. j : s[k] # <<"lock", l>>
    BY <1>2 DEF Held
  <2>2. j \in i .. Len(st) /\ st[j] = <<"unlock", l>> /\ \A k \in i .. j : st[k] # <<"lock", l>>
    BY <2>1, <1>1
  <2> QED BY <2>2 DEF Held
<1>3. ASSUME Held(st, i, l) PROVE Held(s, i, l)
  <2>1. PICK j \in i .. Len(st) :
            st[j] = <<"unlock", l>> /\ \A k \in i .. j : st[k] # <<"lock", l>>
    BY <1>3 DEF Held
  <2>2. CASE j <= Len(s)
    <3>1. j \in i .. Len(s) /\ s[j] = <<"unlock", l>> /\ \A k \in i .. j : s[k] # <<"lock", l>>
      BY <2>1, <2>2, <1>1
    <3> QED BY <3>1 DEF Held
  <2>3. CASE j > Len(s)
    <3> DEFINE m == j - Len(s)
    <3>1. m \in 1 .. Len(t) /\ st[Len(s) + m] = t[m]
      BY <2>1, <2>3, <1>1
    <3>2. t[m] = <<"unlock", l>>
      BY <2>1, <2>3, <3>1
    <3>3. ASSUME NEW k \in 1 .. m PROVE t[k] # <<"lock", l>>
      <4>1. k \in 1 .. Len(t) /\ st[Len(s) + k] = t[k]
        BY <3>1, <1>1
      <4>2. Len(s) + k \in i .. j
        BY <3>1, <2>1, <2>3
      <4> QED BY <4>1, <4>2, <2>1
    <3>4. Held(t, 1, l)
      BY <3>1, <3>2, <3>3 DEF Held
    <3> QED BY <3>4
  <2> QED BY <2>1, <2>2, <2>3, <1>1
<1> QED BY <1>2, <1>3

\* Lemma: what is held inside the second of two scripts is what it holds alone.
LEMMA HeldInSecond ==
    ASSUME NEW s \in Seq(Steps), NEW t \in Seq(Steps), NEW l \in Locks,
           NEW i \in 1 .. Len(t) + 1
    PROVE  Held(s \o t, Len(s) + i, l) <=> Held(t, i, l)
<1> DEFINE st == s \o t
<1>1. /\ Len(st) = Len(s) + Len(t)
      /\ \A k \in 1 .. Len(t) : st[Len(s) + k] = t[k]
  OBVIOUS
<1>2. ASSUME Held(t, i, l) PROVE Held(st, Len(s) + i, l)
  <2>1. PICK j \in i .. Len(t) :
            t[j] = <<"unlock", l>> /\ \A k \in i .. j : t[k] # <<"lock", l>>
    BY <1>2 DEF Held
  <2>2. Len(s) + j \in Len(s) + i .. Len(st) /\ st[Len(s) + j] = <<"unlock", l>>
    BY <2>1, <1>1
  <2>3. ASSUME NEW k \in Len(s) + i .. Len(s) + j PROVE st[k] # <<"lock", l>>
    <3>1. k - Len(s) \in i .. j /\ k - Len(s) \in 1 .. Len(t) /\ k = Len(s) + (k - Len(s))
      BY <2>1
    <3>2. st[Len(s) + (k - Len(s))] = t[k - Len(s)]
      BY <3>1, <1>1
    <3> QED BY <3>1, <3>2, <2>1
  <2> QED BY <2>2, <2>3 DEF Held
<1>3. ASSUME Held(st, Len(s) + i, l) PROVE Held(t, i, l)
  <2>1. PICK j \in Len(s) + i .. Len(st) :
            st[j] = <<"unlock", l>> /\ \A k \in Len(s) + i .. j : st[k] # <<"lock", l>>
    BY <1>3 DEF Held
  <2> DEFINE m == j - Len(s)
  <2>2. m \in i .. Len(t) /\ m \in 1 .. Len(t) /\ j = Len(s) + m
    BY <2>1, <1>1
  <2>3. t[m] = <<"unlock", l>>
    BY <2>1, <2>2, <1>1
  <2>4. ASSUME NEW k \in i .. m PROVE t[k] # <<"lock", l>>
    <3>1. Len(s) + k \in Len(s) + i .. j /\ k \in 1 .. Len(t)
      BY <2>2
    <3> QED BY <3>1, <2>1, <1>1
  <2> QED BY <2>2, <2>3, <2>4 DEF Held
<1> QED BY <1>2, <1>3

\* Lemma: joining sound scripts gives a sound script.
LEMMA SoundJoin ==
    ASSUME NEW r \in Nat, NEW s, NEW t, Sound(s, r), Sound(t, r)
    PROVE  Sound(s \o t, r)
<1> DEFINE st == s \o t
<1>1. s \in Seq(Steps) /\ t \in Seq(Steps)
  BY DEF Sound
<1>2. /\ st \in Seq(Steps) /\ Len(st) = Len(s) + Len(t)
      /\ \A k \in 1 .. Len(s) : st[k] = s[k]
      /\ \A k \in 1 .. Len(t) : st[Len(s) + k] = t[k]
  BY <1>1
<1>3. \A l \in Locks : ~Held(s, 1, l) /\ ~Held(t, 1, l)
  BY DEF Sound
<1>4. \A l \in Locks, i \in 1 .. Len(s) + 1 : Held(st, i, l) <=> Held(s, i, l)
  BY <1>1, <1>3, HeldInFirst
<1>5. \A l \in Locks, i \in 1 .. Len(t) + 1 : Held(st, Len(s) + i, l) <=> Held(t, i, l)
  BY <1>1, HeldInSecond
<1>6. ASSUME NEW i \in 1 .. Len(st), NEW l \in Locks
      PROVE  /\ st[i] = <<"lock", l>> =>
                   /\ Rank[l] > r
                   /\ Held(st, i + 1, l)
                   /\ \A h \in Locks : Held(st, i, h) => Rank[h] < Rank[l]
             /\ st[i] = <<"unlock", l>> => ~Held(st, i + 1, l)
  <2>1. CASE i <= Len(s)
    <3>1. i \in 1 .. Len(s) /\ i \in 1 .. Len(s) + 1 /\ i + 1 \in 1 .. Len(s) + 1 /\ st[i] = s[i]
      BY <1>1, <1>2, <2>1
    <3>2. \A h \in Locks : Held(st, i, h) <=> Held(s, i, h)
      BY <3>1, <1>4
    <3>3. Held(st, i + 1, l) <=> Held(s, i + 1, l)
      BY <3>1, <1>4
    <3>4. Ordered(s) /\ Above(s, r)
      BY DEF Sound
    <3> HIDE DEF st
    <3> QED BY <3>1, <3>2, <3>3, <3>4 DEF Ordered, Above
  <2>2. CASE i > Len(s)
    <3> DEFINE j == i - Len(s)
    <3>1. j \in 1 .. Len(t) /\ j \in 1 .. Len(t) + 1 /\ j + 1 \in 1 .. Len(t) + 1 /\ i = Len(s) + j
          /\ i + 1 = Len(s) + (j + 1)
      BY <1>1, <1>2, <2>2
    <3>2. st[i] = t[j]
      BY <3>1, <1>2
    <3>3. \A h \in Locks : Held(st, i, h) <=> Held(t, j, h)
      BY <3>1, <1>5
    <3>4. Held(st, i + 1, l) <=> Held(t, j + 1, l)
      BY <3>1, <1>5
    <3>5. Ordered(t) /\ Above(t, r)
      BY DEF Sound
    <3> HIDE DEF st, j
    <3> QED BY <3>1, <3>2, <3>3, <3>4, <3>5 DEF Ordered, Above
  <2> QED BY <2>1, <2>2, <1>1, <1>2
<1>7. \A l \in Locks : ~Held(st, 1, l)
  BY <1>1, <1>3, <1>4
<1> HIDE DEF st
<1>8. Sound(st, r)
  BY <1>2, <1>6, <1>7 DEF Sound, Ordered, Above
<1> QED BY <1>8 DEF st

\* Lemma: a lock may be held around a sound script of higher locks.
LEMMA SoundHolding ==
    ASSUME NEW r \in Nat, NEW l \in Locks, Rank[l] > r, NEW s, Sound(s, Rank[l])
    PROVE  Sound(Holding(l, s), r)
<1> DEFINE hs == Holding(l, s)
<1>1. s \in Seq(Steps) /\ Rank[l] \in Nat /\ (\A h \in Locks : Rank[h] \in Nat)
  BY RankType DEF Sound
<1>2. /\ hs \in Seq(Steps) /\ Len(hs) = Len(s) + 2
      /\ hs[1] = <<"lock", l>>
      /\ \A k \in 1 .. Len(s) : hs[k + 1] = s[k]
      /\ hs[Len(s) + 2] = <<"unlock", l>>
  BY <1>1 DEF Holding, Steps
<1>3. Ordered(s) /\ Above(s, Rank[l]) /\ \A h \in Locks : ~Held(s, 1, h)
  BY DEF Sound
<1>4. ASSUME NEW k \in 2 .. Len(s) + 2 PROVE hs[k] # <<"lock", l>>
  <2>1. CASE k = Len(s) + 2
    BY <2>1, <1>2
  <2>2. CASE k # Len(s) + 2
    <3>1. k - 1 \in 1 .. Len(s) /\ k = (k - 1) + 1
      BY <1>1, <2>2
    <3>2. hs[k] = s[k - 1]
      BY <3>1, <1>2
    <3>3. s[k - 1] # <<"lock", l>>
      BY <3>1, <1>1, <1>3 DEF Above
    <3> QED BY <3>2, <3>3
  <2> QED BY <2>1, <2>2
<1>5. ASSUME NEW i \in 2 .. Len(s) + 2 PROVE Held(hs, i, l)
  <2>1. Len(s) + 2 \in i .. Len(hs) /\ \A k \in i .. Len(s) + 2 : k \in 2 .. Len(s) + 2
    BY <1>1, <1>2
  <2> QED BY <2>1, <1>2, <1>4 DEF Held
<1>6. ASSUME NEW h \in Locks \ {l}, NEW i \in 1 .. Len(s) + 1
      PROVE  Held(hs, i + 1, h) <=> Held(s, i, h)
  <2>1. ASSUME Held(s, i, h) PROVE Held(hs, i + 1, h)
    <3>1. PICK j \in i .. Len(s) :
              s[j] = <<"unlock", h>> /\ \A k \in i .. j : s[k] # <<"lock", h>>
      BY <2>1 DEF Held
    <3>2. j + 1 \in i + 1 .. Len(hs) /\ hs[j + 1] = <<"unlock", h>>
      BY <3>1, <1>1, <1>2
    <3>3. ASSUME NEW k \in i + 1 .. j + 1 PROVE hs[k] # <<"lock", h>>
      <4>1. k - 1 \in i .. j /\ k - 1 \in 1 .. Len(s) /\ k = (k - 1) + 1
        BY <1>1, <3>1
      <4> QED BY <4>1, <3>1, <1>2
    <3> QED BY <3>2, <3>3 DEF Held
  <2>2. ASSUME Held(hs, i + 1, h) PROVE Held(s, i, h)
    <3>1. PICK j \in i + 1 .. Len(hs) :
              hs[j] = <<"unlock", h>> /\ \A k \in i + 1 .. j : hs[k] # <<"lock", h>>
      BY <2>2 DEF Held
    <3>2. j # Len(s) + 2
      BY <3>1, <1>2
    <3>3. j - 1 \in i .. Len(s) /\ j - 1 \in 1 .. Len(s) /\ j = (j - 1) + 1
      BY <3>1, <3>2, <1>1, <1>2
    <3>4. s[j - 1] = <<"unlock", h>>
      BY <3>1, <3>3, <1>2
    <3>5. ASSUME NEW k \in i .. j - 1 PROVE s[k] # <<"lock", h>>
      <4>1. k + 1 \in i + 1 .. j /\ k \in 1 .. Len(s)
        BY <3>3, <1>1
      <4> QED BY <4>1, <3>1, <1>2
    <3> QED BY <3>3, <3>4, <3>5 DEF Held
  <2> QED BY <2>1, <2>2
<1>7. ASSUME NEW h \in Locks PROVE ~Held(hs, 1, h)
  <2>1. CASE h = l
    BY <2>1, <1>2 DEF Held
  <2>2. CASE h # l
    <3>1. ~Held(hs, 2, h)
      <4>1. 1 \in 1 .. Len(s) + 1
        BY <1>1
      <4>2. Held(hs, 1 + 1, h) <=> Held(s, 1, h)
        BY <4>1, <2>2, <1>6
      <4> QED BY <4>2, <1>3
    <3>2. ASSUME Held(hs, 1, h) PROVE Held(hs, 2, h)
      <4>1. PICK j \in 1 .. Len(hs) :
                hs[j] = <<"unlock", h>> /\ \A k \in 1 .. j : hs[k] # <<"lock", h>>
        BY <3>2 DEF Held
      <4>2. j # 1
        BY <4>1, <1>2
      <4>3. j \in 2 .. Len(hs) /\ \A k \in 2 .. j : k \in 1 .. j
        BY <4>1, <4>2, <1>1, <1>2
      <4> QED BY <4>1, <4>3 DEF Held
    <3> QED BY <3>1, <3>2
  <2> QED BY <2>1, <2>2
<1>8. ~Held(hs, Len(s) + 3, l)
  BY <1>1, <1>2 DEF Held
<1>9. ASSUME NEW i \in 1 .. Len(hs), NEW h \in Locks
      PROVE  /\ hs[i] = <<"lock", h>> =>
                   /\ Rank[h] > r
                   /\ Held(hs, i + 1, h)
                   /\ \A g \in Locks : Held(hs, i, g) => Rank[g] < Rank[h]
             /\ hs[i] = <<"unlock", h>> => ~Held(hs, i + 1, h)
  <2>1. CASE i = 1
    <3>1. Held(hs, 2, l)
      BY <1>1, <1>5
    <3> QED BY <2>1, <3>1, <1>2, <1>7
  <2>2. CASE i = Len(s) + 2
    <3>1. i + 1 = Len(s) + 3
      BY <2>2, <1>1
    <3> QED BY <2>2, <3>1, <1>2, <1>8
  <2>3. CASE i # 1 /\ i # Len(s) + 2
    <3> DEFINE j == i - 1
    <3>1. j \in 1 .. Len(s) /\ j \in 1 .. Len(s) + 1 /\ j + 1 \in 1 .. Len(s) + 1 /\ i = j + 1
      BY <2>3, <1>1, <1>2
    <3>2. hs[i] = s[j]
      BY <3>1, <1>2
    <3>3. \A g \in Locks \ {l} : /\ Held(hs, i, g) <=> Held(s, j, g)
                                 /\ Held(hs, i + 1, g) <=> Held(s, j + 1, g)
      BY <3>1, <1>6
    <3>4. hs[i] = <<"lock", h>> => Rank[h] > Rank[l]
      BY <3>1, <3>2, <1>3 DEF Above
    <3>5. hs[i] = <<"lock", h>> =>
             /\ Held(s, j + 1, h)
             /\ \A g \in Locks : Held(s, j, g) => Rank[g] < Rank[h]
      BY <3>1, <3>2, <1>3 DEF Ordered
    <3>6. hs[i] = <<"unlock", h>> => h # l /\ ~Held(s, j + 1, h)
      <4>1. ASSUME hs[i] = <<"unlock", l>> PROVE FALSE
        <5>1. s[j] = <<"unlock", l>> /\ j \in j .. Len(s)
          BY <4>1, <3>1, <3>2, <1>1
        <5>2. \A k \in 1 .. j : s[k] # <<"lock", l>>
          BY <3>1, <1>1, <1>3 DEF Above
        <5>3. Held(s, 1, l)
          BY <5>1, <5>2, <3>1 DEF Held
        <5> QED BY <5>3, <1>3
      <4>2. hs[i] = <<"unlock", h>> => ~Held(s, j + 1, h)
        BY <3>1, <3>2, <1>3 DEF Ordered
      <4> QED BY <4>1, <4>2
    <3> HIDE DEF hs, j
    <3>7. hs[i] = <<"lock", h>> => h # l
      BY <3>4, <1>1
    <3>8. hs[i] = <<"lock", h>> =>
             /\ Rank[h] > r
             /\ Held(hs, i + 1, h)
             /\ \A g \in Locks : Held(hs, i, g) => Rank[g] < Rank[h]
      BY <3>3, <3>4, <3>5, <3>7, <1>1
    <3> QED BY <3>3, <3>6, <3>8
  <2> QED BY <2>1, <2>2, <2>3
<1> HIDE DEF hs
<1>10. Sound(hs, r)
  BY <1>2, <1>7, <1>9 DEF Sound, Ordered, Above
<1> QED BY <1>10 DEF hs

\* Lemma: a lock that is released at once.
LEMMA SoundBrief ==
    ASSUME NEW r \in Nat, NEW l \in Locks, Rank[l] > r
    PROVE  Sound(Brief(l), r)
BY RankType, EmptySound, SoundHolding DEF Brief

\* Lemma: the parts that several handlers share.
LEMMA PartsSound ==
    /\ \A l \in Locks : Sound(Brief(l), 0)
    /\ Sound(PersistState, 0)
    /\ Sound(ChainThenPool, 0)
    /\ Sound(Holding("peers", Brief("metrics")), 0)
    /\ Sound(Stats, 0)
    /\ Sound(Overview, 0)
<1>1. \A l \in Locks : Rank[l] \in Nat /\ Rank[l] > 0
  BY RankType
<1>2. \A l \in Locks : Sound(Brief(l), 0)
  BY <1>1, SoundBrief
<1>3. Locks = {"chain", "contracts", "pending", "peers", "governance",
               "slash_evidence", "metrics", "peer_book", "seen"}
  BY DEF Locks
<1>4. /\ Rank["chain"] = 1 /\ Rank["contracts"] = 2 /\ Rank["pending"] = 3 /\ Rank["peers"] = 4
      /\ Rank["governance"] = 5 /\ Rank["slash_evidence"] = 6 /\ Rank["metrics"] = 7
  BY DEF Rank
<1>5. Sound(PersistState, 0)
  <2>1. Sound(Brief("slash_evidence"), 5)
    BY <1>3, <1>4, SoundBrief
  <2>2. Sound(Holding("governance", Brief("slash_evidence")), 4)
    BY <2>1, <1>3, <1>4, SoundHolding
  <2>3. Sound(Holding("peers", Holding("governance", Brief("slash_evidence"))), 3)
    BY <2>2, <1>3, <1>4, SoundHolding
  <2>4. Sound(Holding("pending", Holding("peers",
                  Holding("governance", Brief("slash_evidence")))), 2)
    BY <2>3, <1>3, <1>4, SoundHolding
  <2>5. Sound(Holding("contracts", Holding("pending", Holding("peers",
                  Holding("governance", Brief("slash_evidence"))))), 1)
    BY <2>4, <1>3, <1>4, SoundHolding
  <2> QED BY <2>5, <1>3, <1>4, SoundHolding DEF PersistState
<1>6. Sound(ChainThenPool, 0)
  <2>1. Sound(Brief("pending"), 1)
    BY <1>3, <1>4, SoundBrief
  <2> QED BY <2>1, <1>3, <1>4, SoundHolding DEF ChainThenPool
<1>7. Sound(Holding("peers", Brief("metrics")), 0)
  <2>1. Sound(Brief("metrics"), 4)
    BY <1>3, <1>4, SoundBrief
  <2> QED BY <2>1, <1>3, <1>4, SoundHolding
<1>8. Sound(Stats, 0)
  <2>1. Sound(Brief("governance"), 3)
    BY <1>3, <1>4, SoundBrief
  <2>2. Sound(Holding("pending", Brief("governance")), 1)
    BY <2>1, <1>3, <1>4, SoundHolding
  <2> QED BY <2>2, <1>3, <1>4, SoundHolding DEF Stats
<1>9. Sound(Overview, 0)
  <2>1. Sound(Brief("peers"), 3)
    BY <1>3, <1>4, SoundBrief
  <2>2. Sound(Holding("pending", Brief("peers")), 1)
    BY <2>1, <1>3, <1>4, SoundHolding
  <2> QED BY <2>2, <1>3, <1>4, SoundHolding DEF Overview
<1> QED BY <1>2, <1>5, <1>6, <1>7, <1>8, <1>9

\* Lemma: the scripts of all handlers but the inverted ones are sound.
LEMMA ScriptsSound == \A kind \in DOMAIN Script \ Inverted : Sound(Script[kind], 0)
<1> USE SoundJoin, PartsSound
<1>1. /\ \A l \in {"chain", "contracts", "pending", "peers", "governance",
                   "slash_evidence", "metrics", "peer_book", "seen"} : Sound(Brief(l), 0)
  BY DEF Locks
<1>2. Sound(AcceptBlock, 0)
  BY <1>1 DEF AcceptBlock
<1>3. Sound(AdoptChain, 0)
  BY <1>1 DEF AdoptChain
<1>4. Sound(QueueTransaction, 0)
  BY <1>1 DEF QueueTransaction
<1>5. Sound(Envelope, 0)
  BY <1>1 DEF Envelope
<1>6. Sound(RegisterPeer, 0)
  BY <1>1 DEF RegisterPeer
<1>7. Sound(Verdict, 0)
  BY <1>1 DEF Verdict
<1>8. Sound(SubmitBlock, 0)
  BY <1>1, <1>2 DEF SubmitBlock
<1>9. Sound(ReceiveBlocks, 0)
  BY <1>1, <1>2 DEF ReceiveBlocks
<1>10. Sound(Faucet, 0)
  BY <1>1, <1>4 DEF Faucet
<1>11. Sound(StakeTokens, 0) /\ Sound(SubmitEquivocation, 0)
  BY <1>1, <1>4 DEF StakeTokens, SubmitEquivocation
<1>12. Sound(PeerTransaction, 0)
  BY <1>1, <1>5, <1>7 DEF PeerTransaction
<1>13. Sound(PeerBlock, 0)
  BY <1>1, <1>2, <1>5, <1>7 DEF PeerBlock
<1>14. Sound(PeerAnnounce, 0)
  BY <1>5, <1>6 DEF PeerAnnounce
<1>15. Sound(IssueCertificate, 0) /\ Sound(AttestCertificate, 0)
  BY <1>1 DEF IssueCertificate, AttestCertificate
<1>16. Sound(UpdateGovernance, 0) /\ Sound(SubmitSlashEvidence, 0)
  BY <1>1 DEF UpdateGovernance, SubmitSlashEvidence
<1>17. Sound(Gossip, 0)
  BY <1>1 DEF Gossip
<1>18. Sound(SyncWithPeers, 0)
  BY <1>1, <1>3 DEF SyncWithPeers
<1>19. Sound(SyncTick, 0)
  <2>1. Sound(Brief("peers") \o Brief("peers") \o Brief("peers") \o Brief("chain"), 0)
    BY <1>1
  <2>2. Sound(Brief("peers") \o Brief("peers") \o Brief("peers") \o Brief("chain")
                  \o Brief("governance") \o Brief("chain"), 0)
    BY <1>1, <2>1
  <2> QED BY <1>1, <1>2, <1>3, <2>2 DEF SyncTick
<1> QED BY <1>2, <1>4, <1>6, <1>8, <1>9, <1>10, <1>11, <1>12, <1>13, <1>14, <1>15, <1>16, <1>17,
          <1>18, <1>19 DEF Script, Inverted

-----------------------------------------------------------------------------
(* The inductive invariant                                                 *)

\* A lock that the rest of a script releases is owned by its task, a task at a
\* lock owns it already or asks for it, and the rest of a script is ordered.
Tidy ==
    /\ script \in [Tasks -> Seq(Steps)]
    /\ queue \in [Locks -> Seq(Tasks)]
    /\ \A l \in Locks : \A i, j \in DOMAIN queue[l] : queue[l][i] = queue[l][j] => i = j
    /\ \A t \in Tasks :
          /\ Ordered(script[t])
          /\ \A l \in Locks : Held(script[t], 1, l) => Owns(t, l)
          /\ \A l \in Locks : \A i \in DOMAIN queue[l] :
                queue[l][i] = t => Held(script[t], 1, l) \/ At(t, "lock", l)

\* Lemma: what a task holds changes with the step it takes.
LEMMA HeldAfter ==
    ASSUME NEW s \in Seq(Steps), s # <<>>
    PROVE  /\ Tail(s) \in Seq(Steps)
           /\ Ordered(s) => Ordered(Tail(s))
           /\ \A l \in Locks : Held(Tail(s), 1, l) <=> Held(s, 2, l)
           /\ \A l \in Locks : Head(s) = <<"lock", l>> => ~Held(s, 1, l)
           /\ \A l \in Locks : Head(s) # <<"lock", l>> =>
                 (Held(s, 1, l) <=> Head(s) = <<"unlock", l>> \/ Held(s, 2, l))
<1> DEFINE t == Tail(s)
<1>1. /\ t \in Seq(Steps) /\ Len(t) = Len(s) - 1 /\ Len(s) >= 1 /\ Head(s) = s[1]
      /\ \A k \in 1 .. Len(t) : t[k] = s[k + 1]
  OBVIOUS
<1>2. ASSUME NEW l \in Locks, NEW i \in 1 .. Len(s) PROVE Held(t, i, l) <=> Held(s, i + 1, l)
  <2>1. ASSUME Held(t, i, l) PROVE Held(s, i + 1, l)
    <3>1. PICK j \in i .. Len(t) :
              t[j] = <<"unlock", l>> /\ \A k \in i .. j : t[k] # <<"lock", l>>
      BY <2>1 DEF Held
    <3>2. j + 1 \in i + 1 .. Len(s) /\ s[j + 1] = <<"unlock", l>>
      BY <3>1, <1>1
    <3>3. ASSUME NEW k \in i + 1 .. j + 1 PROVE s[k] # <<"lock", l>>
      <4>1. k - 1 \in i .. j /\ k - 1 \in 1 .. Len(t) /\ k = (k - 1) + 1
        BY <1>1, <3>1
      <4> QED BY <4>1, <3>1, <1>1
    <3> QED BY <3>2, <3>3 DEF Held
  <2>2. ASSUME Held(s, i + 1, l) PROVE Held(t, i, l)
    <3>1. PICK j \in i + 1 .. Len(s) :
              s[j] = <<"unlock", l>> /\ \A k \in i + 1 .. j : s[k] # <<"lock", l>>
      BY <2>2 DEF Held
    <3>2. j - 1 \in i .. Len(t) /\ j - 1 \in 1 .. Len(t) /\ j = (j - 1) + 1
      BY <3>1, <1>1
    <3>3. t[j - 1] = <<"unlock", l>>
      BY <3>1, <3>2, <1>1
    <3>4. ASSUME NEW k \in i .. j - 1 PROVE t[k] # <<"lock", l>>
      <4>1. k + 1 \in i + 1 .. j /\ k \in 1 .. Len(t)
        BY <3>2, <1>1
      <4> QED BY <4>1, <3>1, <1>1
    <3> QED BY <3>2, <3>3, <3>4 DEF Held
  <2> QED BY <2>1, <2>2
<1>3. ASSUME Ordered(s) PROVE Ordered(t)
  <2>1. ASSUME NEW i \in 1 .. Len(t), NEW l \in Locks
        PROVE  /\ t[i] = <<"lock", l>> =>
                     /\ Held(t, i + 1, l)
                     /\ \A h \in Locks : Held(t, i, h) => Rank[h] < Rank[l]
               /\ t[i] = <<"unlock", l>> => ~Held(t, i + 1, l)
    <3>1. i \in 1 .. Len(s) /\ i + 1 \in 1 .. Len(s) /\ t[i] = s[i + 1]
      BY <1>1
    <3>2. \A h \in Locks : /\ Held(t, i, h) <=> Held(s, i + 1, h)
                           /\ Held(t, i + 1, h) <=> Held(s, (i + 1) + 1, h)
      BY <3>1, <1>2
    <3> HIDE DEF t
    <3> QED BY <3>1, <3>2, <1>3 DEF Ordered
  <2> QED BY <2>1 DEF Ordered
<1>4. \A l \in Locks : Held(t, 1, l) <=> Held(s, 2, l)
  BY <1>1, <1>2
<1>5. ASSUME NEW l \in Locks, Head(s) = <<"lock", l>> PROVE ~Held(s, 1, l)
  BY <1>1, <1>5 DEF Held
<1>6. ASSUME NEW l \in Locks, Head(s) # <<"lock", l>>
      PROVE  Held(s, 1, l) <=> Head(s) = <<"unlock", l>> \/ Held(s, 2, l)
  <2>1. ASSUME Held(s, 1, l), Head(s) # <<"unlock", l>> PROVE Held(s, 2, l)
    <3>1. PICK j \in 1 .. Len(s) :
              s[j] = <<"unlock", l>> /\ \A k \in 1 .. j : s[k] # <<"lock", l>>
      BY <2>1 DEF Held
    <3>2. j # 1
      BY <3>1, <2>1, <1>1
    <3>3. j \in 2 .. Len(s) /\ \A k \in 2 .. j : k \in 1 .. j
      BY <3>1, <3>2, <1>1
    <3> QED BY <3>1, <3>3 DEF Held
  <2>2. ASSUME Head(s) = <<"unlock", l>> PROVE Held(s, 1, l)
    <3>1. 1 \in 1 .. Len(s) /\ s[1] = <<"unlock", l>> /\ \A k \in 1 .. 1 : s[k] # <<"lock", l>>
      BY <2>2, <1>1, <1>6
    <3> QED BY <3>1 DEF Held
  <2>3. ASSUME Held(s, 2, l) PROVE Held(s, 1, l)
    <3>1. PICK j \in 2 .. Len(s) :
              s[j] = <<"unlock", l>> /\ \A k \in 2 .. j : s[k] # <<"lock", l>>
      BY <2>3 DEF Held
    <3>2. j \in 1 .. Len(s) /\ \A k \in 1 .. j : s[k] # <<"lock", l>>
      BY <3>1, <1>1, <1>6
    <3> QED BY <3>1, <3>2 DEF Held
  <2> QED BY <2>1, <2>2, <2>3
<1> QED BY <1>1, <1>3, <1>4, <1>5, <1>6

\* Lemma: nobody is at a lock in the beginning.
LEMMA TidyInit == LocksInit => Tidy
<1> SUFFICES ASSUME LocksInit PROVE Tidy
  OBVIOUS
<1>1. /\ script = [t \in Tasks |-> <<>>]
      /\ queue = [l \in Locks |-> <<>>]
  BY DEF LocksInit
<1>2. \A t \in Tasks : Ordered(<<>>) /\ \A l \in Locks : ~Held(<<>>, 1, l)
  BY EmptySound DEF Sound
<1> QED BY <1>1, <1>2 DEF Tidy

\* Lemma: every step of a task keeps its script and its places in the queues tidy.
LEMMA TidyNext ==
    ASSUME Requests \cap Inverted = {}, Tidy, [LocksNext]_lockVars
    PROVE  Tidy'
<1>1. /\ script \in [Tasks -> Seq(Steps)]
      /\ queue \in [Locks -> Seq(Tasks)]
      /\ \A l \in Locks : \A i, j \in DOMAIN queue[l] : queue[l][i] = queue[l][j] => i = j
  BY DEF Tidy
<1>2. \A t \in Tasks :
          /\ Ordered(script[t])
          /\ \A l \in Locks : Held(script[t], 1, l) => Owns(t, l)
          /\ \A l \in Locks : \A i \in DOMAIN queue[l] :
                queue[l][i] = t => Held(script[t], 1, l) \/ At(t, "lock", l)
  BY DEF Tidy
<1>3. ASSUME NEW t \in Tasks, NEW kind \in Requests, Receive(t, kind) PROVE Tidy'
  <2>1. /\ script[t] = <<>> /\ queue' = queue
        /\ script' = [script EXCEPT ![t] = Script[kind]]
    BY <1>3 DEF Receive
  <2>2. Sound(Script[kind], 0)
    BY RequestsAssumption, ScriptsSound
  <2>3. /\ Script[kind] \in Seq(Steps) /\ Ordered(Script[kind])
        /\ \A l \in Locks : ~Held(Script[kind], 1, l)
    BY <2>2 DEF Sound
  <2>4. \A l \in Locks : ~Held(script[t], 1, l) /\ ~At(t, "lock", l)
    BY <2>1, EmptySound DEF Sound, At
  <2>5. \A u \in Tasks \ {t} : script'[u] = script[u]
    BY <2>1, <1>1
  <2>6. script'[t] = Script[kind] /\ script' \in [Tasks -> Seq(Steps)]
    BY <2>1, <2>3, <1>1
  <2>7. ASSUME NEW u \in Tasks
        PROVE  /\ Ordered(script'[u])
               /\ \A l \in Locks : Held(script'[u], 1, l) => Owns(u, l)'
               /\ \A l \in Locks : \A i \in DOMAIN queue'[l] :
                     queue'[l][i] = u => Held(script'[u], 1, l) \/ At(u, "lock", l)'
    <3>1. CASE u = t
      BY <3>1, <2>1, <2>3, <2>4, <2>6, <1>2
    <3>2. CASE u # t
      BY <3>2, <2>1, <2>5, <1>2 DEF At, Owns
    <3> QED BY <3>1, <3>2
  <2> QED BY <2>1, <2>6, <2>7, <1>1 DEF Tidy
<1>4. ASSUME NEW t \in Tasks, NEW l \in Locks, Ask(t, l) PROVE Tidy'
  <2>1. /\ At(t, "lock", l) /\ t \notin Range(queue[l]) /\ script' = script
        /\ queue' = [queue EXCEPT ![l] = Append(@, t)]
    BY <1>4 DEF Ask
  <2>2. \A i \in DOMAIN queue[l] : queue[l][i] # t
    BY <2>1 DEF Range
  <2>3. queue' \in [Locks -> Seq(Tasks)] /\ queue'[l] = Append(queue[l], t)
        /\ \A m \in Locks \ {l} : queue'[m] = queue[m]
    BY <2>1, <1>1
  <2>4. /\ Len(queue'[l]) = Len(queue[l]) + 1 /\ queue'[l][Len(queue[l]) + 1] = t
        /\ \A i \in 1 .. Len(queue[l]) : queue'[l][i] = queue[l][i]
        /\ DOMAIN queue'[l] = 1 .. Len(queue[l]) + 1 /\ DOMAIN queue[l] = 1 .. Len(queue[l])
    BY <2>3, <1>1
  <2>5. ASSUME NEW m \in Locks, NEW i \in DOMAIN queue'[m], NEW j \in DOMAIN queue'[m],
               queue'[m][i] = queue'[m][j]
        PROVE  i = j
    <3>1. CASE m = l
      <4>1. i \in 1 .. Len(queue[l]) + 1 /\ j \in 1 .. Len(queue[l]) + 1 /\ Len(queue[l]) \in Nat
        BY <3>1, <2>4, <1>1
      <4>2. CASE i = Len(queue[l]) + 1 \/ j = Len(queue[l]) + 1
        BY <4>1, <4>2, <3>1, <2>2, <2>4, <2>5
      <4>3. CASE i \in 1 .. Len(queue[l]) /\ j \in 1 .. Len(queue[l])
        BY <4>3, <3>1, <2>4, <2>5, <1>1
      <4> QED BY <4>1, <4>2, <4>3
    <3>2. CASE m # l
      BY <3>2, <2>3, <2>5, <1>1
    <3> QED BY <3>1, <3>2
  <2>6. ASSUME NEW u \in Tasks, NEW m \in Locks, Owns(u, m) PROVE Owns(u, m)'
    <3>1. CASE m = l
      <4>1. queue[l] # <<>> /\ queue[l] \in Seq(Tasks) /\ Head(queue[l]) = u
        BY <3>1, <2>6, <1>1 DEF Owns
      <4>2. Len(queue[l]) >= 1 /\ Head(queue[l]) = queue[l][1]
        BY <4>1
      <4>3. queue'[l] \in Seq(Tasks) /\ Len(queue'[l]) >= 1
        BY <2>3, <2>4, <4>1, <4>2
      <4>4. queue'[l] # <<>> /\ Head(queue'[l]) = queue'[l][1]
        BY <4>3
      <4>5. queue'[l][1] = queue[l][1]
        BY <2>4, <4>1, <4>2
      <4> QED BY <4>1, <4>2, <4>4, <4>5, <3>1 DEF Owns
    <3>2. CASE m # l
      BY <3>2, <2>3, <2>6 DEF Owns
    <3> QED BY <3>1, <3>2
  <2>7. ASSUME NEW u \in Tasks, NEW m \in Locks, NEW i \in DOMAIN queue'[m], queue'[m][i] = u
        PROVE  Held(script[u], 1, m) \/ At(u, "lock", m)
    <3>1. CASE m = l /\ i = Len(queue[l]) + 1
      BY <3>1, <2>1, <2>4, <2>7
    <3>2. CASE m = l /\ i # Len(queue[l]) + 1
      BY <3>2, <2>4, <2>7, <1>2, <1>1
    <3>3. CASE m # l
      BY <3>3, <2>3, <2>7, <1>2
    <3> QED BY <3>1, <3>2, <3>3
  <2>8. \A u \in Tasks, m \in Locks : At(u, "lock", m) => At(u, "lock", m)'
    BY <2>1 DEF At
  <2> QED BY <2>1, <2>3, <2>5, <2>6, <2>7, <2>8, <1>1, <1>2 DEF Tidy
<1>5. ASSUME NEW t \in Tasks, NEW l \in Locks, Enter(t, l) PROVE Tidy'
  <2>1. /\ At(t, "lock", l) /\ Owns(t, l) /\ queue' = queue
        /\ script' = [script EXCEPT ![t] = Tail(@)]
    BY <1>5 DEF Enter
  <2>2. /\ script[t] \in Seq(Steps) /\ script[t] # <<>> /\ Head(script[t]) = <<"lock", l>>
        /\ script'[t] = Tail(script[t])
    BY <2>1, <1>1 DEF At
  <2>3. /\ script'[t] \in Seq(Steps) /\ Ordered(script'[t])
        /\ \A m \in Locks : Held(script'[t], 1, m) <=> Held(script[t], 2, m)
        /\ \A m \in Locks \ {l} : Held(script[t], 1, m) <=> Held(script[t], 2, m)
    BY <2>2, <1>2, HeldAfter
  <2>4. Held(script[t], 2, l)
    <3>1. 1 \in 1 .. Len(script[t]) /\ script[t][1] = <<"lock", l>>
      BY <2>2
    <3>2. Held(script[t], 1 + 1, l)
      BY <3>1, <1>2 DEF Ordered
    <3> QED BY <3>2
  <2>5. \A u \in Tasks \ {t} : script'[u] = script[u]
    BY <2>1, <1>1
  <2>6. script' \in [Tasks -> Seq(Steps)]
    BY <2>1, <2>2, <2>3, <1>1
  <2>7. ASSUME NEW u \in Tasks
        PROVE  /\ Ordered(script'[u])
               /\ \A m \in Locks : Held(script'[u], 1, m) => Owns(u, m)'
               /\ \A m \in Locks : \A i \in DOMAIN queue'[m] :
                     queue'[m][i] = u => Held(script'[u], 1, m) \/ At(u, "lock", m)'
    <3>1. CASE u = t
      <4>1. \A m \in Locks : Held(script'[t], 1, m) => Owns(t, m)
        BY <2>1, <2>3, <1>2
      <4>2. \A m \in Locks \ {l} : ~At(t, "lock", m)
        BY <2>2 DEF At
      <4>3. \A m \in Locks : \A i \in DOMAIN queue[m] : queue[m][i] = t => Held(script'[t], 1, m)
        BY <2>3, <2>4, <4>2, <1>2
      <4> QED BY <3>1, <4>1, <4>3, <2>1, <2>3 DEF Owns
    <3>2. CASE u # t
      BY <3>2, <2>1, <2>5, <1>2 DEF At, Owns
    <3> QED BY <3>1, <3>2
  <2> QED BY <2>1, <2>6, <2>7, <1>1 DEF Tidy
<1>6. ASSUME NEW t \in Tasks, NEW l \in Locks, Release(t, l) PROVE Tidy'
  <2>1. /\ At(t, "unlock", l)
        /\ queue' = [queue EXCEPT ![l] = Tail(@)]
        /\ script' = [script EXCEPT ![t] = Tail(@)]
    BY <1>6 DEF Release
  <2>2. /\ script[t] \in Seq(Steps) /\ script[t] # <<>> /\ Head(script[t]) = <<"unlock", l>>
        /\ script'[t] = Tail(script[t])
    BY <2>1, <1>1 DEF At
  <2>3. /\ script'[t] \in Seq(Steps) /\ Ordered(script'[t])
        /\ \A m \in Locks : Held(script'[t], 1, m) <=> Held(script[t], 2, m)
        /\ \A m \in Locks \ {l} : Held(script[t], 1, m) <=> Held(script[t], 2, m)
        /\ Held(script[t], 1, l)
    BY <2>2, <1>2, HeldAfter
  <2>4. ~Held(script[t], 2, l)
    <3>1. 1 \in 1 .. Len(script[t]) /\ script[t][1] = <<"unlock", l>>
      BY <2>2
    <3>2. ~Held(script[t], 1 + 1, l)
      BY <3>1, <1>2 DEF Ordered
    <3> QED BY <3>2
  <2>5. \A u \in Tasks \ {t} : script'[u] = script[u]
    BY <2>1, <1>1
  <2>6. script' \in [Tasks -> Seq(Steps)]
    BY <2>1, <2>2, <2>3, <1>1
  <2>7. queue[l] \in Seq(Tasks) /\ queue[l] # <<>> /\ Head(queue[l]) = t
    BY <2>3, <1>1, <1>2 DEF Owns
  <2>8. /\ queue' \in [Locks -> Seq(Tasks)] /\ queue'[l] = Tail(queue[l])
        /\ \A m \in Locks \ {l} : queue'[m] = queue[m]
    BY <2>1, <2>7, <1>1
  <2>9. /\ queue[l][1] = t /\ Len(queue[l]) >= 1
        /\ DOMAIN queue[l] = 1 .. Len(queue[l]) /\ DOMAIN queue'[l] = 1 .. Len(queue[l]) - 1
        /\ \A i \in 1 .. Len(queue[l]) - 1 : queue'[l][i] = queue[l][i + 1]
    BY <2>7, <2>8
  <2>10. ASSUME NEW m \in Locks, NEW i \in DOMAIN queue'[m], NEW j \in DOMAIN queue'[m],
                queue'[m][i] = queue'[m][j]
         PROVE  i = j
    <3>1. CASE m = l
      <4>1. i + 1 \in DOMAIN queue[l] /\ j + 1 \in DOMAIN queue[l] /\ i \in Int /\ j \in Int
            /\ queue[l][i + 1] = queue[l][j + 1]
        BY <3>1, <2>7, <2>9, <2>10
      <4>2. i + 1 = j + 1
        BY <4>1, <1>1
      <4> QED BY <4>1, <4>2
    <3>2. CASE m # l
      BY <3>2, <2>8, <2>10, <1>1
    <3> QED BY <3>1, <3>2
  <2>11. ASSUME NEW i \in DOMAIN queue'[l] PROVE queue'[l][i] # t
    <3>1. i + 1 \in DOMAIN queue[l] /\ 1 \in DOMAIN queue[l] /\ i + 1 # 1
          /\ queue'[l][i] = queue[l][i + 1]
      BY <2>7, <2>9
    <3> QED BY <3>1, <2>9, <1>1
  <2>12. ASSUME NEW u \in Tasks
         PROVE  /\ Ordered(script'[u])
                /\ \A m \in Locks : Held(script'[u], 1, m) => Owns(u, m)'
                /\ \A m \in Locks : \A i \in DOMAIN queue'[m] :
                      queue'[m][i] = u => Held(script'[u], 1, m) \/ At(u, "lock", m)'
    <3>1. CASE u = t
      <4>1. \A m \in Locks \ {l} : Held(script'[t], 1, m) => Owns(t, m)'
        BY <2>3, <2>8, <1>2 DEF Owns
      <4>2. ~Held(script'[t], 1, l)
        BY <2>3, <2>4
      <4>3. \A m \in Locks : ~At(t, "lock", m)
        BY <2>2 DEF At
      <4>4. \A m \in Locks \ {l} : \A i \in DOMAIN queue'[m] :
                queue'[m][i] = t => Held(script'[t], 1, m)
        BY <2>3, <2>8, <4>3, <1>2
      <4> QED BY <3>1, <4>1, <4>2, <4>4, <2>3, <2>11
    <3>2. CASE u # t
      <4>1. script'[u] = script[u]
        BY <3>2, <2>5
      <4>2. ~Held(script[u], 1, l)
        BY <3>2, <2>7, <1>2 DEF Owns
      <4>3. \A m \in Locks : Held(script'[u], 1, m) => Owns(u, m)'
        BY <4>1, <4>2, <2>8, <1>2 DEF Owns
      <4>4. \A m \in Locks : At(u, "lock", m) => At(u, "lock", m)'
        BY <4>1 DEF At
      <4>5. ASSUME NEW m \in Locks, NEW i \in DOMAIN queue'[m], queue'[m][i] = u
            PROVE  Held(script'[u], 1, m) \/ At(u, "lock", m)'
        <5>1. CASE m = l
          <6>1. i + 1 \in DOMAIN queue[l] /\ queue[l][i + 1] = u
            BY <5>1, <4>5, <2>7, <2>9
          <6> QED BY <5>1, <6>1, <4>1, <4>4, <1>2
        <5>2. CASE m # l
          BY <5>2, <4>5, <4>1, <4>4, <2>8, <1>2
        <5> QED BY <5>1, <5>2
      <4> QED BY <4>1, <4>3, <4>5, <1>2
    <3> QED BY <3>1, <3>2
  <2> QED BY <2>6, <2>8, <2>10, <2>12 DEF Tidy
<1>7. ASSUME NEW t \in Tasks, Return(t) PROVE Tidy'
  <2>1. /\ HoldsNothing(t) /\ queue' = queue
        /\ script' = [script EXCEPT ![t] = <<>>]
    BY <1>7 DEF Return
  <2>2. \A l \in Locks : \A i \in DOMAIN queue[l] : queue[l][i] # t
    BY <2>1 DEF HoldsNothing, Range
  <2>3. Ordered(<<>>) /\ \A l \in Locks : ~Held(<<>>, 1, l)
    BY EmptySound DEF Sound
  <2>4. \A u \in Tasks \ {t} : script'[u] = script[u]
    BY <2>1, <1>1
  <2>5. script'[t] = <<>> /\ script' \in [Tasks -> Seq(Steps)]
    BY <2>1, <1>1
  <2>6. ASSUME NEW u \in Tasks
        PROVE  /\ Ordered(script'[u])
               /\ \A l \in Locks : Held(script'[u], 1, l) => Owns(u, l)'
               /\ \A l \in Locks : \A i \in DOMAIN queue'[l] :
                     queue'[l][i] = u => Held(script'[u], 1, l) \/ At(u, "lock", l)'
    <3>1. CASE u = t
      BY <3>1, <2>1, <2>2, <2>3, <2>5
    <3>2. CASE u # t
      BY <3>2, <2>1, <2>4, <1>2 DEF At, Owns
    <3> QED BY <3>1, <3>2
  <2> QED BY <2>1, <2>5, <2>6, <1>1 DEF Tidy
<1>8. CASE UNCHANGED lockVars
  BY <1>8, <1>1, <1>2 DEF Tidy, lockVars, At, Owns
<1> QED BY <1>3, <1>4, <1>5, <1>6, <1>7, <1>8 DEF LocksNext, TaskStep

-----------------------------------------------------------------------------

\* Lemma: of the locks that a group waits for there is a highest one.
LEMMA HighestRank ==
    ASSUME NEW S \in SUBSET (1 .. 9), S # {}
    PROVE  \E r \in S : \A q \in S : q <= r
<1>1. CASE 9 \in S
  BY <1>1
<1>2. CASE 9 \notin S /\ 8 \in S
  BY <1>2
<1>3. CASE 9 \notin S /\ 8 \notin S /\ 7 \in S
  BY <1>3
<1>4. CASE 9 \notin S /\ 8 \notin S /\ 7 \notin S /\ 6 \in S
  BY <1>4
<1>5. CASE 9 \notin S /\ 8 \notin S /\ 7 \notin S /\ 6 \notin S /\ 5 \in S
  BY <1>5
<1>6. CASE S \subseteq 1 .. 4 /\ 4 \in S
  BY <1>6
<1>7. CASE S \subseteq 1 .. 4 /\ 4 \notin S /\ 3 \in S
  BY <1>7
<1>8. CASE S \subseteq 1 .. 4 /\ 4 \notin S /\ 3 \notin S /\ 2 \in S
  BY <1>8
<1>9. CASE S \subseteq 1 .. 4 /\ 4 \notin S /\ 3 \notin S /\ 2 \notin S
  <2>1. \A k \in S : k \in 1 .. 4 /\ k # 4 /\ k # 3 /\ k # 2
    BY <1>9
  <2>2. \A k \in S : k = 1
    BY <2>1
  <2>3. PICK k \in S : TRUE
    OBVIOUS
  <2>4. \A q \in S : q <= k
    BY <2>2
  <2> QED BY <2>4
<1>10. S \subseteq 1 .. 4 \/ \E k \in 5 .. 9 : k \in S
  OBVIOUS
<1> QED BY <1>1, <1>2, <1>3, <1>4, <1>5, <1>6, <1>7, <1>8, <1>9, <1>10

\* Lemma: whoever owns a lock another task waits for, waits only for a higher one.
LEMMA WaitsGoUp ==
    ASSUME Tidy, NEW t \in Tasks, NEW u \in Tasks, NEW l \in Locks,
           NEW v \in Tasks, NEW m \in Locks,
           t # u, Owns(u, l),
           At(u, "lock", m), u # v, Owns(v, m)
    PROVE  Rank[l] < Rank[m]
<1>1. /\ script[u] \in Seq(Steps) /\ queue[l] \in Seq(Tasks)
      /\ Ordered(script[u])
      /\ \A i \in DOMAIN queue[l] : queue[l][i] = u => Held(script[u], 1, l) \/ At(u, "lock", l)
  BY DEF Tidy
<1>2. queue[l] # <<>> /\ Head(queue[l]) = u
  BY DEF Owns
<1>3. 1 \in DOMAIN queue[l] /\ queue[l][1] = u
  BY <1>1, <1>2
<1>4. script[u] # <<>> /\ Head(script[u]) = <<"lock", m>>
  BY DEF At
<1>5. l # m
  BY <1>2 DEF Owns
<1>6. ~At(u, "lock", l)
  BY <1>4, <1>5 DEF At
<1>7. Held(script[u], 1, l)
  BY <1>1, <1>3, <1>6
<1>8. 1 \in 1 .. Len(script[u]) /\ script[u][1] = <<"lock", m>>
  BY <1>1, <1>4
<1> QED BY <1>1, <1>7, <1>8 DEF Ordered

\* Lemma: in a tidy state nobody waits in a circle.
LEMMA TidyNoCircle == Tidy => NoCircularWait
<1> SUFFICES ASSUME Tidy, NEW group \in (SUBSET Tasks) \ {{}},
                    \A t \in group : \E u \in group : WaitsFor(t, u)
             PROVE  FALSE
  BY DEF NoCircularWait
<1> DEFINE awaited == {l \in Locks : \E t, u \in group : At(t, "lock", l) /\ t # u /\ Owns(u, l)}
<1> DEFINE S == {Rank[l] : l \in awaited}
<1>1. \A t \in group : \E u \in group, l \in Locks : At(t, "lock", l) /\ t # u /\ Owns(u, l)
  BY DEF WaitsFor
<1>2. S # {} /\ S \in SUBSET (1 .. 9)
  BY <1>1, RankType
<1> HIDE DEF S
<1>3. PICK r \in S : \A q \in S : q <= r
  BY <1>2, HighestRank
<1> USE DEF S
<1>4. PICK l \in awaited : Rank[l] = r
  OBVIOUS
<1>5. PICK t, u \in group : At(t, "lock", l) /\ t # u /\ Owns(u, l)
  OBVIOUS
<1>6. PICK v \in group, m \in Locks : At(u, "lock", m) /\ u # v /\ Owns(v, m)
  BY <1>1
<1>7. m \in awaited
  BY <1>6
<1>8. Rank[l] < Rank[m]
  BY <1>5, <1>6, WaitsGoUp
<1>9. Rank[m] <= r
  BY <1>3, <1>7
<1>10. Rank[l] \in Int /\ Rank[m] \in Int
  BY RankType
<1> QED BY <1>4, <1>8, <1>9, <1>10

\* Theorem: however many requests are in flight, as long as none of them is
\* mine_block or propose_block, no group of them waits only for itself.
THEOREM NobodyWaitsInACircle ==
    ASSUME Requests \cap Inverted = {}
    PROVE  LocksSpec => []NoCircularWait
<1>1. LocksInit => Tidy
  BY TidyInit
<1>2. Tidy /\ [LocksNext]_lockVars => Tidy'
  BY TidyNext
<1>3. Tidy => NoCircularWait
  BY TidyNoCircle
<1> QED BY <1>1, <1>2, <1>3, PTL DEF LocksSpec

-----------------------------------------------------------------------------
(* Mempool                                                                 *)

-----------------------------------------------------------------------------
(* Executing transactions                                                  *)

\* The base fee stays a number.
LEMMA FeeType ==
    ASSUME NEW current \in Nat, NEW n \in Nat
    PROVE  next_base_fee(current, n) \in Nat
<1> USE FeesAssumption DEF AtLeastOne
<1>1. ASSUME NEW c \in Nat PROVE AtLeastOne(c) \in Nat
  OBVIOUS
<1>2. ASSUME NEW d \in Nat PROVE Step(current, d) \in Nat
  <2>1. current \div 8 \in Nat
    OBVIOUS
  <2>2. PICK q \in Nat : q = AtLeastOne(current \div 8)
    BY <2>1
  <2>3. q * d \in Nat
    BY <2>2
  <2>4. (q * d) \div BASE_FEE_TARGET_TXS \in Nat
    BY <2>3, QuotientBounds
  <2> HIDE DEF AtLeastOne
  <2> QED BY <1>1, <2>2, <2>4 DEF Step
<1>3. ASSUME NEW fee \in Nat PROVE Clamp(fee) \in Nat
  BY DEF Clamp, Least
<1>4. CASE n = BASE_FEE_TARGET_TXS
  BY <1>3, <1>4 DEF next_base_fee
<1>5. CASE n > BASE_FEE_TARGET_TXS
  <2>1. n - BASE_FEE_TARGET_TXS \in Nat
    BY <1>5
  <2>2. current + Step(current, n - BASE_FEE_TARGET_TXS) \in Nat
    BY <1>2, <2>1
  <2> QED BY <1>3, <1>5, <2>2 DEF next_base_fee
<1>6. CASE n < BASE_FEE_TARGET_TXS
  <2>1. BASE_FEE_TARGET_TXS - n \in Nat
    BY <1>6
  <2>2. Minus(current, Step(current, BASE_FEE_TARGET_TXS - n)) \in Nat
    BY <1>2, <2>1 DEF Minus
  <2> QED BY <1>3, <1>6, <2>2 DEF next_base_fee
<1> QED BY <1>4, <1>5, <1>6

\* A transaction moves the nonce of its sender by one, if it carries the next
\* one, and no other; it applies only then, and an anchor never does.
LEMMA ApplyType ==
    ASSUME NEW l \in Ledgers, NEW t \in Pooled
    PROVE  /\ ApplyVerified(l, t).ok \in BOOLEAN
           /\ ApplyVerified(l, t).after \in Ledgers
           /\ \A u \in Users : ApplyVerified(l, t).after.nonces[u] =
                  IF t \in Txs /\ u = t.from /\ t.nonce = l.nonces[u] + 1
                  THEN t.nonce ELSE l.nonces[u]
           /\ ApplyVerified(l, t).ok => t \in Txs /\ t.nonce = l.nonces[t.from] + 1
           /\ ApplyVerified(l, t).after.base_fee = l.base_fee
<1> USE DEF Ledgers
<1>1. CASE t \in Anchors
  <2>1. t \notin Txs
    BY <1>1, MempoolAssumption
  <2>2. ApplyVerified(l, t) = [ok |-> FALSE, after |-> l]
    BY <1>1 DEF ApplyVerified, InScope
  <2> QED BY <2>1, <2>2
<1>2. CASE t \notin Anchors
  <2>1. t \in Txs
    BY <1>2 DEF Pooled
  <2>2. t.from \in Users /\ t.to \in Users /\ t.amount \in Nat /\ t.nonce \in Nat
    BY <2>1, MempoolAssumption
  <2>3. ApplyVerified(l, t) = Transferred(l, t)
    BY <1>2 DEF ApplyVerified, InScope
  <2> DEFINE consumed == [l EXCEPT !.nonces[t.from] = t.nonce]
             cost == t.amount + l.base_fee
             debited == [consumed EXCEPT !.balances[t.from] = @ - cost]
             paid == [debited EXCEPT !.balances[t.to] = @ + t.amount]
  <2>4. cost \in Nat
    BY <2>2
  <2>5. /\ consumed \in Ledgers /\ consumed.base_fee = l.base_fee
        /\ \A u \in Users : consumed.nonces[u] = IF u = t.from THEN t.nonce ELSE l.nonces[u]
    BY <2>2
  <2> HIDE DEF cost, consumed
  <2>6. debited \in Ledgers /\ debited.nonces = consumed.nonces
            /\ debited.base_fee = consumed.base_fee
    BY <2>2, <2>4, <2>5
  <2> HIDE DEF debited
  <2>7. paid \in Ledgers /\ paid.nonces = debited.nonces /\ paid.base_fee = debited.base_fee
    BY <2>2, <2>6
  <2> HIDE DEF paid
  <2>8. CASE t.nonce # l.nonces[t.from] + 1
    <3>1. Transferred(l, t) = [ok |-> FALSE, after |-> l]
      BY <2>8 DEF Transferred
    <3> QED BY <2>1, <2>3, <2>8, <3>1
  <2>9. CASE t.nonce = l.nonces[t.from] + 1 /\ l.balances[t.from] < cost
    <3>1. Transferred(l, t) = [ok |-> FALSE, after |-> consumed]
      BY <2>9 DEF Transferred, consumed, cost
    <3> QED BY <2>1, <2>3, <2>5, <2>9, <3>1
  <2>10. CASE t.nonce = l.nonces[t.from] + 1 /\ ~(l.balances[t.from] < cost)
    <3>1. Transferred(l, t) = [ok |-> TRUE, after |-> paid]
      BY <2>10 DEF Transferred, consumed, cost, debited, paid
    <3> QED BY <2>1, <2>3, <2>5, <2>6, <2>7, <2>10, <3>1
  <2> QED BY <2>8, <2>9, <2>10
<1> QED BY <1>1, <1>2

\* Trying transactions, one by one.
LEMMA TryNothing ==
    ASSUME NEW l
    PROVE  TryAll(l, <<>>) = l
BY FoldedNothing DEF TryAll

LEMMA TryType ==
    ASSUME NEW l \in Ledgers, NEW txs \in Seq(Pooled)
    PROVE  TryAll(l, txs) \in Ledgers
<1> DEFINE step == [t \in Pooled |-> [s \in Ledgers |-> ApplyVerified(s, t).after]]
<1>1. ASSUME NEW t \in Pooled, NEW s \in Ledgers PROVE step[t][s] \in Ledgers
  BY ApplyType
<1> HIDE DEF step
<1>2. Folded(step, l, txs) \in Ledgers
  BY <1>1, FoldedStays
<1> QED BY <1>2 DEF TryAll, step

LEMMA TryAppend ==
    ASSUME NEW l \in Ledgers, NEW txs \in Seq(Pooled), NEW t \in Pooled
    PROVE  TryAll(l, Append(txs, t)) = ApplyVerified(TryAll(l, txs), t).after
<1> DEFINE step == [x \in Pooled |-> [s \in Ledgers |-> ApplyVerified(s, x).after]]
<1>1. TryAll(l, txs) \in Ledgers
  BY TryType
<1>2. step[t][TryAll(l, txs)] = ApplyVerified(TryAll(l, txs), t).after
  BY <1>1
<1> HIDE DEF step
<1>3. Folded(step, l, Append(txs, t)) = step[t][Folded(step, l, txs)]
  BY FoldedAppend
<1>4. TryAll(l, txs) = Folded(step, l, txs)
      /\ TryAll(l, Append(txs, t)) = Folded(step, l, Append(txs, t))
  BY DEF TryAll, step
<1> QED BY <1>2, <1>3, <1>4

\* What trying a list does to the nonces: they only grow, and every nonce they
\* pass is that of a transaction of the list.
Consumes(l, txs) ==
    \A u \in Users :
        /\ TryAll(l, txs).nonces[u] >= l.nonces[u]
        /\ \A k \in Nat : l.nonces[u] < k /\ k <= TryAll(l, txs).nonces[u] =>
               \E t \in Range(txs) : t \in Txs /\ t.from = u /\ t.nonce = k

LEMMA TryConsumes ==
    ASSUME NEW l \in Ledgers, NEW txs \in Seq(Pooled)
    PROVE  Consumes(l, txs)
<1> DEFINE Good == {q \in Seq(Pooled) : Consumes(l, q)}
<1>1. <<>> \in Good
  <2>1. TryAll(l, <<>>).nonces = l.nonces
    BY TryNothing
  <2>2. \A u \in Users : l.nonces[u] \in Nat
    BY DEF Ledgers
  <2> QED BY <2>1, <2>2 DEF Consumes
<1>2. ASSUME NEW q \in Seq(Pooled), NEW t \in Pooled, q \in Good
      PROVE  Append(q, t) \in Good
  <2> DEFINE s == TryAll(l, q)
             r == TryAll(l, Append(q, t))
  <2>1. s \in Ledgers /\ Append(q, t) \in Seq(Pooled) /\ r \in Ledgers
    <3>1. Append(q, t) \in Seq(Pooled)
      OBVIOUS
    <3> QED BY <3>1, TryType
  <2>2. r = ApplyVerified(s, t).after
    BY TryAppend
  <2>3. Range(Append(q, t)) = Range(q) \cup {t}
    BY RangeAppend
  <2>4. Consumes(l, q)
    BY <1>2
  <2>5. \A u \in Users : s.nonces[u] >= l.nonces[u]
    BY <2>4 DEF Consumes
  <2>6. \A u \in Users : \A k \in Nat : l.nonces[u] < k /\ k <= s.nonces[u] =>
            \E x \in Range(q) : x \in Txs /\ x.from = u /\ x.nonce = k
    BY <2>4 DEF Consumes
  <2> HIDE DEF s, r
  <2>7. ASSUME NEW u \in Users
        PROVE  /\ s.nonces[u] \in Nat /\ r.nonces[u] \in Nat /\ l.nonces[u] \in Nat
               /\ \/ r.nonces[u] = s.nonces[u]
                  \/ /\ t \in Txs /\ t.from = u /\ t.nonce = s.nonces[u] + 1
                     /\ r.nonces[u] = t.nonce
    <3>1. r.nonces[u] = IF t \in Txs /\ u = t.from /\ t.nonce = s.nonces[u] + 1
                        THEN t.nonce ELSE s.nonces[u]
      BY <2>1, <2>2, ApplyType
    <3>2. s.nonces[u] \in Nat /\ r.nonces[u] \in Nat /\ l.nonces[u] \in Nat
      BY <2>1 DEF Ledgers
    <3> QED BY <3>1, <3>2
  <2>8. ASSUME NEW u \in Users PROVE r.nonces[u] >= l.nonces[u]
    BY <2>5, <2>7
  <2>9. ASSUME NEW u \in Users, NEW k \in Nat, l.nonces[u] < k, k <= r.nonces[u]
        PROVE  \E x \in Range(Append(q, t)) : x \in Txs /\ x.from = u /\ x.nonce = k
    <3>1. CASE k <= s.nonces[u]
      BY <2>3, <2>6, <2>9, <3>1
    <3>2. CASE ~(k <= s.nonces[u])
      <4>1. t \in Txs /\ t.from = u /\ t.nonce = k
        BY <2>7, <2>9, <3>2
      <4> QED BY <2>3, <4>1
    <3> QED BY <3>1, <3>2
  <2>10. Consumes(l, Append(q, t))
    <3>1. r = TryAll(l, Append(q, t))
      BY DEF r
    <3> QED BY <2>8, <2>9, <3>1 DEF Consumes
  <2> QED BY <2>1, <2>10
<1>3. Seq(Pooled) \subseteq Good
  <2> HIDE DEF Good
  <2> QED BY <1>1, <1>2, SeqInduction
<1> QED BY <1>3

\* Validating a block with one transaction more.
LEMMA ExecutesAppend ==
    ASSUME NEW l \in Ledgers, NEW txs \in Seq(Pooled), NEW t \in Pooled
    PROVE  Executes(l, Append(txs, t)) <=> Executes(l, txs) /\ ApplyVerified(TryAll(l, txs), t).ok
<1> DEFINE n == Len(txs)
           more == Append(txs, t)
           Good(q, i) == ApplyVerified(TryAll(l, SubSeq(q, 1, i - 1)), q[i]).ok
<1>1. n \in Nat /\ Len(more) = n + 1 /\ more[n + 1] = t
  OBVIOUS
<1>2. ASSUME NEW i \in 1 .. n PROVE SubSeq(more, 1, i - 1) = SubSeq(txs, 1, i - 1) /\ more[i] = txs[i]
  OBVIOUS
<1>3. SubSeq(more, 1, n) = txs
  OBVIOUS
<1>4. \A i \in 1 .. n : Good(more, i) <=> Good(txs, i)
  BY <1>2
<1>5. Good(more, n + 1) <=> ApplyVerified(TryAll(l, txs), t).ok
  <2>1. (n + 1) - 1 = n
    BY <1>1
  <2> QED BY <1>1, <1>3, <2>1
<1>6. Executes(l, more) <=> \A i \in 1 .. n + 1 : Good(more, i)
  BY <1>1 DEF Executes
<1>7. Executes(l, txs) <=> \A i \in 1 .. n : Good(txs, i)
  BY DEF Executes
<1> HIDE DEF Good
<1>8. 1 .. n + 1 = (1 .. n) \cup {n + 1}
  BY <1>1
<1> HIDE DEF n
<1> QED BY <1>4, <1>5, <1>6, <1>7, <1>8

\* What a valid block has carried is consumed.
LEMMA ExecutedSettles ==
    ASSUME NEW l \in Ledgers, NEW txs \in Seq(Pooled), Executes(l, txs)
    PROVE  \A t \in Range(txs) : t \in Txs /\ t.nonce <= TryAll(l, txs).nonces[t.from]
<1> DEFINE Settles(q) == \A t \in Range(q) : t \in Txs /\ t.nonce <= TryAll(l, q).nonces[t.from]
           Good == {q \in Seq(Pooled) : Executes(l, q) => Settles(q)}
<1>1. <<>> \in Good
  <2>1. Range(<<>>) = {}
    BY DEF Range
  <2> QED BY <2>1
<1>2. ASSUME NEW q \in Seq(Pooled), NEW t \in Pooled, q \in Good PROVE Append(q, t) \in Good
  <2> DEFINE s == TryAll(l, q)
             r == TryAll(l, Append(q, t))
  <2>1. s \in Ledgers /\ Append(q, t) \in Seq(Pooled) /\ r \in Ledgers
    <3>1. Append(q, t) \in Seq(Pooled)
      OBVIOUS
    <3> QED BY <3>1, TryType
  <2>2. r = ApplyVerified(s, t).after
    BY TryAppend
  <2>3. ASSUME Executes(l, Append(q, t)), NEW x \in Range(Append(q, t))
        PROVE  x \in Txs /\ x.nonce <= r.nonces[x.from]
    <3>1. Executes(l, q) /\ ApplyVerified(s, t).ok
      BY <2>3, ExecutesAppend
    <3>2. t \in Txs /\ t.nonce = s.nonces[t.from] + 1
      BY <2>1, <3>1, ApplyType
    <3>3. CASE x = t
      <4>1. t.from \in Users
        BY <3>2, MempoolAssumption
      <4>2. r.nonces[t.from] = t.nonce
        BY <2>1, <2>2, <3>2, <4>1, ApplyType
      <4>3. t.nonce \in Nat
        BY <3>2, MempoolAssumption
      <4> QED BY <3>2, <3>3, <4>2, <4>3
    <3>4. CASE x # t
      <4>1. x \in Range(q)
        BY <2>3, <3>4, RangeAppend
      <4>2. Settles(q)
        BY <1>2, <3>1
      <4>3. x \in Txs /\ x.nonce <= s.nonces[x.from]
        BY <4>1, <4>2
      <4>4. x.from \in Users /\ x.nonce \in Nat
        BY <4>3, MempoolAssumption
      <4>5. r.nonces[x.from] = s.nonces[x.from]
                \/ (t.from = x.from /\ r.nonces[x.from] = t.nonce)
        BY <2>1, <2>2, <4>4, ApplyType
      <4>6. s.nonces[x.from] \in Nat
        BY <2>1, <4>4 DEF Ledgers
      <4> QED BY <3>2, <4>3, <4>4, <4>5, <4>6
    <3> QED BY <3>3, <3>4
  <2> QED BY <2>1, <2>3
<1>3. Seq(Pooled) \subseteq Good
  <2> HIDE DEF Good
  <2> QED BY <1>1, <1>2, SeqInduction
<1> QED BY <1>3

\* end_block leaves nonces and balances alone.
LEMMA EndBlockType ==
    ASSUME NEW l \in Ledgers, NEW n \in Nat
    PROVE  EndBlock(l, n) \in Ledgers /\ EndBlock(l, n).nonces = l.nonces
<1>1. next_base_fee(l.base_fee, n) \in Nat
  BY FeeType DEF Ledgers
<1> QED BY <1>1 DEF EndBlock, Ledgers

-----------------------------------------------------------------------------
(* The pool                                                                *)

\* The transfers nobody can take out of the pool under a false id, nor gaps be
\* made between.
TransfersIn(pool) == Sure \cap Range(pool)

LEMMA SureSenders ==
    /\ Sure \subseteq Txs
    /\ \A t \in Sure : Unmistaken(t)
    /\ \A t \in Sure, s \in Txs : s.from = t.from => s \in Sure
BY DEF Sure

\* Of the transactions with an id of their own, only the named ones are meant.
LEMMA NamedIsMeant ==
    ASSUME NEW txs \in SUBSET Pooled, NEW t \in Named(txs), Unmistaken(t)
    PROVE  t \in txs
<1>1. PICK u \in txs : u.id = t.id
  BY DEF Named
<1>2. u \in Pooled
  BY <1>1
<1> QED BY <1>1, <1>2 DEF Unmistaken

LEMMA NamedHolds ==
    ASSUME NEW txs \in SUBSET Pooled
    PROVE  txs \subseteq Named(txs)
BY DEF Named

\* The transfers of one sender stand in the order of their nonces.
InOrder(pool) ==
    \A i, j \in 1 .. Len(pool) :
        i < j /\ pool[i] \in Sure /\ pool[j] \in Sure /\ pool[i].from = pool[j].from
            => pool[i].nonce < pool[j].nonce

\* A transfer follows the chain or another one of the pool.
Gapless(l, pool) ==
    \A t \in TransfersIn(pool) :
        \/ t.nonce <= l.nonces[t.from] + 1
        \/ \E s \in TransfersIn(pool) : s.from = t.from /\ s.nonce + 1 = t.nonce

LEMMA WithoutNothing == ASSUME NEW gone PROVE Without(<<>>, gone) = <<>>
BY FoldedNothing DEF Without

LEMMA WithoutAppend ==
    ASSUME NEW gone, NEW pool \in Seq(Pooled), NEW t \in Pooled
    PROVE  /\ Without(pool, gone) \in Seq(Pooled)
           /\ Without(Append(pool, t), gone) =
                  IF t \in gone THEN Without(pool, gone) ELSE Append(Without(pool, gone), t)
<1> DEFINE step == [x \in Pooled |-> [kept \in Seq(Pooled) |->
                       IF x \in gone THEN kept ELSE Append(kept, x)]]
<1>1. ASSUME NEW x \in Pooled, NEW kept \in Seq(Pooled) PROVE step[x][kept] \in Seq(Pooled)
  OBVIOUS
<1>2. ASSUME NEW kept \in Seq(Pooled)
      PROVE  step[t][kept] = IF t \in gone THEN kept ELSE Append(kept, t)
  OBVIOUS
<1> HIDE DEF step
<1>3. <<>> \in Seq(Pooled)
  OBVIOUS
<1>4. Folded(step, <<>>, pool) \in Seq(Pooled)
  BY <1>1, <1>3, FoldedStays
<1>5. Folded(step, <<>>, Append(pool, t)) = step[t][Folded(step, <<>>, pool)]
  BY FoldedAppend
<1>6. \A q : Without(q, gone) = Folded(step, <<>>, q)
  BY DEF Without, step
<1>7. Append(pool, t) \in Seq(Pooled)
  OBVIOUS
<1>8. /\ Without(pool, gone) = Folded(step, <<>>, pool)
      /\ Without(Append(pool, t), gone) = step[t][Folded(step, <<>>, pool)]
  BY <1>5, <1>6
<1> QED BY <1>2, <1>4, <1>8

\* What stays in the pool, in the order it had.
LEMMA WithoutKeeps ==
    ASSUME NEW gone, NEW pool \in Seq(Pooled)
    PROVE  /\ Without(pool, gone) \in Seq(Pooled)
           /\ Range(Without(pool, gone)) = Range(pool) \ gone
           /\ InOrder(pool) => InOrder(Without(pool, gone))
<1> DEFINE W(q) == Without(q, gone)
           Kept(q) == W(q) \in Seq(Pooled) /\ Range(W(q)) = Range(q) \ gone
           Good == {q \in Seq(Pooled) : Kept(q) /\ (InOrder(q) => InOrder(W(q)))}
<1>1. <<>> \in Good
  <2>1. <<>> \in Seq(Pooled) /\ Range(<<>>) = {} /\ InOrder(<<>>)
    BY DEF Range, InOrder
  <2> QED BY <2>1, WithoutNothing
<1>2. ASSUME NEW q \in Seq(Pooled), NEW t \in Pooled, q \in Good PROVE Append(q, t) \in Good
  <2>1. Append(q, t) \in Seq(Pooled) /\ Range(Append(q, t)) = Range(q) \cup {t}
    BY RangeAppend
  <2>2. W(q) \in Seq(Pooled) /\ Range(W(q)) = Range(q) \ gone
    BY <1>2
  <2>3. ASSUME InOrder(Append(q, t))
        PROVE  /\ InOrder(q)
               /\ \A x \in Range(q) : x \in Sure /\ t \in Sure /\ x.from = t.from => x.nonce < t.nonce
    <3> DEFINE n == Len(q)
    <3>1. n \in Nat /\ Len(Append(q, t)) = n + 1 /\ Append(q, t)[n + 1] = t
      OBVIOUS
    <3>2. \A i \in 1 .. n : Append(q, t)[i] = q[i]
      OBVIOUS
    <3>3. InOrder(q)
      <4>1. \A i \in 1 .. n : i \in 1 .. n + 1
        BY <3>1
      <4> QED BY <2>3, <3>1, <3>2, <4>1 DEF InOrder
    <3>4. ASSUME NEW x \in Range(q), x \in Sure, t \in Sure, x.from = t.from PROVE x.nonce < t.nonce
      <4>1. PICK i \in 1 .. n : x = q[i]
        BY DEF Range
      <4>2. i \in 1 .. n + 1 /\ n + 1 \in 1 .. n + 1 /\ i < n + 1
        BY <3>1
      <4> QED BY <2>3, <3>1, <3>2, <3>4, <4>1, <4>2 DEF InOrder
    <3> QED BY <3>3, <3>4
  <2>4. CASE t \in gone
    <3>1. W(Append(q, t)) = W(q)
      BY <2>4, WithoutAppend
    <3> QED BY <1>2, <2>1, <2>2, <2>3, <2>4, <3>1
  <2>5. CASE t \notin gone
    <3>1. W(Append(q, t)) = Append(W(q), t)
      BY <2>5, WithoutAppend
    <3>2. Range(Append(W(q), t)) = Range(W(q)) \cup {t}
      BY <2>2, RangeAppend
    <3>3. ASSUME InOrder(Append(q, t)) PROVE InOrder(Append(W(q), t))
      <4> DEFINE k == W(q)
                 n == Len(k)
      <4>1. InOrder(k)
        BY <1>2, <2>3, <3>3
      <4>2. n \in Nat /\ Len(Append(k, t)) = n + 1 /\ Append(k, t)[n + 1] = t
        BY <2>2
      <4>3. \A i \in 1 .. n : Append(k, t)[i] = k[i] /\ k[i] \in Range(q)
        <5>1. \A i \in 1 .. n : Append(k, t)[i] = k[i]
          BY <2>2
        <5>2. \A i \in 1 .. n : k[i] \in Range(k)
          BY <2>2 DEF Range
        <5> QED BY <2>2, <5>1, <5>2
      <4>4. ASSUME NEW i \in 1 .. n + 1, NEW j \in 1 .. n + 1, i < j,
                   Append(k, t)[i] \in Sure, Append(k, t)[j] \in Sure,
                   Append(k, t)[i].from = Append(k, t)[j].from
            PROVE  Append(k, t)[i].nonce < Append(k, t)[j].nonce
        <5>1. i \in 1 .. n
          BY <4>2, <4>4
        <5>2. CASE j \in 1 .. n
          BY <4>1, <4>3, <4>4, <5>1, <5>2 DEF InOrder
        <5>3. CASE j = n + 1
          BY <2>3, <3>3, <4>2, <4>3, <4>4, <5>1, <5>3
        <5> QED BY <4>2, <5>2, <5>3
      <4> QED BY <4>2, <4>4 DEF InOrder
    <3>4. Append(W(q), t) \in Seq(Pooled)
      BY <2>2
    <3> QED BY <2>1, <2>2, <2>5, <3>1, <3>2, <3>3, <3>4
  <2> QED BY <2>4, <2>5
<1>3. Seq(Pooled) \subseteq Good
  <2> HIDE DEF Good
  <2> QED BY <1>1, <1>2, SeqInduction
<1> QED BY <1>3

\* The projected state has consumed the nonce of every transfer of the pool.
LEMMA ProjectionReaches ==
    ASSUME NEW l \in Ledgers, NEW pool \in Seq(Pooled), InOrder(pool), Gapless(l, pool)
    PROVE  \A t \in TransfersIn(pool) : t.nonce <= TryAll(l, pool).nonces[t.from]
<1> DEFINE n == Len(pool)
           upto(i) == SubSeq(pool, 1, i)
           s(i) == TryAll(l, upto(i))
           Reached(i) == \A j \in 1 .. i : pool[j] \in Sure => pool[j].nonce <= s(i).nonces[pool[j].from]
           Good == {i \in 0 .. n : Reached(i)}
<1>1. n \in Nat /\ upto(n) = pool
  OBVIOUS
<1>2. ASSUME NEW i \in 0 .. n PROVE upto(i) \in Seq(Pooled)
  OBVIOUS
<1>3. ASSUME NEW i \in 0 .. n PROVE s(i) \in Ledgers /\ Consumes(l, upto(i))
  BY <1>2, TryType, TryConsumes
<1>4. ASSUME NEW i \in 1 .. n PROVE pool[i] \in Pooled /\ s(i) = ApplyVerified(s(i - 1), pool[i]).after
  <2>1. pool[i] \in Pooled /\ i - 1 \in 0 .. n
    OBVIOUS
  <2>2. upto(i) = Append(upto(i - 1), pool[i])
    BY <2>1
  <2>3. upto(i - 1) \in Seq(Pooled)
    BY <1>2, <2>1
  <2> HIDE DEF upto
  <2> QED BY <2>1, <2>2, <2>3, TryAppend
<1>5. 0 \in Good
  BY <1>1
<1>6. ASSUME NEW i \in 1 .. n, i - 1 \in Good PROVE i \in Good
  <2>1. i - 1 \in 0 .. n /\ i \in 0 .. n /\ i - 1 \in Nat
    OBVIOUS
  <2>2. Reached(i - 1)
    BY <1>6
  <2> DEFINE t == pool[i]
  <2>3. ASSUME NEW u \in Users
        PROVE  /\ s(i - 1).nonces[u] \in Nat /\ s(i).nonces[u] \in Nat
               /\ l.nonces[u] \in Nat /\ s(i - 1).nonces[u] >= l.nonces[u]
               /\ s(i).nonces[u] = IF t \in Txs /\ u = t.from /\ t.nonce = s(i - 1).nonces[u] + 1
                                   THEN t.nonce ELSE s(i - 1).nonces[u]
    <3>1. s(i - 1) \in Ledgers /\ s(i) \in Ledgers /\ Consumes(l, upto(i - 1))
      BY <1>3, <2>1
    <3>2. s(i - 1).nonces[u] >= l.nonces[u]
      BY <3>1 DEF Consumes
    <3>3. s(i).nonces[u] = IF t \in Txs /\ u = t.from /\ t.nonce = s(i - 1).nonces[u] + 1
                           THEN t.nonce ELSE s(i - 1).nonces[u]
      <4>1. pool[i] \in Pooled /\ s(i) = ApplyVerified(s(i - 1), pool[i]).after
        BY <1>4
      <4> HIDE DEF s
      <4> QED BY <3>1, <4>1, ApplyType
    <3>4. s(i - 1).nonces[u] \in Nat /\ s(i).nonces[u] \in Nat /\ l.nonces[u] \in Nat
      BY <3>1 DEF Ledgers
    <3> QED BY <3>2, <3>3, <3>4
  <2> HIDE DEF s
  <2>4. ASSUME t \in Sure PROVE t.nonce <= s(i).nonces[t.from]
    <3>1. t \in Txs /\ t.from \in Users /\ t.nonce \in Nat
      BY <2>4, SureSenders, MempoolAssumption
    <3>2. t.nonce <= s(i - 1).nonces[t.from] + 1
      <4>1. t \in TransfersIn(pool)
        BY <2>4 DEF TransfersIn, Range
      <4>2. CASE t.nonce <= l.nonces[t.from] + 1
        BY <2>3, <3>1, <4>2
      <4>3. CASE \E x \in TransfersIn(pool) : x.from = t.from /\ x.nonce + 1 = t.nonce
        <5>1. PICK x \in TransfersIn(pool) : x.from = t.from /\ x.nonce + 1 = t.nonce
          BY <4>3
        <5>2. PICK j \in 1 .. n : pool[j] = x
          BY <5>1 DEF TransfersIn, Range
        <5>3. x \in Sure /\ x.nonce \in Nat
          BY <5>1, SureSenders, MempoolAssumption DEF TransfersIn
        <5>4. j < i
          <6>1. ASSUME i < j PROVE FALSE
            <7>1. t.nonce < x.nonce
              BY <2>4, <5>1, <5>2, <5>3, <6>1 DEF InOrder
            <7> QED BY <3>1, <5>1, <5>3, <7>1
          <6>2. j # i
            BY <3>1, <5>1, <5>2, <5>3
          <6> QED BY <6>1, <6>2
        <5>5. x.nonce <= s(i - 1).nonces[x.from]
          BY <2>2, <5>2, <5>3, <5>4
        <5>6. s(i - 1).nonces[t.from] \in Nat
          BY <2>3, <3>1
        <5> QED BY <3>1, <5>1, <5>3, <5>5, <5>6
      <4> QED BY <4>1, <4>2, <4>3 DEF Gapless
    <3>3. /\ s(i - 1).nonces[t.from] \in Nat
          /\ s(i).nonces[t.from] = IF t.nonce = s(i - 1).nonces[t.from] + 1
                                   THEN t.nonce ELSE s(i - 1).nonces[t.from]
      BY <2>3, <2>4, <3>1
    <3> HIDE DEF t
    <3> QED BY <3>1, <3>2, <3>3
  <2>5. ASSUME NEW j \in 1 .. i, pool[j] \in Sure
        PROVE  pool[j].nonce <= s(i).nonces[pool[j].from]
    <3>1. CASE j = i
      BY <2>4, <2>5, <3>1
    <3>2. CASE j # i
      <4>1. pool[j].nonce <= s(i - 1).nonces[pool[j].from]
        BY <2>2, <2>5, <3>2
      <4>2. pool[j].from \in Users /\ pool[j].nonce \in Nat
        BY <2>5, SureSenders, MempoolAssumption
      <4>3. /\ s(i - 1).nonces[pool[j].from] \in Nat /\ s(i).nonces[pool[j].from] \in Nat
            /\ s(i).nonces[pool[j].from] >= s(i - 1).nonces[pool[j].from]
        BY <2>3, <4>2
      <4> QED BY <4>1, <4>2, <4>3
    <3> QED BY <3>1, <3>2
  <2> QED BY <2>1, <2>5
<1>7. 0 .. n \subseteq Good
  <2> HIDE DEF Good
  <2> QED BY <1>1, <1>5, <1>6, PlaceInduction
<1>8. Reached(n)
  BY <1>1, <1>7
<1>9. ASSUME NEW t \in TransfersIn(pool) PROVE t.nonce <= s(n).nonces[t.from]
  <2>1. PICK j \in 1 .. n : pool[j] = t
    BY DEF TransfersIn, Range
  <2>2. t \in Sure
    BY DEF TransfersIn
  <2> QED BY <1>8, <2>1, <2>2
<1> QED BY <1>1, <1>9

\* Anything else at the end changes nothing for them.
LEMMA OthersAreNeutral ==
    ASSUME NEW l \in Ledgers, NEW pool \in Seq(Pooled), InOrder(pool), Gapless(l, pool),
           NEW a \in Pooled \ Sure
    PROVE  /\ InOrder(Append(pool, a)) /\ Gapless(l, Append(pool, a))
           /\ TransfersIn(Append(pool, a)) = TransfersIn(pool)
<1>1. a \notin Sure
  OBVIOUS
<1>2. TransfersIn(Append(pool, a)) = TransfersIn(pool)
  BY <1>1, RangeAppend DEF TransfersIn
<1> DEFINE n == Len(pool)
           more == Append(pool, a)
<1>3. n \in Nat /\ Len(more) = n + 1 /\ more[n + 1] = a
  OBVIOUS
<1>4. \A i \in 1 .. n : more[i] = pool[i]
  OBVIOUS
<1> HIDE DEF more
<1>5. \A i \in 1 .. n + 1 : more[i] \in Sure => i \in 1 .. n
  BY <1>1, <1>3
<1>6. InOrder(more)
  BY <1>3, <1>4, <1>5 DEF InOrder
<1>7. Gapless(l, more)
  BY <1>2 DEF Gapless, more
<1> QED BY <1>2, <1>6, <1>7 DEF more

\* What applies after the pool goes behind everything its sender has in it.
LEMMA AdmittedIsNext ==
    ASSUME NEW l \in Ledgers, NEW pool \in Seq(Pooled), InOrder(pool), Gapless(l, pool),
           NEW t \in Pooled, ApplyVerified(TryAll(l, pool), t).ok
    PROVE  /\ t \in Txs /\ t.nonce > l.nonces[t.from]
           /\ InOrder(Append(pool, t)) /\ Gapless(l, Append(pool, t))
<1> DEFINE s == TryAll(l, pool)
<1>1. s \in Ledgers /\ Consumes(l, pool)
  BY TryType, TryConsumes
<1>2. t \in Txs /\ t.nonce = s.nonces[t.from] + 1
  BY <1>1, ApplyType
<1>3. t.from \in Users /\ t.nonce \in Nat
  BY <1>2, MempoolAssumption
<1>4. s.nonces[t.from] \in Nat /\ l.nonces[t.from] \in Nat
  BY <1>1, <1>3 DEF Ledgers
<1>5. s.nonces[t.from] >= l.nonces[t.from]
  BY <1>1, <1>3 DEF Consumes
<1>6. t.nonce > l.nonces[t.from]
  BY <1>2, <1>4, <1>5
<1>7. \A x \in TransfersIn(pool) : x.nonce \in Nat /\ x.nonce <= s.nonces[x.from]
  BY ProjectionReaches, SureSenders, MempoolAssumption DEF TransfersIn
<1>8. \A x \in TransfersIn(pool) : x.from = t.from => x.nonce < t.nonce
  <2> HIDE DEF s
  <2> QED BY <1>2, <1>4, <1>7
<1>9. CASE t \notin Sure
  BY <1>2, <1>6, <1>9, OthersAreNeutral
<1>10. ASSUME t \in Sure PROVE InOrder(Append(pool, t))
  <2> DEFINE n == Len(pool)
             more == Append(pool, t)
  <2>1. n \in Nat /\ Len(more) = n + 1 /\ more[n + 1] = t
    OBVIOUS
  <2>2. \A i \in 1 .. n : more[i] = pool[i]
    OBVIOUS
  <2>3. \A i \in 1 .. n : pool[i] \in Range(pool)
    BY DEF Range
  <2> HIDE DEF more
  <2>4. ASSUME NEW i \in 1 .. n + 1, NEW j \in 1 .. n + 1, i < j, more[i] \in Sure,
               more[j] \in Sure, more[i].from = more[j].from
        PROVE  more[i].nonce < more[j].nonce
    <3>1. i \in 1 .. n
      BY <2>1, <2>4
    <3>2. CASE j \in 1 .. n
      BY <2>2, <2>4, <3>1, <3>2 DEF InOrder
    <3>3. CASE j = n + 1
      <4>1. more[i] \in TransfersIn(pool)
        BY <2>2, <2>3, <2>4, <3>1 DEF TransfersIn
      <4> QED BY <1>8, <2>1, <2>4, <3>3, <4>1
    <3> QED BY <2>1, <3>2, <3>3
  <2>5. InOrder(more)
    BY <2>1, <2>4 DEF InOrder
  <2> QED BY <2>5 DEF more
<1>11. ASSUME t \in Sure PROVE Gapless(l, Append(pool, t))
  <2>1. TransfersIn(Append(pool, t)) = TransfersIn(pool) \cup {t}
    BY <1>11, RangeAppend DEF TransfersIn
  <2>2. \/ t.nonce <= l.nonces[t.from] + 1
        \/ \E x \in TransfersIn(pool) : x.from = t.from /\ x.nonce + 1 = t.nonce
    <3>1. CASE s.nonces[t.from] = l.nonces[t.from]
      BY <1>2, <1>4, <3>1
    <3>2. CASE s.nonces[t.from] # l.nonces[t.from]
      <4>1. PICK k \in Nat : k = s.nonces[t.from]
        BY <1>4
      <4>2. l.nonces[t.from] < k
        BY <1>4, <1>5, <3>2, <4>1
      <4>3. \E x \in Range(pool) : x \in Txs /\ x.from = t.from /\ x.nonce = k
        BY <1>1, <1>3, <1>4, <4>1, <4>2 DEF Consumes
      <4>4. PICK x \in Range(pool) : x \in Txs /\ x.from = t.from /\ x.nonce = k
        BY <4>3
      <4>5. x \in TransfersIn(pool)
        BY <1>11, <4>4, SureSenders DEF TransfersIn
      <4> QED BY <1>2, <4>1, <4>4, <4>5
    <3> QED BY <3>1, <3>2
  <2> QED BY <2>1, <2>2 DEF Gapless
<1> QED BY <1>2, <1>6, <1>9, <1>10, <1>11

\* Taking out what the chain has settled by then leaves no gap behind.
LEMMA RemovalLeavesNoGap ==
    ASSUME NEW l \in Ledgers, NEW after \in Ledgers,
           \A u \in Users : after.nonces[u] >= l.nonces[u],
           NEW pool \in Seq(Pooled), InOrder(pool), Gapless(l, pool), NEW gone,
           \A t \in TransfersIn(pool) \cap gone : t.nonce <= after.nonces[t.from]
    PROVE  /\ Without(pool, gone) \in Seq(Pooled)
           /\ InOrder(Without(pool, gone)) /\ Gapless(after, Without(pool, gone))
           /\ Range(Without(pool, gone)) = Range(pool) \ gone
<1>1. /\ Without(pool, gone) \in Seq(Pooled) /\ InOrder(Without(pool, gone))
      /\ Range(Without(pool, gone)) = Range(pool) \ gone
  BY WithoutKeeps
<1>2. ASSUME NEW t \in TransfersIn(pool), t \notin gone
      PROVE  \/ t.nonce <= after.nonces[t.from] + 1
             \/ \E s \in TransfersIn(pool) \ gone : s.from = t.from /\ s.nonce + 1 = t.nonce
  <2>1. t.from \in Users /\ t.nonce \in Nat
    BY SureSenders, MempoolAssumption DEF TransfersIn
  <2>2. l.nonces[t.from] \in Nat /\ after.nonces[t.from] \in Nat
    BY <2>1 DEF Ledgers
  <2>3. CASE t.nonce <= l.nonces[t.from] + 1
    BY <2>1, <2>2, <2>3
  <2>4. CASE \E s \in TransfersIn(pool) : s.from = t.from /\ s.nonce + 1 = t.nonce
    <3>1. PICK s \in TransfersIn(pool) : s.from = t.from /\ s.nonce + 1 = t.nonce
      BY <2>4
    <3>2. CASE s \in gone
      <4>1. s.nonce <= after.nonces[s.from] /\ s.nonce \in Nat
        BY <3>1, <3>2, SureSenders, MempoolAssumption DEF TransfersIn
      <4> QED BY <2>1, <2>2, <3>1, <4>1
    <3> QED BY <3>1, <3>2
  <2> QED BY <2>3, <2>4 DEF Gapless
<1>3. TransfersIn(Without(pool, gone)) = TransfersIn(pool) \ gone
  BY <1>1 DEF TransfersIn
<1>4. Gapless(after, Without(pool, gone))
  BY <1>2, <1>3 DEF Gapless
<1> QED BY <1>1, <1>4

\* What a valid block does to the ledger.
LEMMA BlockSettles ==
    ASSUME NEW l \in Ledgers, NEW txs \in Seq(Pooled), Executes(l, txs)
    PROVE  /\ Executed(l, txs) \in Ledgers
           /\ \A u \in Users : Executed(l, txs).nonces[u] >= l.nonces[u]
           /\ \A t \in Range(txs) : t \in Txs /\ t.nonce <= Executed(l, txs).nonces[t.from]
           /\ \A u \in Users, k \in Nat : l.nonces[u] < k /\ k <= Executed(l, txs).nonces[u] =>
                  \E t \in Range(txs) : t \in Txs /\ t.from = u /\ t.nonce = k
<1>1. TryAll(l, txs) \in Ledgers /\ Len(txs) \in Nat
  BY TryType
<1>2. Executed(l, txs) \in Ledgers /\ Executed(l, txs).nonces = TryAll(l, txs).nonces
  BY <1>1, EndBlockType DEF Executed
<1>3. Consumes(l, txs)
  BY TryConsumes
<1>4. \A t \in Range(txs) : t \in Txs /\ t.nonce <= TryAll(l, txs).nonces[t.from]
  BY ExecutedSettles
<1> QED BY <1>2, <1>3, <1>4 DEF Consumes

-----------------------------------------------------------------------------
(* Planning                                                                *)

\* One round of the loop of plan_block.
LEMMA IncludeType ==
    ASSUME NEW p \in Plans, NEW t \in Pooled
    PROVE  /\ Include(p, t) \in Plans
           /\ \A u \in Users : Include(p, t).state.nonces[u] >= p.state.nonces[u]
           /\ \/ Include(p, t).txs = p.txs
              \/ /\ t \in Txs /\ t.nonce = p.state.nonces[t.from] + 1
                 /\ Include(p, t).txs = Append(p.txs, t)
<1> DEFINE r == ApplyVerified(p.state, t)
<1>1. p.state \in Ledgers /\ p.txs \in Seq(Pooled)
  BY DEF Plans
<1>2. /\ r.after \in Ledgers
      /\ \A u \in Users : r.after.nonces[u] =
             IF t \in Txs /\ u = t.from /\ t.nonce = p.state.nonces[u] + 1
             THEN t.nonce ELSE p.state.nonces[u]
      /\ r.ok => t \in Txs /\ t.nonce = p.state.nonces[t.from] + 1
  BY <1>1, ApplyType
<1>3. Append(p.txs, t) \in Seq(Pooled)
  BY <1>1
<1>4. \A u \in Users : p.state.nonces[u] \in Nat
  BY <1>1 DEF Ledgers
<1>5. CASE Len(p.txs) >= MAX_BLOCK_TXS
  <2>1. Include(p, t) = p
    BY <1>5 DEF Include
  <2> QED BY <1>4, <2>1
<1>6. CASE ~(Len(p.txs) >= MAX_BLOCK_TXS)
  <2>1. Include(p, t) = [state |-> r.after, txs |-> IF r.ok THEN Append(p.txs, t) ELSE p.txs]
    BY <1>6 DEF Include
  <2> HIDE DEF r
  <2>2. \A u \in Users : r.after.nonces[u] >= p.state.nonces[u]
    BY <1>2, <1>4
  <2>3. Include(p, t) \in Plans
    BY <1>1, <1>2, <1>3, <2>1 DEF Plans
  <2> QED BY <1>2, <2>1, <2>2, <2>3
<1> QED BY <1>5, <1>6

\* A plan holds transfers of the pool that the chain has not settled.
LEMMA PlannedType ==
    ASSUME ledger \in Ledgers, pending \in Seq(Pooled)
    PROVE  /\ Planned \in Plans
           /\ \A t \in Range(Planned.txs) :
                  t \in Txs \cap Range(pending) /\ t.nonce > ledger.nonces[t.from]
<1> DEFINE T == Range(pending)
           start == [state |-> ledger, txs |-> <<>>]
           step == [t \in Pooled |-> [p \in Plans |-> Include(p, t)]]
           Grown(p) == \A u \in Users : p.state.nonces[u] >= ledger.nonces[u]
           Fresh(p) == \A t \in Range(p.txs) :
                           t \in Txs \cap Range(pending) /\ t.nonce > ledger.nonces[t.from]
           P == {p \in Plans : Grown(p) /\ Fresh(p)}
<1>1. pending \in Seq(T) /\ T \subseteq Pooled
  BY DEF Range
<1>2. \A u \in Users : ledger.nonces[u] \in Nat
  BY DEF Ledgers
<1>3. start \in P
  <2>1. start \in Plans
    BY DEF Plans
  <2>2. Range(<<>>) = {}
    BY DEF Range
  <2> QED BY <1>2, <2>1, <2>2
<1>4. ASSUME NEW t \in T, NEW p \in P PROVE step[t][p] \in P
  <2>1. p \in Plans /\ t \in Pooled
    BY <1>1
  <2>2. step[t][p] = Include(p, t)
    BY <2>1
  <2> DEFINE q == Include(p, t)
  <2>3. /\ q \in Plans
        /\ \A u \in Users : q.state.nonces[u] >= p.state.nonces[u]
        /\ \/ q.txs = p.txs
           \/ t \in Txs /\ t.nonce = p.state.nonces[t.from] + 1 /\ q.txs = Append(p.txs, t)
    BY <2>1, IncludeType
  <2> HIDE DEF q
  <2>4. Grown(p) /\ Fresh(p)
    OBVIOUS
  <2>5. \A u \in Users : p.state.nonces[u] \in Nat /\ q.state.nonces[u] \in Nat
    BY <2>1, <2>3 DEF Plans, Ledgers
  <2>6. Grown(q)
    BY <1>2, <2>3, <2>4, <2>5
  <2>7. Fresh(q)
    <3>1. CASE q.txs = p.txs
      BY <2>4, <3>1
    <3>2. CASE t \in Txs /\ t.nonce = p.state.nonces[t.from] + 1 /\ q.txs = Append(p.txs, t)
      <4>1. p.txs \in Seq(Pooled)
        BY <2>1 DEF Plans
      <4>2. Range(q.txs) = Range(p.txs) \cup {t}
        BY <3>2, <4>1, RangeAppend
      <4>3. t.from \in Users /\ t.nonce \in Nat
        BY <3>2, MempoolAssumption
      <4>4. t.nonce > ledger.nonces[t.from]
        BY <1>2, <2>4, <2>5, <3>2, <4>3
      <4>5. t \in Txs \cap Range(pending)
        BY <3>2
      <4> QED BY <2>4, <4>2, <4>4, <4>5
    <3> QED BY <2>3, <3>1, <3>2
  <2>8. q \in P
    BY <2>3, <2>6, <2>7
  <2> QED BY <2>2, <2>8 DEF q
<1> HIDE DEF step, start, P, T
<1>5. Folded(step, start, pending) \in P
  BY <1>1, <1>3, <1>4, FoldedStays
<1>6. Planned = Folded(step, start, pending)
  BY DEF Planned, step, start
<1> QED BY <1>5, <1>6 DEF P

\* From a pool in which nothing fails half-way, a plan is a valid block.
LEMMA UnspoiltPlan ==
    ASSUME ledger \in Ledgers, pending \in Seq(Pooled), ~PoolIsSpoilt
    PROVE  /\ Executes(ledger, Planned.txs)
           /\ Planned.state = TryAll(ledger, Planned.txs)
<1> DEFINE n == Len(pending)
           upto(i) == SubSeq(pending, 1, i)
           start == [state |-> ledger, txs |-> <<>>]
           step == [t \in Pooled |-> [p \in Plans |-> Include(p, t)]]
           p(i) == Folded(step, start, upto(i))
           Valid(i) == Executes(ledger, p(i).txs) /\ p(i).state = TryAll(ledger, p(i).txs)
           Full(i) == Len(p(i).txs) >= MAX_BLOCK_TXS
           Good == {i \in 0 .. n : p(i) \in Plans /\ Valid(i)
                                   /\ (Full(i) \/ p(i).state = TryAll(ledger, upto(i)))}
<1>1. n \in Nat /\ upto(n) = pending /\ upto(0) = <<>>
  OBVIOUS
<1>2. start \in Plans /\ start.state = ledger /\ start.txs = <<>>
  BY DEF Plans
<1>3. ASSUME NEW t \in Pooled, NEW q \in Plans PROVE step[t][q] = Include(q, t)
  OBVIOUS
<1>4. Planned = p(n)
  BY <1>1 DEF Planned
<1> HIDE DEF start, step
<1>5. 0 \in Good
  <2>1. p(0) = start
    BY <1>1, FoldedNothing
  <2>2. p(0) \in Plans
    BY <1>2, <2>1
  <2>3. Executes(ledger, <<>>)
    BY DEF Executes
  <2>4. TryAll(ledger, <<>>) = ledger
    BY TryNothing
  <2>5. Valid(0) /\ p(0).state = TryAll(ledger, upto(0))
    <3>1. p(0).txs = <<>> /\ p(0).state = ledger
      BY <1>2, <2>1
    <3> HIDE DEF p
    <3> QED BY <1>1, <2>3, <2>4, <3>1
  <2>6. 0 \in 0 .. n
    BY <1>1
  <2> QED BY <2>2, <2>5, <2>6
<1>6. ASSUME NEW i \in 1 .. n, i - 1 \in Good PROVE i \in Good
  <2> DEFINE t == pending[i]
             r == ApplyVerified(p(i - 1).state, t)
  <2>1. i \in 0 .. n /\ t \in Pooled
    OBVIOUS
  <2>2. p(i - 1) \in Plans /\ Valid(i - 1) /\ (Full(i - 1) \/ p(i - 1).state = TryAll(ledger, upto(i - 1)))
    BY <1>6
  <2>3. /\ upto(i - 1) \in Seq(Pooled) /\ upto(i) = Append(upto(i - 1), t)
        /\ p(i) = step[t][p(i - 1)]
    <3>1. upto(i - 1) \in Seq(Pooled) /\ upto(i) = Append(upto(i - 1), t)
      OBVIOUS
    <3> HIDE DEF upto, t
    <3>2. Folded(step, start, Append(upto(i - 1), t)) =
              step[t][Folded(step, start, upto(i - 1))]
      BY <2>1, <3>1, FoldedAppend
    <3> QED BY <3>1, <3>2
  <2>4. p(i) = Include(p(i - 1), t)
    BY <1>3, <2>1, <2>2, <2>3
  <2>5. p(i) \in Plans
    BY <2>1, <2>2, <2>4, IncludeType
  <2>6. CASE Full(i - 1)
    <3>1. p(i) = p(i - 1)
      BY <2>4, <2>6 DEF Include
    <3> QED BY <2>1, <2>2, <2>6, <3>1
  <2>7. CASE ~Full(i - 1)
    <3>1. p(i) = [state |-> r.after, txs |-> IF r.ok THEN Append(p(i - 1).txs, t) ELSE p(i - 1).txs]
      BY <2>4, <2>7 DEF Include
    <3>2. p(i - 1).state = TryAll(ledger, upto(i - 1))
      BY <2>2, <2>7
    <3>3. p(i - 1).txs \in Seq(Pooled) /\ p(i - 1).state \in Ledgers
      BY <2>2 DEF Plans
    <3>4. p(i).state = TryAll(ledger, upto(i))
      <4>1. TryAll(ledger, upto(i)) = ApplyVerified(TryAll(ledger, upto(i - 1)), t).after
        <5> HIDE DEF upto, p, t
        <5> QED BY <2>1, <2>3, TryAppend
      <4> HIDE DEF p
      <4> QED BY <3>1, <3>2, <4>1
    <3>5. CASE r.ok
      <4>1. p(i).txs = Append(p(i - 1).txs, t) /\ p(i).state = r.after
        <5> HIDE DEF p
        <5> QED BY <3>1, <3>5
      <4>2. Executes(ledger, p(i - 1).txs) /\ p(i - 1).state = TryAll(ledger, p(i - 1).txs)
        BY <2>2
      <4> HIDE DEF p, t
      <4>3. Executes(ledger, p(i).txs)
        BY <2>1, <3>3, <3>5, <4>1, <4>2, ExecutesAppend
      <4>4. p(i).state = TryAll(ledger, p(i).txs)
        BY <2>1, <3>3, <4>1, <4>2, TryAppend
      <4> QED BY <2>1, <2>5, <3>4, <4>3, <4>4
    <3>6. CASE ~r.ok
      <4>1. ~Spoils(i)
        BY DEF PoolIsSpoilt
      <4>2. r.after = p(i - 1).state
        <5>1. upto(i - 1) = SubSeq(pending, 1, i - 1)
          OBVIOUS
        <5> HIDE DEF upto, p
        <5> QED BY <3>2, <3>6, <4>1, <5>1 DEF Spoils
      <4>3. p(i).txs = p(i - 1).txs /\ p(i).state = p(i - 1).state
        BY <3>1, <3>6, <4>2
      <4> HIDE DEF p, t
      <4> QED BY <2>1, <2>2, <2>5, <3>4, <4>3
    <3> QED BY <3>5, <3>6
  <2> QED BY <2>6, <2>7
<1>7. 0 .. n \subseteq Good
  <2> HIDE DEF Good
  <2> QED BY <1>1, <1>5, <1>6, PlaceInduction
<1>8. Valid(n)
  BY <1>1, <1>7
<1> QED BY <1>8, <1>4

-----------------------------------------------------------------------------
(* The inductive invariant                                                 *)

TaskStates ==
    [doing : {"idle"}] \cup [doing : {"admit"}, tx : Txs] \cup [doing : {"prune"}, gone : SUBSET Txs]

PoolTypes ==
    /\ ledger \in Ledgers
    /\ pending \in Seq(Pooled)
    /\ plan \in [txs : Seq(Pooled), root : Ledgers \cup {<<>>}, stale : BOOLEAN, mining : BOOLEAN]
    /\ task \in [Handlers -> TaskStates]

\* What a handler is about to take out of the pool, the chain has consumed.
GoneIsSettled ==
    \A h \in Handlers : task[h].doing = "prune" => \A t \in task[h].gone : Settled(t)

\* While the tip does not move, the planned transfers stay in the pool and are due.
PlanIsFresh ==
    plan.mining /\ ~plan.stale =>
        \A t \in Range(plan.txs) \cap Sure : t \in Range(pending) /\ ~Settled(t)

PoolInv ==
    /\ PoolTypes
    /\ InOrder(pending)
    /\ Gapless(ledger, pending)
    /\ GoneIsSettled
    /\ PlanIsFresh
    /\ PoolSettled

\* No step takes a transaction with an id of its own out of the pool that is not
\* settled by then.
NothingLost == \A t \in Range(pending) \ Range(pending') : Unmistaken(t) => Settled(t)'

LEMMA TransferSettled ==
    ASSUME NEW t \in Txs
    PROVE  Settled(t) <=> t.nonce <= ledger.nonces[t.from]
BY MempoolAssumption DEF Settled, InScope

LEMMA AnchorNeverSettled ==
    ASSUME NEW t \in Anchors
    PROVE  ~Settled(t)
BY DEF Settled, InScope

LEMMA PoolInit == Init => PoolInv
<1> SUFFICES ASSUME Init PROVE PoolInv
  OBVIOUS
<1> USE DEF Init
<1>1. ledger \in Ledgers
  BY MempoolAssumption, FeesAssumption DEF Ledgers
<1>2. <<>> \in Seq(Pooled) /\ Range(<<>>) = {}
  BY DEF Range
<1>3. NoPlan \in [txs : Seq(Pooled), root : Ledgers \cup {<<>>}, stale : BOOLEAN, mining : BOOLEAN]
  BY DEF NoPlan
<1>4. Idle \in TaskStates
  BY DEF Idle, TaskStates
<1>5. PoolTypes
  BY <1>1, <1>2, <1>3, <1>4 DEF PoolTypes
<1>6. InOrder(pending) /\ Gapless(ledger, pending)
  BY <1>2 DEF InOrder, Gapless, TransfersIn
<1>7. GoneIsSettled
  BY DEF GoneIsSettled, Idle
<1>8. PlanIsFresh
  BY DEF PlanIsFresh, NoPlan
<1>9. PoolSettled
  BY <1>2 DEF PoolSettled
<1> QED BY <1>5, <1>6, <1>7, <1>8, <1>9 DEF PoolInv

\* A transfer or an anchor joins the pool; whoever pushed it is not pruning.
LEMMA PushKeeps ==
    ASSUME PoolInv, NEW t \in Pooled,
           \/ ApplyVerified(TryAll(ledger, pending), t).ok
           \/ t \in Anchors,
           pending' = Append(pending, t), UNCHANGED <<ledger, plan>>,
           task' \in [Handlers -> TaskStates],
           \A h \in Handlers : task'[h] = task[h] \/ (task[h].doing # "prune" /\ task'[h] = Idle)
    PROVE  PoolInv' /\ NothingLost
<1>1. ledger \in Ledgers /\ pending \in Seq(Pooled) /\ InOrder(pending) /\ Gapless(ledger, pending)
  BY DEF PoolInv, PoolTypes
<1>2. /\ InOrder(Append(pending, t)) /\ Gapless(ledger, Append(pending, t))
      /\ ~Settled(t)
  <2>1. CASE t \in Anchors
    <3>1. t \notin Sure
      BY <2>1, SureSenders, MempoolAssumption
    <3> QED BY <1>1, <2>1, <3>1, OthersAreNeutral, AnchorNeverSettled
  <2>2. CASE ApplyVerified(TryAll(ledger, pending), t).ok
    <3>1. /\ t \in Txs /\ t.nonce > ledger.nonces[t.from]
          /\ InOrder(Append(pending, t)) /\ Gapless(ledger, Append(pending, t))
      BY <1>1, <2>2, AdmittedIsNext
    <3>2. t.nonce \in Nat /\ ledger.nonces[t.from] \in Nat
      BY <1>1, <3>1, MempoolAssumption DEF Ledgers
    <3>3. ~(t.nonce <= ledger.nonces[t.from])
      BY <3>1, <3>2
    <3> QED BY <3>1, <3>3, TransferSettled
  <2> QED BY <2>1, <2>2
<1>3. Range(pending') = Range(pending) \cup {t}
  BY <1>1, RangeAppend
<1>4. \A x : Settled(x)' <=> Settled(x)
  BY DEF Settled
<1>5. PoolTypes'
  <2>1. pending' \in Seq(Pooled)
    BY <1>1
  <2> QED BY <2>1 DEF PoolInv, PoolTypes
<1>6. InOrder(pending') /\ Gapless(ledger', pending')
  BY <1>2
<1>7. GoneIsSettled'
  <2>1. GoneIsSettled
    BY DEF PoolInv
  <2> QED BY <1>4, <2>1 DEF GoneIsSettled, Idle
<1>8. PlanIsFresh'
  <2>1. PlanIsFresh
    BY DEF PoolInv
  <2>2. Range(pending) \subseteq Range(pending')
    BY <1>3
  <2> QED BY <1>4, <2>1, <2>2 DEF PlanIsFresh
<1>9. PoolSettled'
  <2>1. PoolSettled
    BY DEF PoolInv
  <2>2. ASSUME \A h \in Handlers : task'[h].doing # "prune"
        PROVE  \A h \in Handlers : task[h].doing # "prune"
    BY <2>2
  <2> QED BY <1>2, <1>3, <1>4, <2>1, <2>2 DEF PoolSettled
<1>10. NothingLost
  BY <1>3 DEF NothingLost
<1> QED BY <1>5, <1>6, <1>7, <1>8, <1>9, <1>10 DEF PoolInv

LEMMA SubmitKeeps ==
    ASSUME PoolInv, NEW t \in Txs, Submit(t)
    PROVE  PoolInv' /\ NothingLost
<1>1. t \in Pooled /\ ApplyVerified(TryAll(ledger, pending), t).ok
  BY DEF Submit, Applicable, Projected, Pooled
<1>2. pending' = Append(pending, t) /\ UNCHANGED <<ledger, plan>> /\ task' = task
  BY DEF Submit
<1>3. task' \in [Handlers -> TaskStates]
  BY <1>2 DEF PoolInv, PoolTypes
<1> QED BY <1>1, <1>2, <1>3, PushKeeps

LEMMA IssueKeeps ==
    ASSUME PoolInv, NEW a \in Anchors, IssueAnchor(a)
    PROVE  PoolInv' /\ NothingLost
<1>1. a \in Pooled
  BY DEF Pooled
<1>2. pending' = Append(pending, a) /\ UNCHANGED <<ledger, plan>> /\ task' = task
  BY DEF IssueAnchor
<1>3. task' \in [Handlers -> TaskStates]
  BY <1>2 DEF PoolInv, PoolTypes
<1> QED BY <1>1, <1>2, <1>3, PushKeeps

\* Steps that touch neither the chain nor the pool nor a plan.
LEMMA HandlerKeeps ==
    ASSUME PoolInv, UNCHANGED <<ledger, pending, plan>>,
           task' \in [Handlers -> TaskStates],
           \A h \in Handlers : task'[h] = task[h]
                               \/ (task[h].doing # "prune" /\ task'[h].doing # "prune")
    PROVE  PoolInv' /\ NothingLost
<1>1. \A x : Settled(x)' <=> Settled(x)
  BY DEF Settled
<1>2. GoneIsSettled'
  BY <1>1 DEF PoolInv, GoneIsSettled
<1>3. PlanIsFresh'
  BY <1>1 DEF PoolInv, PlanIsFresh
<1>4. PoolSettled'
  BY <1>1 DEF PoolInv, PoolSettled
<1>5. PoolTypes'
  BY DEF PoolInv, PoolTypes
<1>6. InOrder(pending') /\ Gapless(ledger', pending')
  BY DEF PoolInv
<1>7. NothingLost
  BY DEF NothingLost
<1> QED BY <1>2, <1>3, <1>4, <1>5, <1>6, <1>7 DEF PoolInv

LEMMA ReceiveTransactionKeeps ==
    ASSUME PoolInv, NEW h \in Handlers, NEW t \in Txs, ReceiveTransaction(h, t)
    PROVE  PoolInv' /\ NothingLost
<1>1. /\ task[h] = Idle /\ task' = [task EXCEPT ![h] = [doing |-> "admit", tx |-> t]]
      /\ UNCHANGED <<ledger, pending, plan>>
  BY DEF ReceiveTransaction
<1>2. task \in [Handlers -> TaskStates] /\ [doing |-> "admit", tx |-> t] \in TaskStates
  BY DEF PoolInv, PoolTypes, TaskStates
<1>3. task' \in [Handlers -> TaskStates]
  BY <1>1, <1>2
<1>4. \A k \in Handlers : task'[k] = task[k]
                          \/ (task[k].doing # "prune" /\ task'[k].doing # "prune")
  BY <1>1, <1>2 DEF Idle
<1> QED BY <1>1, <1>3, <1>4, HandlerKeeps

LEMMA AdmitKeeps ==
    ASSUME PoolInv, NEW h \in Handlers, Admit(h)
    PROVE  PoolInv' /\ NothingLost
<1>1. /\ task[h].doing = "admit" /\ task' = [task EXCEPT ![h] = Idle]
      /\ pending' = IF Applicable(task[h].tx) THEN Append(pending, task[h].tx) ELSE pending
      /\ UNCHANGED <<ledger, plan>>
  BY DEF Admit
<1>2. task \in [Handlers -> TaskStates] /\ Idle \in TaskStates
  BY DEF PoolInv, PoolTypes, TaskStates, Idle
<1>3. task' \in [Handlers -> TaskStates] /\ task[h].tx \in Txs
  <2>1. task[h] \in TaskStates
    BY <1>2
  <2>2. task[h].tx \in Txs
    BY <1>1, <2>1 DEF TaskStates
  <2> QED BY <1>1, <1>2, <2>2
<1>4. \A k \in Handlers : task'[k] = task[k] \/ (task[k].doing # "prune" /\ task'[k] = Idle)
  BY <1>1, <1>2
<1>5. CASE Applicable(task[h].tx)
  <2>1. PICK t \in Txs : t = task[h].tx
    BY <1>3
  <2>2. t \in Pooled /\ ApplyVerified(TryAll(ledger, pending), t).ok /\ pending' = Append(pending, t)
    BY <1>1, <1>5, <2>1 DEF Applicable, Projected, Pooled
  <2> QED BY <1>1, <1>3, <1>4, <2>2, PushKeeps
<1>6. CASE ~Applicable(task[h].tx)
  <2>1. pending' = pending
    BY <1>1, <1>6
  <2>2. Idle.doing # "prune"
    BY DEF Idle
  <2> QED BY <1>1, <1>3, <1>4, <2>1, <2>2, HandlerKeeps
<1> QED BY <1>5, <1>6

LEMMA PlanKeeps ==
    ASSUME PoolInv, Plan
    PROVE  PoolInv' /\ NothingLost
<1>1. /\ plan' = [txs |-> Planned.txs, root |-> EndBlock(Planned.state, Len(Planned.txs)),
                  stale |-> FALSE, mining |-> TRUE]
      /\ UNCHANGED <<ledger, pending, task>>
  BY DEF Plan
<1>2. ledger \in Ledgers /\ pending \in Seq(Pooled)
  BY DEF PoolInv, PoolTypes
<1>3. /\ Planned \in Plans
      /\ \A t \in Range(Planned.txs) :
             t \in Txs \cap Range(pending) /\ t.nonce > ledger.nonces[t.from]
  BY <1>2, PlannedType
<1>4. Planned.txs \in Seq(Pooled) /\ Planned.state \in Ledgers /\ Len(Planned.txs) \in Nat
  BY <1>3 DEF Plans
<1>5. EndBlock(Planned.state, Len(Planned.txs)) \in Ledgers
  BY <1>4, EndBlockType
<1>6. \A x : Settled(x)' <=> Settled(x)
  BY <1>1 DEF Settled
<1>7. PoolTypes'
  BY <1>1, <1>4, <1>5 DEF PoolInv, PoolTypes
<1>8. PlanIsFresh'
  <2>1. ASSUME NEW t \in Range(Planned.txs) PROVE t \in Range(pending) /\ ~Settled(t)
    <3>1. t \in Txs /\ t.nonce > ledger.nonces[t.from]
      BY <1>3
    <3>2. t.nonce \in Nat /\ ledger.nonces[t.from] \in Nat
      BY <1>2, <3>1, MempoolAssumption DEF Ledgers
    <3>3. ~(t.nonce <= ledger.nonces[t.from])
      BY <3>1, <3>2
    <3> QED BY <1>3, <3>1, <3>3, TransferSettled
  <2>2. plan'.txs = Planned.txs
    BY <1>1
  <2> QED BY <1>1, <1>6, <2>1, <2>2 DEF PlanIsFresh
<1>9. GoneIsSettled' /\ PoolSettled'
  BY <1>1, <1>6 DEF PoolInv, GoneIsSettled, PoolSettled
<1>10. InOrder(pending') /\ Gapless(ledger', pending')
  BY <1>1 DEF PoolInv
<1>11. NothingLost
  BY <1>1 DEF NothingLost
<1> QED BY <1>7, <1>8, <1>9, <1>10, <1>11 DEF PoolInv

\* The planned transfers leave the pool with the block that carries them.
LEMMA FinishKeeps ==
    ASSUME PoolInv, FinishMining
    PROVE  PoolInv' /\ NothingLost
<1>1. plan.mining /\ plan' = NoPlan /\ UNCHANGED task
  BY DEF FinishMining
<1>2. ledger \in Ledgers /\ pending \in Seq(Pooled) /\ plan.txs \in Seq(Pooled)
  BY DEF PoolInv, PoolTypes
<1>3. plan' \in [txs : Seq(Pooled), root : Ledgers \cup {<<>>}, stale : BOOLEAN, mining : BOOLEAN]
  BY <1>1 DEF NoPlan
<1>4. PlanIsFresh'
  BY <1>1 DEF PlanIsFresh, NoPlan
<1>5. CASE ~Accepted(plan)
  <2>1. ledger' = ledger /\ pending' = pending
    BY <1>5 DEF FinishMining
  <2>2. \A x : Settled(x)' <=> Settled(x)
    BY <2>1 DEF Settled
  <2>3. GoneIsSettled' /\ PoolSettled'
    BY <1>1, <2>1, <2>2 DEF PoolInv, GoneIsSettled, PoolSettled
  <2>4. PoolTypes' /\ InOrder(pending') /\ Gapless(ledger', pending')
    BY <1>1, <1>3, <2>1 DEF PoolInv, PoolTypes
  <2>5. NothingLost
    BY <2>1 DEF NothingLost
  <2> QED BY <1>4, <2>3, <2>4, <2>5 DEF PoolInv
<1>6. CASE Accepted(plan)
  <2>1. /\ ~plan.stale /\ Executes(ledger, plan.txs)
        /\ ledger' = Executed(ledger, plan.txs)
        /\ pending' = Without(pending, Named(Range(plan.txs)))
    BY <1>6 DEF FinishMining, Accepted
  <2>2. /\ ledger' \in Ledgers
        /\ \A u \in Users : ledger'.nonces[u] >= ledger.nonces[u]
        /\ \A t \in Range(plan.txs) : t \in Txs /\ t.nonce <= ledger'.nonces[t.from]
        /\ \A u \in Users, k \in Nat : ledger.nonces[u] < k /\ k <= ledger'.nonces[u] =>
               \E t \in Range(plan.txs) : t \in Txs /\ t.from = u /\ t.nonce = k
    BY <1>2, <2>1, BlockSettles
  <2> DEFINE gone == Named(Range(plan.txs))
  <2>10. /\ Range(plan.txs) \subseteq gone
         /\ \A t \in gone : Unmistaken(t) => t \in Range(plan.txs)
    <3>1. Range(plan.txs) \in SUBSET Pooled
      BY <1>2 DEF Range
    <3> QED BY <3>1, NamedHolds, NamedIsMeant
  <2> HIDE DEF gone
  <2>3. /\ pending' \in Seq(Pooled)
        /\ InOrder(pending') /\ Gapless(ledger', pending')
        /\ Range(pending') = Range(pending) \ gone
    <3>1. \A t \in TransfersIn(pending) \cap gone : t.nonce <= ledger'.nonces[t.from]
      BY <2>2, <2>10, SureSenders DEF TransfersIn
    <3>2. pending' = Without(pending, gone)
      BY <2>1 DEF gone
    <3> QED BY <1>2, <2>2, <3>1, <3>2, RemovalLeavesNoGap DEF PoolInv
  <2>4. \A t \in Txs : Settled(t)' <=> t.nonce <= ledger'.nonces[t.from]
    BY MempoolAssumption DEF Settled, InScope
  <2>5. \A t \in Txs : Settled(t) => Settled(t)'
    <3>1. ASSUME NEW t \in Txs, Settled(t) PROVE t.nonce <= ledger'.nonces[t.from]
      <4>1. t.from \in Users /\ t.nonce \in Nat
        BY MempoolAssumption
      <4>2. ledger'.nonces[t.from] \in Nat /\ ledger.nonces[t.from] \in Nat
        BY <1>2, <2>2, <4>1 DEF Ledgers
      <4>3. t.nonce <= ledger.nonces[t.from]
        BY <3>1, TransferSettled
      <4> QED BY <2>2, <4>1, <4>2, <4>3
    <3> QED BY <2>4, <3>1
  <2>6. PoolTypes'
    BY <1>1, <1>3, <2>2, <2>3 DEF PoolInv, PoolTypes
  <2>7. GoneIsSettled'
    <3>1. ASSUME NEW h \in Handlers, task[h].doing = "prune" PROVE task[h].gone \subseteq Txs
      <4>1. task[h] \in TaskStates
        BY DEF PoolInv, PoolTypes
      <4> QED BY <3>1, <4>1 DEF TaskStates
    <3>2. GoneIsSettled
      BY DEF PoolInv
    <3> QED BY <1>1, <2>5, <3>1, <3>2 DEF GoneIsSettled
  <2>8. PoolSettled'
    <3>1. SUFFICES ASSUME \A h \in Handlers : task[h].doing # "prune",
                          NEW t \in Range(pending') \cap Sure, Settled(t)'
                   PROVE  FALSE
      BY <1>1 DEF PoolSettled
    <3>2. t \in Range(pending) /\ t \notin Range(plan.txs)
      BY <2>3, <2>10, <3>1
    <3>3. ~Settled(t)
      BY <3>1, <3>2 DEF PoolInv, PoolSettled
    <3>4. t \in Txs
      BY <3>1, SureSenders
    <3>5. t.from \in Users /\ t.nonce \in Nat
      BY <3>4, MempoolAssumption
    <3>6. ledger.nonces[t.from] \in Nat
      BY <1>2, <3>5 DEF Ledgers
    <3>7. ledger.nonces[t.from] < t.nonce /\ t.nonce <= ledger'.nonces[t.from]
      <4>1. ~(t.nonce <= ledger.nonces[t.from])
        BY <3>3, <3>4, TransferSettled
      <4>2. t.nonce <= ledger'.nonces[t.from]
        BY <2>4, <3>1, <3>4
      <4> QED BY <3>5, <3>6, <4>1, <4>2
    <3>8. PICK s \in Range(plan.txs) : s \in Txs /\ s.from = t.from /\ s.nonce = t.nonce
      BY <2>2, <3>5, <3>7
    <3>9. s \in Range(pending) /\ s \in Sure
      <4>1. s \in Sure
        BY <3>1, <3>8, SureSenders
      <4> QED BY <1>1, <2>1, <4>1 DEF PoolInv, PlanIsFresh
    <3>10. s # t
      BY <3>2
    <3>11. PICK i \in 1 .. Len(pending), j \in 1 .. Len(pending) : pending[i] = s /\ pending[j] = t
      BY <1>2, <3>2, <3>9 DEF Range
    <3>12. i < j \/ j < i
      BY <3>10, <3>11
    <3>13. s.nonce < t.nonce \/ t.nonce < s.nonce
      <4>1. InOrder(pending)
        BY DEF PoolInv
      <4> QED BY <3>1, <3>8, <3>9, <3>11, <3>12, <4>1 DEF InOrder
    <3> QED BY <3>5, <3>8, <3>13
  <2>9. NothingLost
    BY <2>2, <2>3, <2>4, <2>10 DEF NothingLost
  <2> QED BY <1>4, <2>3, <2>6, <2>7, <2>8, <2>9 DEF PoolInv
<1> QED BY <1>5, <1>6

\* A peer's block: the pool keeps what it settled until the handler prunes.
LEMMA ReceiveBlockKeeps ==
    ASSUME PoolInv, NEW h \in Handlers, NEW txs \in PeerBlocks, ReceiveBlock(h, txs)
    PROVE  PoolInv' /\ NothingLost
<1>1. /\ task[h] = Idle /\ Executes(ledger, txs) /\ ledger' = Executed(ledger, txs)
      /\ plan' = [plan EXCEPT !.stale = plan.mining]
      /\ task' = [task EXCEPT ![h] = [doing |-> "prune", gone |-> Range(txs)]]
      /\ pending' = pending
  BY DEF ReceiveBlock
<1>2. ledger \in Ledgers /\ pending \in Seq(Pooled) /\ task \in [Handlers -> TaskStates]
  BY DEF PoolInv, PoolTypes
<1>3. txs \in Seq(Pooled)
  <2>1. PICK n \in 0 .. PeerBlockTxs : txs \in [1 .. n -> Txs]
    BY DEF PeerBlocks
  <2>2. n \in Nat
    BY MempoolAssumption
  <2>3. txs \in Seq(Txs)
    BY <2>1, <2>2
  <2> QED BY <2>3 DEF Pooled
<1>4. /\ ledger' \in Ledgers
      /\ \A u \in Users : ledger'.nonces[u] >= ledger.nonces[u]
      /\ \A t \in Range(txs) : t \in Txs /\ t.nonce <= ledger'.nonces[t.from]
  BY <1>1, <1>2, <1>3, BlockSettles
<1>5. \A t \in Txs : Settled(t)' <=> t.nonce <= ledger'.nonces[t.from]
  BY MempoolAssumption DEF Settled, InScope
<1>6. \A t \in Txs : Settled(t) => Settled(t)'
  <2>1. ASSUME NEW t \in Txs, Settled(t) PROVE t.nonce <= ledger'.nonces[t.from]
    <3>1. t.from \in Users /\ t.nonce \in Nat
      BY MempoolAssumption
    <3>2. ledger'.nonces[t.from] \in Nat /\ ledger.nonces[t.from] \in Nat
      BY <1>2, <1>4, <3>1 DEF Ledgers
    <3>3. t.nonce <= ledger.nonces[t.from]
      BY <2>1, TransferSettled
    <3> QED BY <1>4, <3>1, <3>2, <3>3
  <2> QED BY <1>5, <2>1
<1>7. Range(txs) \subseteq Txs
  BY <1>4
<1>8. PoolTypes'
  <2>1. [doing |-> "prune", gone |-> Range(txs)] \in TaskStates
    BY <1>7 DEF TaskStates
  <2>2. task' \in [Handlers -> TaskStates]
    BY <1>1, <1>2, <2>1
  <2>3. plan' \in [txs : Seq(Pooled), root : Ledgers \cup {<<>>}, stale : BOOLEAN, mining : BOOLEAN]
    BY <1>1 DEF PoolInv, PoolTypes
  <2> QED BY <1>1, <1>2, <1>4, <2>2, <2>3 DEF PoolTypes
<1>9. InOrder(pending') /\ Gapless(ledger', pending')
  <2>1. InOrder(pending) /\ Gapless(ledger, pending)
    BY DEF PoolInv
  <2>2. ASSUME NEW t \in TransfersIn(pending), t.nonce <= ledger.nonces[t.from] + 1
        PROVE  t.nonce <= ledger'.nonces[t.from] + 1
    <3>1. t.from \in Users /\ t.nonce \in Nat
      BY SureSenders, MempoolAssumption DEF TransfersIn
    <3>2. ledger'.nonces[t.from] \in Nat /\ ledger.nonces[t.from] \in Nat
      BY <1>2, <1>4, <3>1 DEF Ledgers
    <3> QED BY <1>4, <2>2, <3>1, <3>2
  <2> QED BY <1>1, <2>1, <2>2 DEF Gapless
<1>10. GoneIsSettled'
  <2>1. ASSUME NEW k \in Handlers, task'[k].doing = "prune", NEW t \in task'[k].gone
        PROVE  Settled(t)'
    <3>1. CASE k = h
      <4>1. task'[k].gone = Range(txs)
        BY <1>1, <1>2, <3>1
      <4> QED BY <1>4, <1>5, <2>1, <4>1
    <3>2. CASE k # h
      <4>1. task'[k] = task[k]
        BY <1>1, <1>2, <3>2
      <4>2. task[k] \in TaskStates /\ task[k].doing = "prune" /\ t \in task[k].gone
        BY <1>2, <2>1, <4>1
      <4>3. t \in Txs
        BY <4>2 DEF TaskStates
      <4>4. Settled(t)
        BY <4>2 DEF PoolInv, GoneIsSettled
      <4> QED BY <1>6, <4>3, <4>4
    <3> QED BY <3>1, <3>2
  <2> QED BY <2>1 DEF GoneIsSettled
<1>11. PlanIsFresh'
  <2>1. plan'.mining = plan.mining /\ plan'.stale = plan.mining
    BY <1>1 DEF PoolInv, PoolTypes
  <2> QED BY <2>1 DEF PlanIsFresh
<1>12. PoolSettled'
  <2>1. task'[h].doing = "prune"
    BY <1>1, <1>2
  <2> QED BY <2>1 DEF PoolSettled
<1>13. NothingLost
  BY <1>1 DEF NothingLost
<1> QED BY <1>8, <1>9, <1>10, <1>11, <1>12, <1>13 DEF PoolInv

\* Pruning takes out the settled, whoever pruned before.
LEMMA PruneKeeps ==
    ASSUME PoolInv, NEW h \in Handlers, Prune(h)
    PROVE  PoolInv' /\ NothingLost
<1> DEFINE gone == Named(task[h].gone) \cup {t \in Range(pending) : Settled(t)}
<1>1. /\ task[h].doing = "prune" /\ task' = [task EXCEPT ![h] = Idle]
      /\ pending' = Without(pending, gone) /\ ledger' = ledger /\ plan' = plan
  BY DEF Prune
<1>2. ledger \in Ledgers /\ pending \in Seq(Pooled) /\ task \in [Handlers -> TaskStates]
  BY DEF PoolInv, PoolTypes
<1>3. task[h].gone \subseteq Txs
  <2>1. task[h] \in TaskStates
    BY <1>2
  <2> QED BY <1>1, <2>1 DEF TaskStates
<1>4. \A t \in gone : Unmistaken(t) => Settled(t)
  <2>1. task[h].gone \in SUBSET Pooled
    BY <1>3 DEF Pooled
  <2>2. \A t \in task[h].gone : Settled(t)
    BY <1>1 DEF PoolInv, GoneIsSettled
  <2>3. \A t \in Named(task[h].gone) : Unmistaken(t) => t \in task[h].gone
    BY <2>1, NamedIsMeant
  <2> QED BY <2>2, <2>3
<1>5. \A t \in TransfersIn(pending) \cap gone : t.nonce <= ledger.nonces[t.from]
  BY <1>4, SureSenders, TransferSettled DEF TransfersIn
<1>6. \A u \in Users : ledger.nonces[u] >= ledger.nonces[u]
  BY <1>2 DEF Ledgers
<1> HIDE DEF gone
<1>7. /\ pending' \in Seq(Pooled) /\ InOrder(pending') /\ Gapless(ledger, pending')
      /\ Range(pending') = Range(pending) \ gone
  BY <1>1, <1>2, <1>5, <1>6, RemovalLeavesNoGap DEF PoolInv
<1>8. \A x : Settled(x)' <=> Settled(x)
  BY <1>1 DEF Settled
<1>9. PoolTypes'
  <2>1. Idle \in TaskStates
    BY DEF Idle, TaskStates
  <2>2. task' \in [Handlers -> TaskStates]
    BY <1>1, <1>2, <2>1
  <2> QED BY <1>1, <1>7, <2>2 DEF PoolInv, PoolTypes
<1>10. GoneIsSettled'
  <2>1. \A k \in Handlers : task'[k].doing = "prune" => task'[k] = task[k]
    BY <1>1, <1>2 DEF Idle
  <2> QED BY <1>8, <2>1 DEF PoolInv, GoneIsSettled
<1>11. PlanIsFresh'
  <2>1. \A t \in TransfersIn(pending) : ~Settled(t) => t \in Range(pending')
    BY <1>4, <1>7, SureSenders DEF TransfersIn
  <2>2. PlanIsFresh
    BY DEF PoolInv
  <2> QED BY <1>1, <1>8, <2>1, <2>2 DEF PlanIsFresh, TransfersIn
<1>12. PoolSettled'
  <2>1. \A t \in Range(pending') : ~Settled(t)
    BY <1>7 DEF gone
  <2> QED BY <1>8, <2>1 DEF PoolSettled
<1>13. NothingLost
  BY <1>4, <1>7, <1>8 DEF NothingLost
<1>14. InOrder(pending') /\ Gapless(ledger', pending')
  BY <1>1, <1>7
<1> QED BY <1>9, <1>10, <1>11, <1>12, <1>13, <1>14 DEF PoolInv

LEMMA PoolNext == PoolInv /\ [Next]_vars => PoolInv' /\ NothingLost
<1> SUFFICES ASSUME PoolInv, [Next]_vars PROVE PoolInv' /\ NothingLost
  OBVIOUS
<1>1. ASSUME NEW t \in Txs, Submit(t) PROVE PoolInv' /\ NothingLost
  BY <1>1, SubmitKeeps
<1>2. ASSUME NEW a \in Anchors, IssueAnchor(a) PROVE PoolInv' /\ NothingLost
  BY <1>2, IssueKeeps
<1>3. ASSUME NEW h \in Handlers, NEW t \in Txs, ReceiveTransaction(h, t)
      PROVE  PoolInv' /\ NothingLost
  BY <1>3, ReceiveTransactionKeeps
<1>4. ASSUME NEW h \in Handlers, Admit(h) PROVE PoolInv' /\ NothingLost
  BY <1>4, AdmitKeeps
<1>5. CASE Plan
  BY <1>5, PlanKeeps
<1>6. CASE FinishMining
  BY <1>6, FinishKeeps
<1>7. ASSUME NEW h \in Handlers, NEW txs \in PeerBlocks, ReceiveBlock(h, txs)
      PROVE  PoolInv' /\ NothingLost
  BY <1>7, ReceiveBlockKeeps
<1>8. ASSUME NEW h \in Handlers, Prune(h) PROVE PoolInv' /\ NothingLost
  BY <1>8, PruneKeeps
<1>9. CASE UNCHANGED vars
  <2>1. UNCHANGED <<ledger, pending, plan>> /\ task' = task
    BY <1>9 DEF vars
  <2>2. task' \in [Handlers -> TaskStates]
    BY <2>1 DEF PoolInv, PoolTypes
  <2> QED BY <2>1, <2>2, HandlerKeeps
<1> QED BY <1>1, <1>2, <1>3, <1>4, <1>5, <1>6, <1>7, <1>8, <1>9 DEF Next

LEMMA PoolInvAlways == Spec => []PoolInv
<1>1. PoolInv /\ [Next]_vars => PoolInv'
  BY PoolNext
<1> QED BY PoolInit, <1>1, PTL DEF Spec

-----------------------------------------------------------------------------
(* Theorems                                                                *)

\* queue_transaction and the gossip handler admit against the projected state,
\* under both locks: whatever raced in between, no two pooled transfers of a
\* sender whose ids are its own carry the same nonce.
THEOREM NoncesAreQueuedOnce == Spec => []NoNonceConflict
<1>1. PoolInv => NoNonceConflict
  <2> SUFFICES ASSUME PoolInv,
                      NEW i \in {k \in 1 .. Len(pending) : pending[k] \in Sure},
                      NEW j \in {k \in 1 .. Len(pending) : pending[k] \in Sure},
                      pending[i].from = pending[j].from, pending[i].nonce = pending[j].nonce
               PROVE  i = j
    BY DEF NoNonceConflict
  <2>1. pending[i].nonce \in Nat /\ pending[j].nonce \in Nat
    BY SureSenders, MempoolAssumption
  <2>2. ~(i < j) /\ ~(j < i)
    BY <2>1 DEF PoolInv, InOrder
  <2> QED BY <2>2
<1> QED BY PoolInvAlways, <1>1, PTL

\* mine_block's retain and prune_pending together leave nothing settled behind:
\* all that a block settles is either in the block or pruned by its handler, for
\* the senders whose ids are their own.
THEOREM PoolIsPruned == Spec => []PoolSettled
<1>1. PoolInv => PoolSettled
  BY DEF PoolInv
<1> QED BY PoolInvAlways, <1>1, PTL

\* A stale or refused plan, a late prune, a second handler's prune: none of them
\* takes a transaction out of the pool before the chain has consumed its nonce,
\* but the block of another one with the same id, which is how they are told apart.
THEOREM PoolForgetsNothing == Spec => NothingForgotten
<1>1. PoolInv /\ [Next]_vars =>
        [\A t \in Range(pending) \ Range(pending') : Unmistaken(t) => Settled(t)']_vars
  BY PoolNext DEF NothingLost
<1> QED BY PoolInvAlways, <1>1, PTL DEF Spec, NothingForgotten

\* plan_block and validate_block_at execute alike: only a pooled transfer that
\* fails after it consumed its nonce can make the node refuse its own block.
THEOREM PlansAreValid == Spec => OnlySpoiltPoolsFail
<1>1. ASSUME PoolInv, [Next]_vars, plan'.mining, ~plan.mining, ~PoolIsSpoilt
      PROVE  Accepted(plan')
  <2>1. Plan
    <3>1. CASE FinishMining
      BY <1>1, <3>1 DEF FinishMining, NoPlan
    <3>2. ASSUME NEW h \in Handlers, NEW txs \in PeerBlocks, ReceiveBlock(h, txs)
          PROVE  FALSE
      <4>1. plan' = [plan EXCEPT !.stale = plan.mining]
        BY <3>2 DEF ReceiveBlock
      <4>2. plan'.mining = plan.mining
        BY <1>1, <4>1 DEF PoolInv, PoolTypes
      <4> QED BY <1>1, <4>2
    <3>3. plan' # plan
      BY <1>1
    <3> QED BY <1>1, <3>1, <3>2, <3>3
            DEF Next, vars, Submit, IssueAnchor, ReceiveTransaction, Admit, Prune
  <2>2. ledger \in Ledgers /\ pending \in Seq(Pooled)
    BY <1>1 DEF PoolInv, PoolTypes
  <2>3. Executes(ledger, Planned.txs) /\ Planned.state = TryAll(ledger, Planned.txs)
    BY <1>1, <2>2, UnspoiltPlan
  <2>4. plan' = [txs |-> Planned.txs, root |-> EndBlock(Planned.state, Len(Planned.txs)),
                 stale |-> FALSE, mining |-> TRUE]
    BY <2>1 DEF Plan
  <2>5. /\ plan'.txs = Planned.txs /\ ~plan'.stale
        /\ plan'.root = EndBlock(Planned.state, Len(Planned.txs))
    BY <2>4
  <2> QED BY <2>3, <2>5 DEF Accepted, Executed
<1>2. PoolInv /\ [Next]_vars
          => [plan'.mining /\ ~plan.mining /\ ~PoolIsSpoilt => Accepted(plan')]_vars
  BY <1>1
<1> QED BY PoolInvAlways, <1>2, PTL DEF Spec, OnlySpoiltPoolsFail
=============================================================================
