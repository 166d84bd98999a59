---------------------------- MODULE DataTheorems ---------------------------
(***************************************************************************)
(* Facts about the data that several components are built from.            *)
(*                                                                         *)
(* Totals (module Coins) stand in for induction over the holders: a total  *)
(* is a cardinality, so each fact is a fact about finite sets of coins.    *)
(* Loops over lists (module SeqFolds) are unfolded one step at a time, and *)
(* sets of lists stand in for the formulas of an induction over them.      *)
(***************************************************************************)
EXTENDS Coins, SeqFolds, FiniteSetTheorems, TLAPS

-----------------------------------------------------------------------------
(* Totals                                                                  *)

\* A coin of f is a holder together with a number up to the holder's amount.
LEMMA CoinsMember ==
    ASSUME NEW S, NEW f \in [S -> Nat], NEW c
    PROVE  c \in CoinsOf(f) <=> \E a \in S : \E k \in 1 .. f[a] : c = <<a, k>>
BY DEF CoinsOf

\* Finitely many holders own finitely many coins, so a total is a natural.
LEMMA TotalType ==
    ASSUME NEW S, IsFiniteSet(S), NEW f \in [S -> Nat]
    PROVE  IsFiniteSet(CoinsOf(f)) /\ Total(f) \in Nat
<1> DEFINE Piles == {{a} \X (1 .. f[a]) : a \in S}
<1>1. IsFiniteSet(Piles)
  <2> DEFINE p == [a \in S |-> {a} \X (1 .. f[a])]
  <2>1. p \in Surjection(S, Piles)
    BY DEF Surjection
  <2> QED BY <2>1, FS_Surjection
<1>2. ASSUME NEW T \in Piles PROVE IsFiniteSet(T)
  <2>1. PICK a \in S : T = {a} \X (1 .. f[a])
    OBVIOUS
  <2>2. IsFiniteSet({a})
    BY FS_Singleton
  <2>3. IsFiniteSet(1 .. f[a])
    <3>1. 1 \in Int /\ f[a] \in Int
      OBVIOUS
    <3> QED BY <3>1, FS_Interval
  <2> QED BY <2>1, <2>2, <2>3, FS_Product
<1>3. CoinsOf(f) = UNION Piles
  BY DEF CoinsOf
<1>4. IsFiniteSet(CoinsOf(f))
  BY <1>1, <1>2, <1>3, FS_UNION
<1> QED BY <1>4, FS_CardinalityType DEF Total

\* Totals add: the coins of f + g are the coins of f and, shifted above them,
\* the coins of g.
LEMMA TotalPlus ==
    ASSUME NEW S, IsFiniteSet(S),
           NEW f \in [S -> Nat], NEW g \in [S -> Nat], NEW h \in [S -> Nat],
           \A a \in S : h[a] = f[a] + g[a]
    PROVE  Total(h) = Total(f) + Total(g)
<1> DEFINE Upper == CoinsOf(h) \ CoinsOf(f)
           shift == [c \in CoinsOf(g) |-> <<c[1], c[2] + f[c[1]]>>]
<1>1. CoinsOf(f) \subseteq CoinsOf(h)
  BY CoinsMember
<1>2. IsFiniteSet(CoinsOf(f)) /\ IsFiniteSet(CoinsOf(g)) /\ IsFiniteSet(CoinsOf(h))
  BY TotalType
<1>3. Cardinality(Upper) = Total(h) - Total(f)
  <2>1. CoinsOf(h) \cap CoinsOf(f) = CoinsOf(f)
    BY <1>1
  <2>2. Cardinality(Upper) = Cardinality(CoinsOf(h)) - Cardinality(CoinsOf(h) \cap CoinsOf(f))
    BY <1>2, FS_Difference
  <2> QED BY <2>1, <2>2 DEF Total
<1>4. shift \in Bijection(CoinsOf(g), Upper)
  <2>1. ASSUME NEW a \in S, NEW k \in Int
        PROVE  <<a, k + f[a]>> \in Upper <=> <<a, k>> \in CoinsOf(g)
    <3>1. <<a, k + f[a]>> \in CoinsOf(h) <=> k + f[a] \in 1 .. h[a]
      BY CoinsMember
    <3>2. <<a, k + f[a]>> \in CoinsOf(f) <=> k + f[a] \in 1 .. f[a]
      BY CoinsMember
    <3>3. <<a, k>> \in CoinsOf(g) <=> k \in 1 .. g[a]
      BY CoinsMember
    <3> QED BY <3>1, <3>2, <3>3
  <2>2. ASSUME NEW c \in CoinsOf(g)
        PROVE  shift[c] \in Upper
    <3>1. PICK a \in S, k \in Int : k \in 1 .. g[a] /\ c = <<a, k>>
      BY CoinsMember
    <3> QED BY <2>1, <3>1
  <2>3. ASSUME NEW c \in CoinsOf(g), NEW d \in CoinsOf(g), shift[c] = shift[d]
        PROVE  c = d
    <3>1. PICK a \in S, k \in Int : k \in 1 .. g[a] /\ c = <<a, k>>
      BY CoinsMember
    <3>2. PICK b \in S, l \in Int : l \in 1 .. g[b] /\ d = <<b, l>>
      BY CoinsMember
    <3>3. shift[c] = <<a, k + f[a]>> /\ shift[d] = <<b, l + f[b]>>
      BY <3>1, <3>2
    <3> QED BY <2>3, <3>1, <3>2, <3>3
  <2>4. ASSUME NEW t \in Upper
        PROVE  \E c \in CoinsOf(g) : shift[c] = t
    <3>1. PICK a \in S, k \in Int : k \in 1 .. h[a] /\ t = <<a, k>>
      BY CoinsMember
    <3>2. k = (k - f[a]) + f[a] /\ k - f[a] \in Int
      OBVIOUS
    <3>3. <<a, k - f[a]>> \in CoinsOf(g)
      BY <2>1, <3>1, <3>2
    <3> QED BY <3>1, <3>2, <3>3
  <2> QED BY <2>2, <2>3, <2>4 DEF Bijection, Injection, Surjection, IsInjective
<1>5. Cardinality(Upper) = Total(g)
  BY <1>2, <1>4, FS_Bijection DEF ExistsBijection, Total
<1>6. Total(f) \in Nat /\ Total(g) \in Nat /\ Total(h) \in Nat
  BY TotalType
<1> QED BY <1>3, <1>5, <1>6

\* Everybody has in h what f and g give together.
Adds(S, f, g, h) ==
    /\ f \in [S -> Nat] /\ g \in [S -> Nat] /\ h \in [S -> Nat]
    /\ \A a \in S : h[a] = f[a] + g[a]

\* TotalPlus in the form in which it is cited.
LEMMA TotalAdds ==
    ASSUME NEW S, IsFiniteSet(S), NEW f, NEW g, NEW h, Adds(S, f, g, h)
    PROVE  Total(h) = Total(f) + Total(g)
<1>1. /\ f \in [S -> Nat] /\ g \in [S -> Nat] /\ h \in [S -> Nat]
      /\ \A a \in S : h[a] = f[a] + g[a]
  BY DEF Adds
<1> QED BY <1>1, TotalPlus

\* Nobody holds anything.
LEMMA TotalZero ==
    ASSUME NEW S, NEW f \in [S -> Nat], \A a \in S : f[a] = 0
    PROVE  Total(f) = 0
<1>1. CoinsOf(f) = {}
  BY CoinsMember
<1> QED BY <1>1, FS_EmptySet DEF Total

\* Only one holder has anything.
LEMMA TotalSingle ==
    ASSUME NEW S, NEW b \in S, NEW f \in [S -> Nat], \A a \in S \ {b} : f[a] = 0
    PROVE  Total(f) = f[b]
<1>1. CoinsOf(f) = {b} \X (1 .. f[b])
  BY CoinsMember
<1>2. IsFiniteSet({b}) /\ Cardinality({b}) = 1
  BY FS_Singleton
<1>3. IsFiniteSet(1 .. f[b]) /\ Cardinality(1 .. f[b]) = f[b]
  <2>1. 1 \in Int /\ f[b] \in Nat
    OBVIOUS
  <2> QED BY <2>1, FS_Interval
<1>4. Cardinality({b} \X (1 .. f[b])) = Cardinality({b}) * Cardinality(1 .. f[b])
  <2>1. ASSUME NEW A, NEW B, IsFiniteSet(A), IsFiniteSet(B)
        PROVE  Cardinality(A \X B) = Cardinality(A) * Cardinality(B)
    BY <2>1, FS_Product
  <2> QED BY <1>2, <1>3, <2>1
<1>5. ASSUME NEW n \in Nat PROVE 1 * n = n
  OBVIOUS
<1>6. f[b] \in Nat
  OBVIOUS
<1> QED BY <1>1, <1>2, <1>3, <1>4, <1>5, <1>6 DEF Total

\* One amount changes.
LEMMA TotalUpdate ==
    ASSUME NEW S, IsFiniteSet(S), NEW f \in [S -> Nat], NEW b \in S, NEW v \in Nat
    PROVE  Total([f EXCEPT ![b] = v]) = Total(f) - f[b] + v
<1> DEFINE rest == [a \in S |-> IF a = b THEN 0 ELSE f[a]]
           only(n) == [a \in S |-> IF a = b THEN n ELSE 0]
<1>1. rest \in [S -> Nat] /\ only(f[b]) \in [S -> Nat] /\ only(v) \in [S -> Nat]
  OBVIOUS
<1>2. [f EXCEPT ![b] = v] \in [S -> Nat]
  OBVIOUS
<1>3. Total(only(f[b])) = f[b]
  <2>1. only(f[b])[b] = f[b] /\ \A a \in S \ {b} : only(f[b])[a] = 0
    OBVIOUS
  <2> QED BY <1>1, <2>1, TotalSingle
<1>4. Total(only(v)) = v
  <2>1. only(v)[b] = v /\ \A a \in S \ {b} : only(v)[a] = 0
    OBVIOUS
  <2> QED BY <1>1, <2>1, TotalSingle
<1>5. Total(f) = Total(rest) + Total(only(f[b]))
  <2>1. \A a \in S : f[a] = rest[a] + only(f[b])[a]
    OBVIOUS
  <2> QED BY <1>1, <2>1, TotalPlus
<1>6. Total([f EXCEPT ![b] = v]) = Total(rest) + Total(only(v))
  <2> DEFINE new == [f EXCEPT ![b] = v]
             added == only(v)
  <2>1. \A a \in S : new[a] = rest[a] + added[a]
    OBVIOUS
  <2>2. new \in [S -> Nat] /\ added \in [S -> Nat] /\ rest \in [S -> Nat]
    OBVIOUS
  <2> HIDE DEF rest, only, new, added
  <2>3. Total(new) = Total(rest) + Total(added)
    BY <2>1, <2>2, TotalPlus
  <2> QED BY <2>3 DEF new, added
<1>7. Total(rest) \in Nat
  BY <1>1, TotalType
<1> QED BY <1>3, <1>4, <1>5, <1>6, <1>7

\* The same, for any function that differs from f in one place only.
LEMMA TotalOneChange ==
    ASSUME NEW S, IsFiniteSet(S), NEW f \in [S -> Nat], NEW g \in [S -> Nat],
           NEW b \in S, \A a \in S \ {b} : g[a] = f[a]
    PROVE  Total(g) = Total(f) - f[b] + g[b]
<1>1. g = [f EXCEPT ![b] = g[b]]
  OBVIOUS
<1>2. g[b] \in Nat
  OBVIOUS
<1>3. \A v \in Nat : Total([f EXCEPT ![b] = v]) = Total(f) - f[b] + v
  BY TotalUpdate
<1> QED BY <1>1, <1>2, <1>3

\* Totals subtract where no amount goes below zero.
LEMMA TotalMinus ==
    ASSUME NEW S, IsFiniteSet(S),
           NEW f \in [S -> Nat], NEW g \in [S -> Nat], NEW h \in [S -> Nat],
           \A a \in S : h[a] = f[a] - g[a]
    PROVE  Total(h) = Total(f) - Total(g)
<1>1. \A a \in S : f[a] = g[a] + h[a]
  OBVIOUS
<1>2. Total(f) = Total(g) + Total(h)
  BY <1>1, TotalPlus
<1> QED BY <1>2, TotalType

\* Totals are monotone.
LEMMA TotalMonotone ==
    ASSUME NEW S, IsFiniteSet(S),
           NEW f \in [S -> Nat], NEW g \in [S -> Nat], \A a \in S : f[a] <= g[a]
    PROVE  Total(f) <= Total(g)
<1> DEFINE rest == [a \in S |-> g[a] - f[a]]
<1>1. rest \in [S -> Nat]
  OBVIOUS
<1>2. \A a \in S : g[a] = f[a] + rest[a]
  OBVIOUS
<1>3. Total(g) = Total(f) + Total(rest)
  <2> HIDE DEF rest
  <2> QED BY <1>1, <1>2, TotalPlus
<1>4. Total(f) \in Nat /\ Total(g) \in Nat /\ Total(rest) \in Nat
  <2> HIDE DEF rest
  <2> QED BY <1>1, TotalType
<1> QED BY <1>3, <1>4

\* One holder has no more than everybody together.
LEMMA TotalBound ==
    ASSUME NEW S, IsFiniteSet(S), NEW f \in [S -> Nat], NEW b \in S
    PROVE  f[b] <= Total(f)
<1> DEFINE only == [a \in S |-> IF a = b THEN f[b] ELSE 0]
<1>1. only \in [S -> Nat] /\ only[b] = f[b]
  OBVIOUS
<1>2. \A a \in S \ {b} : only[a] = 0
  OBVIOUS
<1>3. \A a \in S : only[a] <= f[a]
  OBVIOUS
<1> HIDE DEF only
<1>4. Total(only) = f[b]
  BY <1>1, <1>2, TotalSingle
<1> QED BY <1>1, <1>3, <1>4, TotalMonotone

\* A new holder joins.
LEMMA TotalExtend ==
    ASSUME NEW S, IsFiniteSet(S), NEW x, x \notin S,
           NEW f \in [S -> Nat], NEW g \in [S \cup {x} -> Nat],
           \A a \in S : g[a] = f[a]
    PROVE  Total(g) = Total(f) + g[x]
<1> DEFINE all == S \cup {x}
           zeroed == [a \in all |-> IF a = x THEN 0 ELSE f[a]]
<1>1. zeroed \in [all -> Nat] /\ zeroed[x] = 0 /\ \A a \in S : zeroed[a] = f[a]
  OBVIOUS
<1> HIDE DEF zeroed
<1>2. CoinsOf(zeroed) = CoinsOf(f)
  <2>1. ASSUME NEW c \in CoinsOf(zeroed) PROVE c \in CoinsOf(f)
    <3>1. PICK a \in S \cup {x} : \E k \in 1 .. zeroed[a] : c = <<a, k>>
      BY <1>1, CoinsMember
    <3>2. a \in S
      BY <1>1, <3>1
    <3> QED BY <1>1, <3>1, <3>2, CoinsMember
  <2>2. ASSUME NEW c \in CoinsOf(f) PROVE c \in CoinsOf(zeroed)
    <3>1. PICK a \in S : \E k \in 1 .. f[a] : c = <<a, k>>
      BY CoinsMember
    <3>2. a \in S \cup {x} /\ \E k \in 1 .. zeroed[a] : c = <<a, k>>
      BY <1>1, <3>1
    <3> QED BY <1>1, <3>2, CoinsMember
  <2> QED BY <2>1, <2>2
<1>3. IsFiniteSet(all)
  BY FS_AddElement
<1>5. Total(g) = Total(zeroed) - zeroed[x] + g[x]
  <2>1. ASSUME NEW A, A = all
        PROVE  Total(g) = Total(zeroed) - zeroed[x] + g[x]
    <3>1. zeroed \in [A -> Nat] /\ g \in [A -> Nat] /\ x \in A /\ IsFiniteSet(A)
      BY <1>1, <1>3, <2>1
    <3>2. \A a \in A \ {x} : g[a] = zeroed[a]
      BY <1>1, <2>1
    <3> HIDE DEF all
    <3> QED BY <3>1, <3>2, TotalOneChange
  <2> QED BY <2>1
<1>6. Total(zeroed) = Total(f)
  BY <1>2 DEF Total
<1>7. Total(f) \in Nat /\ g[x] \in Nat
  BY TotalType
<1>8. Total(g) = Total(f) - 0 + g[x]
  BY <1>1, <1>5, <1>6
<1> QED BY <1>7, <1>8

\* Every non-empty set of naturals has a least member.
LEMMA LeastMember ==
    ASSUME NEW T \in SUBSET Nat, T # {}
    PROVE  \E m \in T : \A k \in T : m <= k
<1>1. \E m \in T : \A k \in T : ~ (<<k, m>> \in OpToRel(<, Nat))
  BY NatLessThanWellFounded, WFMin
<1>2. \A k, m \in Nat : k < m => <<k, m>> \in OpToRel(<, Nat)
  BY DEF OpToRel
<1>3. \A k, m \in Nat : ~(k < m) => m <= k
  OBVIOUS
<1> HIDE DEF OpToRel
<1> QED BY <1>1, <1>2, <1>3

\* The holder that joins when a prefix grows by one.
LEMMA TotalPrefix ==
    ASSUME NEW N \in Nat, NEW e \in [1 .. N -> Nat], NEW r \in 1 .. N
    PROVE  Total([q \in 1 .. N |-> IF q < r + 1 THEN e[q] ELSE 0]) =
           Total([q \in 1 .. N |-> IF q < r THEN e[q] ELSE 0]) + e[r]
<1>1. IsFiniteSet(1 .. N)
  BY FS_Interval
<1>2. ASSUME NEW D, D = 1 .. N,
             NEW before, before = [q \in 1 .. N |-> IF q < r THEN e[q] ELSE 0],
             NEW after, after = [q \in 1 .. N |-> IF q < r + 1 THEN e[q] ELSE 0]
      PROVE  Total(after) = Total(before) + e[r]
  <2>1. before \in [D -> Nat] /\ after \in [D -> Nat] /\ r \in D /\ IsFiniteSet(D)
    BY <1>1, <1>2
  <2>2. \A q \in D \ {r} : after[q] = before[q]
    BY <1>2
  <2>3. before[r] = 0 /\ after[r] = e[r]
    BY <1>2
  <2>4. Total(after) = Total(before) - before[r] + after[r]
    BY <2>1, <2>2, TotalOneChange
  <2>5. Total(before) \in Nat
    BY <2>1, TotalType
  <2> QED BY <2>3, <2>4, <2>5
<1> QED BY <1>2

\* Draining the oldest entries first takes exactly the amount asked for, or
\* everything: what is left below each entry is the prefix sum less the amount.
LEMMA TotalDrain ==
    ASSUME NEW N \in Nat, NEW f \in [1 .. N -> Nat], NEW amount \in Nat,
           NEW g \in [1 .. N -> Nat],
           \A r \in 1 .. N :
              g[r] = Minus(f[r], Minus(amount,
                        Total([q \in 1 .. N |-> IF q < r THEN f[q] ELSE 0])))
    PROVE  Total(g) = Minus(Total(f), amount)
<1> DEFINE cut(e, r) == [q \in 1 .. N |-> IF q < r THEN e[q] ELSE 0]
           Good(r) == Total(cut(g, r)) = Minus(Total(cut(f, r)), amount)
<1>1. IsFiniteSet(1 .. N)
  BY FS_Interval
<1>2. \A r \in Nat : cut(f, r) \in [1 .. N -> Nat] /\ cut(g, r) \in [1 .. N -> Nat]
  OBVIOUS
<1>3. Good(1)
  <2>1. Total(cut(f, 1)) = 0
    BY <1>2, TotalZero
  <2>2. Total(cut(g, 1)) = 0
    BY <1>2, TotalZero
  <2> QED BY <2>1, <2>2 DEF Minus
<1>4. ASSUME NEW e \in [1 .. N -> Nat], NEW r \in 1 .. N
      PROVE  Total(cut(e, r + 1)) = Total(cut(e, r)) + e[r]
  BY TotalPrefix, Zenon
<1>5. ASSUME NEW r \in 1 .. N, Good(r)
      PROVE  Good(r + 1)
  <2>1. Total(cut(f, r + 1)) = Total(cut(f, r)) + f[r]
    BY <1>4
  <2>2. Total(cut(g, r + 1)) = Total(cut(g, r)) + g[r]
    BY <1>4
  <2>3. g[r] = Minus(f[r], Minus(amount, Total(cut(f, r))))
    OBVIOUS
  <2>4. Total(cut(f, r)) \in Nat
    <3>1. cut(f, r) \in [1 .. N -> Nat]
      OBVIOUS
    <3> HIDE DEF cut
    <3> QED BY <1>1, <3>1, TotalType
  <2> HIDE DEF cut
  <2> QED BY <1>5, <2>1, <2>2, <2>3, <2>4 DEF Minus
<1>6. \A r \in 1 .. N + 1 : Good(r)
  <2> DEFINE Bad == {r \in 1 .. N + 1 : ~Good(r)}
  <2> HIDE DEF Good
  <2>1. SUFFICES ASSUME Bad # {} PROVE FALSE
    OBVIOUS
  <2>2. PICK m \in Bad : \A k \in Bad : m <= k
    <3>1. Bad \in SUBSET Nat
      OBVIOUS
    <3> HIDE DEF Bad
    <3> QED BY <2>1, <3>1, LeastMember
  <2>3. m # 1
    BY <1>3, <2>2
  <2>4. m - 1 \in 1 .. N /\ m - 1 \notin Bad
    BY <2>2, <2>3
  <2>5. Good(m - 1)
    BY <2>4
  <2>6. Good((m - 1) + 1)
    BY <1>5, <2>4, <2>5
  <2>7. (m - 1) + 1 = m
    BY <2>2
  <2> QED BY <2>2, <2>6, <2>7
<1>7. cut(f, N + 1) = f /\ cut(g, N + 1) = g
  OBVIOUS
<1>8. Good(N + 1)
  <2>1. N + 1 \in 1 .. N + 1
    OBVIOUS
  <2> HIDE DEF Good
  <2> QED BY <1>6, <2>1
<1> QED BY <1>7, <1>8

-----------------------------------------------------------------------------
(* Parts of an amount                                                      *)

\* Division rounds down, and a larger numerator gives no smaller quotient.
LEMMA QuotientBounds ==
    ASSUME NEW n \in Nat, NEW d \in Nat \ {0}
    PROVE  /\ n \div d \in Nat
           /\ (n \div d) * d <= n
           /\ n < ((n \div d) + 1) * d
<1> DEFINE q == n \div d
           r == n % d
<1>1. q \in Int /\ r \in Nat /\ n = d * q + r /\ r < d
  OBVIOUS
<1> HIDE DEF q, r
<1>2. q >= 0
  BY <1>1
<1>3. q * d <= n /\ n < (q + 1) * d
  BY <1>1
<1> QED BY <1>1, <1>2, <1>3 DEF q

LEMMA QuotientMonotone ==
    ASSUME NEW m \in Nat, NEW n \in Nat, m <= n, NEW d \in Nat \ {0}
    PROVE  m \div d <= n \div d
<1>1. PICK p \in Nat, q \in Nat :
         /\ p = m \div d /\ p * d <= m
         /\ q = n \div d /\ n < (q + 1) * d
  BY QuotientBounds
<1>2. p * d < (q + 1) * d
  <2>1. p * d \in Nat /\ (q + 1) * d \in Nat
    OBVIOUS
  <2> QED BY <2>1, <1>1
<1>3. p < q + 1
  <2>1. ASSUME q + 1 <= p PROVE (q + 1) * d <= p * d
    BY <2>1
  <2>2. p * d \in Nat /\ (q + 1) * d \in Nat
    OBVIOUS
  <2> QED BY <1>2, <2>1, <2>2
<1> QED BY <1>1, <1>3

\* Products and quotients of natural numbers, as the rule uses them.
LEMMA ScaleRange ==
    ASSUME NEW m \in Nat, NEW d \in Nat, NEW t \in Nat \ {0}
    PROVE  /\ (m * d) \div t \in Nat
           /\ d <= t => (m * d) \div t <= m
<1>1. m * d \in Nat
  OBVIOUS
<1> DEFINE q == (m * d) \div t
           r == (m * d) % t
<1>2. q \in Int /\ r \in Nat /\ m * d = t * q + r /\ r < t
  BY <1>1
<1> HIDE DEF q, r
<1>3. q >= 0
  BY <1>1, <1>2
<1>4. ASSUME d <= t PROVE q <= m
  <2>1. m * d <= t * m
    BY <1>4
  <2>2. t * q <= t * m
    BY <1>1, <1>2, <2>1
  <2> QED BY <1>2, <2>2
<1> QED BY <1>2, <1>3, <1>4 DEF q

-----------------------------------------------------------------------------
(* Loops over lists                                                        *)

\* f gives, for every set of the first k places, what the loop makes of them.
Tabulates(step, first, seq, k, f) ==
    f = [s \in SUBSET (1 .. k) |->
            IF s = {} THEN first ELSE step[seq[Max(s)]][f[s \ {Max(s)}]]]

LEMMA SubrangeMax ==
    ASSUME NEW k \in Nat, NEW s \in SUBSET (0 .. k), s # {}
    PROVE  Max(s) \in s /\ \A y \in s : Max(s) >= y
<1> DEFINE below == {k - x : x \in s}
<1>1. below \in SUBSET Nat /\ below # {}
  <2>1. \A x \in s : x \in 0 .. k /\ k - x \in Nat
    OBVIOUS
  <2>2. below # {}
    <3>1. PICK x \in s : TRUE
      OBVIOUS
    <3>2. k - x \in below
      BY <3>1
    <3> QED BY <3>2
  <2> QED BY <2>1, <2>2
<1>2. PICK b \in below : \A c \in below : b <= c
  <2> HIDE DEF below
  <2> QED BY <1>1, LeastMember
<1>3. PICK x \in s : b = k - x
  BY <1>2
<1>4. ASSUME NEW y \in s PROVE x >= y
  <2>1. k - y \in below /\ x \in 0 .. k /\ y \in 0 .. k
    OBVIOUS
  <2>2. k - x <= k - y
    BY <1>2, <1>3, <2>1
  <2> QED BY <2>1, <2>2
<1>5. \E z \in s : \A y \in s : z >= y
  BY <1>4
<1> QED BY <1>5 DEF Max

LEMMA MaxPrefix ==
    ASSUME NEW k \in Nat, NEW s \in SUBSET (1 .. k + 1), k + 1 \in s
    PROVE  Max(s) = k + 1
<1>1. \A y \in s : k + 1 >= y
  OBVIOUS
<1>2. \A x \in s : (\A y \in s : x >= y) => x = k + 1
  BY <1>1
<1> QED BY <1>1, <1>2 DEF Max

LEMMA FoldExtends ==
    ASSUME NEW step, NEW first, NEW seq, NEW more, NEW k \in Nat, NEW f,
           Tabulates(step, first, seq, k, f), \A i \in 1 .. k : more[i] = seq[i]
    PROVE  \E g : Tabulates(step, first, more, k + 1, g)
<1> DEFINE new(s) == step[more[k + 1]][f[s \ {k + 1}]]
           g == [s \in SUBSET (1 .. k + 1) |-> IF k + 1 \in s THEN new(s) ELSE f[s]]
<1> USE DEF Tabulates
<1>1. ASSUME NEW s \in SUBSET (1 .. k + 1)
      PROVE  g[s] = IF s = {} THEN first ELSE step[more[Max(s)]][g[s \ {Max(s)}]]
  <2>1. CASE k + 1 \in s
    <3>1. Max(s) = k + 1
      BY <2>1, MaxPrefix
    <3>2. s \ {k + 1} \in SUBSET (1 .. k + 1) /\ k + 1 \notin s \ {k + 1}
      OBVIOUS
    <3>3. g[s \ {k + 1}] = f[s \ {k + 1}]
      BY <3>2
    <3>4. g[s] = new(s)
      BY <2>1
    <3> HIDE DEF g
    <3> QED BY <2>1, <3>1, <3>3, <3>4
  <2>2. CASE k + 1 \notin s
    <3>1. s \in SUBSET (1 .. k)
      BY <2>2
    <3>2. g[s] = f[s]
      BY <2>2
    <3>3. f[s] = IF s = {} THEN first ELSE step[seq[Max(s)]][f[s \ {Max(s)}]]
      BY <3>1
    <3>4. CASE s # {}
      <4>1. Max(s) \in 1 .. k
        <5>1. s \in SUBSET (0 .. k)
          BY <3>1
        <5> QED BY <3>1, <3>4, <5>1, SubrangeMax
      <4>2. s \ {Max(s)} \in SUBSET (1 .. k + 1) /\ k + 1 \notin s \ {Max(s)}
        BY <2>2
      <4>3. g[s \ {Max(s)}] = f[s \ {Max(s)}]
        BY <4>2
      <4> HIDE DEF g
      <4> QED BY <3>2, <3>3, <3>4, <4>1, <4>3
    <3> QED BY <3>2, <3>3, <3>4
  <2> QED BY <2>1, <2>2
<1> HIDE DEF g
<1>2. g = [s \in SUBSET (1 .. k + 1) |-> g[s]]
  BY DEF g
<1>3. g = [s \in SUBSET (1 .. k + 1) |->
              IF s = {} THEN first ELSE step[more[Max(s)]][g[s \ {Max(s)}]]]
  BY <1>1, <1>2
<1> QED BY <1>3
\* Every loop has such a table.
LEMMA FoldExists ==
    ASSUME NEW step, NEW first, NEW seq, NEW k \in Nat
    PROVE  \E f : Tabulates(step, first, seq, k, f)
<1> DEFINE Good(m) == \E f : Tabulates(step, first, seq, m, f)
           Bad == {m \in Nat : ~Good(m)}
<1>1. Good(0)
  <2> DEFINE f == [s \in SUBSET (1 .. 0) |-> first]
  <2>1. \A s \in SUBSET (1 .. 0) : s = {}
    OBVIOUS
  <2>2. f = [s \in SUBSET (1 .. 0) |->
                IF s = {} THEN first ELSE step[seq[Max(s)]][f[s \ {Max(s)}]]]
    BY <2>1
  <2> HIDE DEF f
  <2>3. Tabulates(step, first, seq, 0, f)
    BY <2>2 DEF Tabulates
  <2> QED BY <2>3
<1>2. ASSUME NEW m \in Nat, Good(m) PROVE Good(m + 1)
  BY <1>2, FoldExtends
<1> HIDE DEF Good
<1>3. ASSUME Bad # {} PROVE FALSE
  <2>1. PICK m \in Bad : \A w \in Bad : m <= w
    <3>1. Bad \in SUBSET Nat
      OBVIOUS
    <3> HIDE DEF Bad
    <3> QED BY <1>3, <3>1, LeastMember
  <2>2. m # 0
    BY <1>1, <2>1
  <2>3. m - 1 \in Nat /\ m - 1 \notin Bad
    BY <2>1, <2>2
  <2>4. Good((m - 1) + 1)
    BY <1>2, <2>3
  <2>5. (m - 1) + 1 = m
    BY <2>1
  <2> QED BY <2>1, <2>4, <2>5
<1>4. Good(k)
  BY <1>3
<1> QED BY <1>4 DEF Good

\* What f holds along the prefixes of a list.
Walks(step, first, seq, k, f) ==
    /\ f[1 .. 0] = first
    /\ \A i \in 1 .. k : f[1 .. i] = step[seq[i]][f[1 .. i - 1]]

LEMMA FoldPrefix ==
    ASSUME NEW step, NEW first, NEW seq, NEW k \in Nat, NEW f,
           Tabulates(step, first, seq, k, f)
    PROVE  Walks(step, first, seq, k, f)
<1> USE DEF Tabulates
<1>1. f[1 .. 0] = first
  <2>1. 1 .. 0 = {} /\ {} \in SUBSET (1 .. k)
    OBVIOUS
  <2> QED BY <2>1
<1>2. ASSUME NEW i \in 1 .. k PROVE f[1 .. i] = step[seq[i]][f[1 .. i - 1]]
  <2>1. 1 .. i \in SUBSET (1 .. k) /\ 1 .. i # {} /\ i - 1 \in Nat
    OBVIOUS
  <2>2. f[1 .. i] = step[seq[Max(1 .. i)]][f[(1 .. i) \ {Max(1 .. i)}]]
    BY <2>1
  <2>3. Max(1 .. i) = i
    <3>1. (i - 1) + 1 = i /\ 1 .. i \in SUBSET (1 .. (i - 1) + 1) /\ i \in 1 .. i
      OBVIOUS
    <3> QED BY <2>1, <3>1, MaxPrefix
  <2>4. (1 .. i) \ {i} = 1 .. i - 1
    OBVIOUS
  <2> QED BY <2>2, <2>3, <2>4
<1> QED BY <1>1, <1>2 DEF Walks

\* The loop reads its table at the whole list.
LEMMA FoldedTable ==
    ASSUME NEW step, NEW first, NEW T, NEW seq \in Seq(T)
    PROVE  \E f : /\ Tabulates(step, first, seq, Len(seq), f)
                  /\ Folded(step, first, seq) = f[1 .. Len(seq)]
<1> DEFINE body(f) == [s \in SUBSET (1 .. Len(seq)) |->
                          IF s = {} THEN first ELSE step[seq[Max(s)]][f[s \ {Max(s)}]]]
           f == CHOOSE g : g = body(g)
<1>1. \E g : g = body(g)
  <2>1. Len(seq) \in Nat
    OBVIOUS
  <2>2. PICK g : Tabulates(step, first, seq, Len(seq), g)
    BY <2>1, FoldExists
  <2>3. g = body(g)
    BY <2>2 DEF Tabulates
  <2> QED BY <2>3
<1>2. f = body(f)
  <2> HIDE DEF body
  <2> QED BY <1>1
<1>3. DOMAIN seq = 1 .. Len(seq)
  OBVIOUS
<1>4. Folded(step, first, seq) = f[1 .. Len(seq)]
  BY <1>3 DEF Folded, FoldLeft, MapThenFoldSet
<1>5. Tabulates(step, first, seq, Len(seq), f)
  BY <1>2 DEF Tabulates
<1> HIDE DEF f
<1> QED BY <1>4, <1>5

\* A loop over nothing.
LEMMA FoldedNothing ==
    ASSUME NEW step, NEW first
    PROVE  Folded(step, first, <<>>) = first
<1>1. <<>> \in Seq({}) /\ Len(<<>>) = 0
  OBVIOUS
<1>2. PICK f : Tabulates(step, first, <<>>, 0, f) /\ Folded(step, first, <<>>) = f[1 .. 0]
  BY <1>1, FoldedTable
<1>3. 0 \in Nat /\ Tabulates(step, first, <<>>, 0, f)
  BY <1>2
<1>4. Walks(step, first, <<>>, 0, f)
  BY <1>3, FoldPrefix
<1> QED BY <1>2, <1>4 DEF Walks

\* One more element: one more step.
LEMMA FoldedAppend ==
    ASSUME NEW step, NEW first, NEW T, NEW seq \in Seq(T), NEW x \in T
    PROVE  Folded(step, first, Append(seq, x)) = step[x][Folded(step, first, seq)]
<1> DEFINE n == Len(seq)
           more == Append(seq, x)
<1>1. more \in Seq(T) /\ Len(more) = n + 1 /\ n \in Nat /\ n + 1 \in Nat
  OBVIOUS
<1>2. more[n + 1] = x /\ \A i \in 1 .. n : more[i] = seq[i]
  OBVIOUS
<1>3. PICK f : Tabulates(step, first, seq, n, f) /\ Folded(step, first, seq) = f[1 .. n]
  BY FoldedTable
<1>4. PICK g : Tabulates(step, first, more, n + 1, g) /\ Folded(step, first, more) = g[1 .. n + 1]
  BY <1>1, FoldedTable
<1> HIDE DEF n, more
<1>5. /\ f[1 .. 0] = first
      /\ \A i \in 1 .. n : f[1 .. i] = step[seq[i]][f[1 .. i - 1]]
  <2>1. n \in Nat /\ Tabulates(step, first, seq, n, f)
    BY <1>1, <1>3
  <2>2. Walks(step, first, seq, n, f)
    BY <2>1, FoldPrefix
  <2> QED BY <2>2 DEF Walks
<1>6. /\ g[1 .. 0] = first
      /\ \A i \in 1 .. n + 1 : g[1 .. i] = step[more[i]][g[1 .. i - 1]]
  <2>1. n + 1 \in Nat /\ Tabulates(step, first, more, n + 1, g)
    BY <1>1, <1>4
  <2>2. Walks(step, first, more, n + 1, g)
    BY <2>1, FoldPrefix
  <2> QED BY <2>2 DEF Walks
<1> DEFINE Bad == {i \in 0 .. n : f[1 .. i] # g[1 .. i]}
<1>7. ASSUME Bad # {} PROVE FALSE
  <2>1. PICK i \in Bad : \A j \in Bad : i <= j
    <3>1. Bad \in SUBSET Nat
      BY <1>1
    <3> HIDE DEF Bad
    <3> QED BY <1>7, <3>1, LeastMember
  <2>2. i \in 1 .. n
    BY <1>1, <1>5, <1>6, <2>1
  <2>3. i - 1 \in 0 .. n /\ i - 1 \notin Bad
    BY <1>1, <2>1, <2>2
  <2>4. f[1 .. i - 1] = g[1 .. i - 1]
    BY <2>3
  <2>5. i \in 1 .. n + 1
    BY <1>1, <2>2
  <2> QED BY <1>2, <1>5, <1>6, <2>1, <2>2, <2>4, <2>5
<1>8. f[1 .. n] = g[1 .. n]
  <2>1. n \in 0 .. n
    BY <1>1
  <2> QED BY <1>7, <2>1
<1>9. g[1 .. n + 1] = step[x][g[1 .. n]]
  <2>1. n + 1 \in 1 .. n + 1 /\ (n + 1) - 1 = n
    BY <1>1
  <2> QED BY <1>2, <1>6, <2>1
<1> QED BY <1>3, <1>4, <1>8, <1>9 DEF more

\* The elements of a longer list.
LEMMA RangeAppend ==
    ASSUME NEW T, NEW seq \in Seq(T), NEW x
    PROVE  Range(Append(seq, x)) = Range(seq) \cup {x}
<1>1. /\ DOMAIN Append(seq, x) = 1 .. Len(seq) + 1 /\ DOMAIN seq = 1 .. Len(seq)
      /\ Len(seq) \in Nat
  OBVIOUS
<1>2. \A i \in 1 .. Len(seq) : Append(seq, x)[i] = seq[i]
  OBVIOUS
<1>3. Append(seq, x)[Len(seq) + 1] = x
  OBVIOUS
<1> QED BY <1>1, <1>2, <1>3 DEF Range

\* Induction along the places of a list.
LEMMA PlaceInduction ==
    ASSUME NEW n \in Nat, NEW P, 0 \in P, \A i \in 1 .. n : i - 1 \in P => i \in P
    PROVE  0 .. n \subseteq P
<1> DEFINE Bad == {i \in 0 .. n : i \notin P}
<1>1. ASSUME Bad # {} PROVE FALSE
  <2>1. PICK i \in Bad : \A j \in Bad : i <= j
    <3>1. Bad \in SUBSET Nat
      OBVIOUS
    <3> HIDE DEF Bad
    <3> QED BY <1>1, <3>1, LeastMember
  <2>2. i \in 1 .. n
    BY <2>1
  <2>3. i - 1 \in 0 .. n /\ i - 1 \notin Bad
    BY <2>1, <2>2
  <2> QED BY <2>1, <2>2, <2>3
<1> QED BY <1>1

\* Induction over sequences: a set of them that holds the empty one and grows
\* with every element holds them all.
LEMMA SeqInduction ==
    ASSUME NEW T, NEW P, <<>> \in P,
           \A seq \in Seq(T), x \in T : seq \in P => Append(seq, x) \in P
    PROVE  Seq(T) \subseteq P
<1> DEFINE Bad == {n \in Nat : \E seq \in Seq(T) : Len(seq) = n /\ seq \notin P}
<1>1. ASSUME Bad # {} PROVE FALSE
  <2>1. PICK n \in Bad : \A m \in Bad : n <= m
    <3>1. Bad \in SUBSET Nat
      OBVIOUS
    <3> HIDE DEF Bad
    <3> QED BY <1>1, <3>1, LeastMember
  <2>2. PICK seq \in Seq(T) : Len(seq) = n /\ seq \notin P
    BY <2>1
  <2>3. n \in Nat /\ n # 0
    <3>1. CASE n = 0
      <4>1. seq = <<>>
        BY <2>2, <3>1
      <4> QED BY <2>2, <4>1
    <3> QED BY <2>1, <3>1
  <2> DEFINE front == SubSeq(seq, 1, n - 1)
             last == seq[n]
  <2>4. front \in Seq(T) /\ Len(front) = n - 1 /\ last \in T
    BY <2>2, <2>3
  <2>5. seq = Append(front, last)
    BY <2>2, <2>3
  <2>6. n - 1 \in Nat /\ n - 1 \notin Bad
    BY <2>1, <2>3
  <2>7. front \in P
    BY <2>4, <2>6
  <2> HIDE DEF front, last
  <2> QED BY <2>2, <2>4, <2>5, <2>7
<1> QED BY <1>1

\* What every step keeps, the loop keeps.
LEMMA FoldedStays ==
    ASSUME NEW step, NEW first, NEW T, NEW seq \in Seq(T), NEW P, first \in P,
           \A x \in T, s \in P : step[x][s] \in P
    PROVE  Folded(step, first, seq) \in P
<1> DEFINE Good == {q \in Seq(T) : Folded(step, first, q) \in P}
<1>1. <<>> \in Good
  BY FoldedNothing
<1>2. ASSUME NEW q \in Seq(T), NEW x \in T, q \in Good PROVE Append(q, x) \in Good
  <2>1. Folded(step, first, Append(q, x)) = step[x][Folded(step, first, q)]
    BY FoldedAppend
  <2>2. Append(q, x) \in Seq(T)
    OBVIOUS
  <2> QED BY <1>2, <2>1, <2>2
<1>3. Seq(T) \subseteq Good
  <2> HIDE DEF Good
  <2> QED BY <1>1, <1>2, SeqInduction
<1> QED BY <1>3

\* The loop over a longer prefix of a list.
LEMMA FoldedPrefix ==
    ASSUME NEW step, NEW first, NEW T, NEW seq \in Seq(T), NEW i \in 1 .. Len(seq)
    PROVE  /\ SubSeq(seq, 1, i) \in Seq(T) /\ SubSeq(seq, 1, i - 1) \in Seq(T)
           /\ SubSeq(seq, 1, i) = Append(SubSeq(seq, 1, i - 1), seq[i])
           /\ Folded(step, first, SubSeq(seq, 1, i)) =
                  step[seq[i]][Folded(step, first, SubSeq(seq, 1, i - 1))]
<1>1. /\ SubSeq(seq, 1, i) \in Seq(T) /\ SubSeq(seq, 1, i - 1) \in Seq(T)
      /\ seq[i] \in T
  OBVIOUS
<1>2. SubSeq(seq, 1, i) = Append(SubSeq(seq, 1, i - 1), seq[i])
  OBVIOUS
<1>3. Folded(step, first, Append(SubSeq(seq, 1, i - 1), seq[i])) =
          step[seq[i]][Folded(step, first, SubSeq(seq, 1, i - 1))]
  BY <1>1, FoldedAppend
<1> QED BY <1>1, <1>2, <1>3

\* A loop over two lists is a loop over the one and then over the other.
LEMMA FoldedConcat ==
    ASSUME NEW step, NEW first, NEW T, NEW a \in Seq(T), NEW b \in Seq(T)
    PROVE  Folded(step, first, a \o b) = Folded(step, Folded(step, first, a), b)
<1> DEFINE mid == Folded(step, first, a)
           Good == {q \in Seq(T) : Folded(step, first, a \o q) = Folded(step, mid, q)}
<1>1. <<>> \in Good
  <2>1. a \o <<>> = a
    OBVIOUS
  <2>2. Folded(step, mid, <<>>) = mid
    BY FoldedNothing
  <2> QED BY <2>1, <2>2
<1>2. ASSUME NEW q \in Seq(T), NEW x \in T, q \in Good PROVE Append(q, x) \in Good
  <2>1. a \o q \in Seq(T) /\ Append(q, x) \in Seq(T)
    OBVIOUS
  <2>2. a \o Append(q, x) = Append(a \o q, x)
    OBVIOUS
  <2>3. Folded(step, first, Append(a \o q, x)) = step[x][Folded(step, first, a \o q)]
    BY <2>1, FoldedAppend
  <2>4. Folded(step, mid, Append(q, x)) = step[x][Folded(step, mid, q)]
    BY FoldedAppend
  <2> QED BY <1>2, <2>1, <2>2, <2>3, <2>4
<1>3. Seq(T) \subseteq Good
  <2> HIDE DEF Good
  <2> QED BY <1>1, <1>2, SeqInduction
<1> QED BY <1>3
=============================================================================
