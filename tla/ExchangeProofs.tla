--------------------------- MODULE ExchangeProofs ---------------------------
(***************************************************************************)
(* The exchange keeps its books and its providers' money, for every set of *)
(* users, every supply, fee, locked minimum and width of the integers.     *)
(*                                                                         *)
(* The order of the argument: rounding goes against who acts, so the       *)
(* product of the reserves per square share never drops; with the locked   *)
(* minimum that keeps the reserves above zero and the shares under the     *)
(* root of the product; every debit of the pool account is then covered.   *)
(***************************************************************************)
EXTENDS Exchange, DataTheorems

-----------------------------------------------------------------------------
(* isqrt_u128                                                              *)

Positive == Nat \ {0}

\* f is what the loop computes from the values up to k.
Runs(n, k, f) == \A x \in 1 .. k : f[x] = IF Closer(n, x) < x THEN f[Closer(n, x)] ELSE x

\* A step from a positive value yields a positive value.
LEMMA CloserType ==
    ASSUME NEW n \in Nat, n >= 2, NEW x \in Positive
    PROVE  /\ Closer(n, x) \in Positive
           /\ ~(Closer(n, x) < x) => x * x <= n
<1>1. PICK q \in Nat : q = n \div x /\ q * x <= n /\ n < (q + 1) * x
  BY QuotientBounds DEF Positive
<1>2. x + q >= 2
  <2>1. CASE x = 1
    <3>1. n < (q + 1)
      BY <1>1, <2>1
    <3> QED BY <2>1, <3>1
  <2>2. CASE x > 1
    BY <2>2 DEF Positive
  <2> QED BY <2>1, <2>2 DEF Positive
<1>3. Closer(n, x) = (x + q) \div 2
  BY <1>1 DEF Closer
<1>4. ASSUME ~(Closer(n, x) < x) PROVE x * x <= n
  <2>1. q >= x
    BY <1>3, <1>4 DEF Positive
  <2>2. x * x <= q * x
    BY <2>1 DEF Positive
  <2>3. x * x \in Nat /\ q * x \in Nat
    BY DEF Positive
  <2> QED BY <1>1, <2>2, <2>3
<1> QED BY <1>2, <1>3, <1>4 DEF Positive

\* Whatever the loop computed from x is a root that is not too large.
LEMMA RunsUnderRoot ==
    ASSUME NEW n \in Nat, n >= 2, NEW k \in Nat, NEW f, Runs(n, k, f), NEW x \in 1 .. k
    PROVE  f[x] \in Nat /\ f[x] * f[x] <= n
<1> DEFINE Bad == {z \in 1 .. k : ~(f[z] \in Nat /\ f[z] * f[z] <= n)}
<1>1. ASSUME Bad # {} PROVE FALSE
  <2>1. Bad \in SUBSET Nat
    OBVIOUS
  <2>2. PICK z \in Bad : \A w \in Bad : z <= w
    <3> HIDE DEF Bad
    <3> QED BY <1>1, <2>1, LeastMember
  <2>3. z \in 1 .. k /\ z \in Positive /\ ~(f[z] \in Nat /\ f[z] * f[z] <= n)
    BY <2>2 DEF Positive
  <2>4. Closer(n, z) \in Positive
    BY <2>3, CloserType
  <2>5. CASE Closer(n, z) < z
    <3>1. Closer(n, z) \in 1 .. k /\ Closer(n, z) \notin Bad
      BY <2>2, <2>3, <2>4, <2>5 DEF Positive
    <3>2. f[z] = f[Closer(n, z)]
      BY <2>3, <2>5 DEF Runs
    <3> QED BY <2>3, <3>1, <3>2
  <2>6. CASE ~(Closer(n, z) < z)
    <3>1. f[z] = z /\ z * z <= n
      BY <2>3, <2>6, CloserType DEF Runs
    <3> QED BY <2>3, <3>1 DEF Positive
  <2> QED BY <2>5, <2>6
<1> QED BY <1>1 DEF Runs

\* Two runs agree where both are defined.
LEMMA RunsAgree ==
    ASSUME NEW n \in Nat, n >= 2, NEW k \in Nat, NEW l \in Nat, k <= l,
           NEW f, NEW g, Runs(n, k, f), Runs(n, l, g), NEW x \in 1 .. k
    PROVE  f[x] = g[x]
<1> DEFINE Bad == {z \in 1 .. k : f[z] # g[z]}
<1>1. ASSUME Bad # {} PROVE FALSE
  <2>1. Bad \in SUBSET Nat
    OBVIOUS
  <2>2. PICK z \in Bad : \A w \in Bad : z <= w
    <3> HIDE DEF Bad
    <3> QED BY <1>1, <2>1, LeastMember
  <2>3. z \in 1 .. k /\ z \in 1 .. l /\ z \in Positive /\ f[z] # g[z]
    BY <2>2 DEF Positive
  <2>4. Closer(n, z) \in Positive
    BY <2>3, CloserType
  <2>5. CASE Closer(n, z) < z
    <3>1. Closer(n, z) \in 1 .. k /\ Closer(n, z) \notin Bad
      BY <2>2, <2>3, <2>4, <2>5 DEF Positive
    <3>2. f[z] = f[Closer(n, z)] /\ g[z] = g[Closer(n, z)]
      BY <2>3, <2>5 DEF Runs
    <3> QED BY <2>3, <3>1, <3>2
  <2>6. CASE ~(Closer(n, z) < z)
    BY <2>3, <2>6 DEF Runs
  <2> QED BY <2>5, <2>6
<1> QED BY <1>1

\* A run can be continued by one value.
LEMMA RunExtends ==
    ASSUME NEW n \in Nat, n >= 2, NEW k \in Nat, NEW f, Runs(n, k, f)
    PROVE  \E g : Runs(n, k + 1, g)
<1> DEFINE here(x) == IF Closer(n, x) < x THEN f[Closer(n, x)] ELSE x
           g == [x \in 1 .. k + 1 |-> here(x)]
<1>1. ASSUME NEW x \in 1 .. k + 1
      PROVE  g[x] = IF Closer(n, x) < x THEN g[Closer(n, x)] ELSE x
  <2>1. CASE Closer(n, x) < x
    <3>1. x \in Positive
      BY DEF Positive
    <3>2. Closer(n, x) \in 1 .. k
      BY <2>1, <3>1, CloserType DEF Positive
    <3>3. f[Closer(n, x)] = here(Closer(n, x))
      BY <3>2 DEF Runs
    <3>4. g[Closer(n, x)] = here(Closer(n, x))
      <4>1. ASSUME NEW y \in 1 .. k PROVE y \in 1 .. k + 1
        OBVIOUS
      <4> QED BY <3>2, <4>1
    <3>5. g[x] = f[Closer(n, x)]
      BY <2>1
    <3> HIDE DEF here, g
    <3> QED BY <2>1, <3>3, <3>4, <3>5
  <2>2. CASE ~(Closer(n, x) < x)
    BY <2>2
  <2> QED BY <2>1, <2>2
<1> HIDE DEF g
<1>2. Runs(n, k + 1, g)
  BY <1>1 DEF Runs
<1> QED BY <1>2

\* There is a run up to every value.
LEMMA RunExists ==
    ASSUME NEW n \in Nat, n >= 2, NEW k \in Nat
    PROVE  \E f : Runs(n, k, f)
<1> DEFINE Good(m) == \E f : Runs(n, m, f)
           Bad == {m \in Nat : ~Good(m)}
<1>1. Good(0)
  BY DEF Runs
<1>2. ASSUME NEW m \in Nat, Good(m) PROVE Good(m + 1)
  BY <1>2, RunExtends
<1> HIDE DEF Good
<1>3. ASSUME Bad # {} PROVE FALSE
  <2>1. PICK m \in Bad : \A w \in Bad : m <= w
    <3>1. Bad \in SUBSET Nat
      OBVIOUS
    <3> HIDE DEF Bad
    <3> QED BY <1>3, <3>1, LeastMember
  <2>2. m # 0
    BY <1>1, <2>1
  <2>3. m - 1 \in Nat /\ m - 1 \notin Bad
    BY <2>1, <2>2
  <2>4. Good((m - 1) + 1)
    BY <1>2, <2>3
  <2>5. (m - 1) + 1 = m
    BY <2>1
  <2> QED BY <2>1, <2>4, <2>5
<1>4. Good(k)
  BY <1>3
<1> QED BY <1>4 DEF Good

\* The loop is the function that its recursion describes.
LEMMA NewtonRuns ==
    ASSUME NEW n \in Nat, n >= 2, NEW k \in Nat
    PROVE  Runs(n, k, Newton(n))
<1> DEFINE run(m) == CHOOSE f : Runs(n, m, f)
           body(f) == [x \in Nat \ {0} |-> IF Closer(n, x) < x THEN f[Closer(n, x)] ELSE x]
           full == [x \in Nat \ {0} |-> run(x)[x]]
<1>1. ASSUME NEW m \in Nat PROVE Runs(n, m, run(m))
  BY RunExists
<1> HIDE DEF run
<1>2. ASSUME NEW x \in Nat \ {0}
      PROVE  full[x] = IF Closer(n, x) < x THEN full[Closer(n, x)] ELSE x
  <2>1. run(x)[x] = IF Closer(n, x) < x THEN run(x)[Closer(n, x)] ELSE x
    BY <1>1 DEF Runs
  <2>2. CASE Closer(n, x) < x
    <3>1. PICK c \in Nat \ {0} : c = Closer(n, x) /\ c < x
      BY <2>2, CloserType DEF Positive
    <3>2. run(c)[c] = run(x)[c]
      <4>1. Runs(n, c, run(c)) /\ Runs(n, x, run(x)) /\ c <= x /\ c \in 1 .. c
        BY <1>1, <3>1
      <4> QED BY <4>1, RunsAgree
    <3>3. full[c] = run(c)[c]
      OBVIOUS
    <3> QED BY <2>1, <2>2, <3>1, <3>2, <3>3
  <2>3. CASE ~(Closer(n, x) < x)
    BY <2>1, <2>3
  <2> QED BY <2>2, <2>3
<1>3. full = body(full)
  <2> HIDE DEF full
  <2>1. full = [x \in Nat \ {0} |-> full[x]]
    BY DEF full
  <2> QED BY <1>2, <2>1
<1>4. Newton(n) = CHOOSE f : f = body(f)
  BY DEF Newton
<1> HIDE DEF full
<1>5. Newton(n) = body(Newton(n))
  <2> HIDE DEF body
  <2> QED BY <1>3, <1>4
<1> HIDE DEF body
<1>6. ASSUME NEW f, f = body(f) PROVE Runs(n, k, f)
  <2>1. ASSUME NEW x \in 1 .. k PROVE x \in Nat \ {0}
    OBVIOUS
  <2> QED BY <1>6, <2>1 DEF Runs, body
<1> QED BY <1>5, <1>6

\* isqrt_u128 does not exceed the root.
LEMMA IsqrtUnder ==
    ASSUME NEW n \in Nat
    PROVE  Isqrt(n) \in Nat /\ Isqrt(n) * Isqrt(n) <= n
<1>1. CASE n < 2
  <2>1. n = 0 \/ n = 1
    BY <1>1
  <2> QED BY <1>1, <2>1 DEF Isqrt
<1>2. CASE n >= 2
  <2> DEFINE y == (n + 1) \div 2
  <2>1. y \in Nat /\ y < n /\ y \in 1 .. y
    BY <1>2
  <2>2. Isqrt(n) = Newton(n)[y]
    BY <1>2, <2>1 DEF Isqrt
  <2> HIDE DEF y
  <2>3. Runs(n, y, Newton(n))
    BY <1>2, <2>1, NewtonRuns
  <2> QED BY <1>2, <2>1, <2>2, <2>3, RunsUnderRoot
<1> QED BY <1>1, <1>2

-----------------------------------------------------------------------------
(* What rounding does: h, t and s are the reserves and the shares of a pool *)

\* If each reserve per share grows, so does their product per square share.
LEMMA ValueKept ==
    ASSUME NEW h \in Nat, NEW t \in Nat, NEW s \in Nat,
           NEW h2 \in Nat, NEW t2 \in Nat, NEW s2 \in Nat,
           h2 * s >= h * s2, t2 * s >= t * s2
    PROVE  h2 * t2 * s * s >= h * t * s2 * s2
<1>1. ASSUME NEW a \in Nat, NEW b \in Nat, NEW c \in Nat, NEW d \in Nat, a >= b, c >= d
      PROVE  a * c >= b * d
  <2>1. a * c >= b * c
    BY <1>1
  <2>2. b * c >= b * d
    BY <1>1
  <2>3. a * c \in Nat /\ b * c \in Nat /\ b * d \in Nat
    OBVIOUS
  <2> QED BY <2>1, <2>2, <2>3
<1>2. h2 * s \in Nat /\ h * s2 \in Nat /\ t2 * s \in Nat /\ t * s2 \in Nat
  OBVIOUS
<1>3. (h2 * s) * (t2 * s) >= (h * s2) * (t * s2)
  BY <1>1, <1>2
<1>4. (h2 * s) * (t2 * s) = h2 * t2 * s * s
  OBVIOUS
<1>5. (h * s2) * (t * s2) = h * t * s2 * s2
  OBVIOUS
<1> QED BY <1>3, <1>4, <1>5

\* The product per square share does not drop from h, t, s to h2, t2, s2.
KeepsValue(h, t, s, h2, t2, s2) == h2 * t2 * s * s >= h * t * s2 * s2

\* Then the shares stay under the root of the product.
LEMMA RootKept ==
    ASSUME NEW h \in Nat, NEW t \in Nat, NEW s \in Nat, s > 0,
           NEW h2 \in Nat, NEW t2 \in Nat, NEW s2 \in Nat,
           s * s <= h * t, KeepsValue(h, t, s, h2, t2, s2)
    PROVE  s2 * s2 <= h2 * t2
<1>1. ASSUME NEW p \in Nat, NEW q \in Nat, NEW p2 \in Nat, NEW q2 \in Nat,
             q > 0, q <= p, p2 * q >= p * q2
      PROVE  q2 <= p2
  <2>1. p * q2 >= q * q2
    BY <1>1
  <2>2. p2 * q >= q * q2
    <3>1. p2 * q \in Nat /\ p * q2 \in Nat /\ q * q2 \in Nat
      OBVIOUS
    <3> QED BY <1>1, <2>1, <3>1
  <2>3. ASSUME q2 >= p2 + 1 PROVE FALSE
    <3>1. q * q2 >= q * (p2 + 1)
      BY <2>3
    <3>2. q * (p2 + 1) = p2 * q + q
      OBVIOUS
    <3>3. p2 * q \in Nat /\ q * q2 \in Nat /\ q * (p2 + 1) \in Nat
      OBVIOUS
    <3> QED BY <1>1, <2>2, <3>1, <3>2, <3>3
  <2> QED BY <2>3
<1> DEFINE p == h * t
           q == s * s
           p2 == h2 * t2
           q2 == s2 * s2
<1>2. p \in Nat /\ q \in Nat /\ p2 \in Nat /\ q2 \in Nat /\ q > 0
  OBVIOUS
<1>3. p2 * q = h2 * t2 * s * s
  OBVIOUS
<1>4. p * q2 = h * t * s2 * s2
  OBVIOUS
<1>5. p2 * q >= p * q2
  BY <1>3, <1>4 DEF KeepsValue
<1>6. q <= p
  OBVIOUS
<1> HIDE DEF p, q, p2, q2
<1>7. q2 <= p2
  BY <1>1, <1>2, <1>5, <1>6
<1> QED BY <1>7 DEF q2, p2

\* A swap pays out at most what keeps the product of the reserves.
LEMMA SwapKeepsProduct ==
    ASSUME NEW a \in Nat, NEW r \in Nat, r > 0, NEW R \in Nat
    PROVE  /\ SwapOutput(a, r, R) \in Nat
           /\ SwapOutput(a, r, R) < R => (r + a) * (R - SwapOutput(a, r, R)) >= r * R
<1> DEFINE D == AMM_FEE_DENOM
           w == a * (D - SWAP_FEE_BPS)
           out == SwapOutput(a, r, R)
<1>1. D \in Nat /\ D > 0 /\ D - SWAP_FEE_BPS \in Nat /\ D - SWAP_FEE_BPS <= D
  BY ExchangeAssumption
<1>2. w \in Nat /\ w <= a * D
  BY <1>1
<1>3. r * D \in Nat /\ r * D > 0
  BY <1>1
<1>4. out = (w * R) \div (r * D + w)
  BY DEF SwapOutput
<1> HIDE DEF D, w, out
<1>5. w * R \in Nat /\ r * D + w \in Nat \ {0}
  BY <1>2, <1>3
<1>6. out \in Nat /\ out * (r * D + w) <= w * R
  BY <1>4, <1>5, QuotientBounds
<1>7. ASSUME out < R
      PROVE  (r + a) * (R - out) >= r * R
  <2>1. PICK rest \in Nat : rest = R - out
    BY <1>6, <1>7
  <2>2. w * R = w * rest + w * out
    BY <1>2, <1>6, <2>1
  <2>3. out * (r * D + w) = out * (r * D) + w * out
    BY <1>2, <1>3, <1>6
  <2>4. out * (r * D) \in Nat /\ w * out \in Nat /\ w * rest \in Nat
    BY <1>2, <1>3, <1>6
  <2>5. out * (r * D) <= w * rest
    BY <1>6, <2>2, <2>3, <2>4
  <2>6. w * rest <= (a * D) * rest
    BY <1>1, <1>2
  <2>7. (out * r) * D <= (a * rest) * D
    <3>1. out * (r * D) = (out * r) * D
      BY <1>1, <1>6
    <3>2. (a * D) * rest = (a * rest) * D /\ (a * D) * rest \in Nat
      BY <1>1
    <3> QED BY <2>4, <2>5, <2>6, <3>1, <3>2
  <2>8. out * r <= a * rest
    <3>1. ASSUME NEW m \in Nat, NEW k \in Nat, NEW d \in Nat, d > 0, m * d <= k * d
          PROVE  m <= k
      BY <3>1
    <3>2. out * r \in Nat /\ a * rest \in Nat
      BY <1>6
    <3> QED BY <1>1, <2>7, <3>1, <3>2
  <2>9. (r + a) * rest = r * rest + a * rest
    OBVIOUS
  <2>10. r * R = r * rest + out * r
    BY <1>6, <2>1
  <2>11. r * rest \in Nat /\ a * rest \in Nat /\ out * r \in Nat
    BY <1>6
  <2>12. (r + a) * rest >= r * R
    BY <2>8, <2>9, <2>10, <2>11
  <2> QED BY <2>1, <2>12
<1> QED BY <1>6, <1>7 DEF out

\* A cast to 64 bits only makes a number smaller.
LEMMA CastShrinks ==
    ASSUME NEW n \in Nat
    PROVE  AsU64(n) \in 0 .. MAX_U64 /\ AsU64(n) <= n
<1> DEFINE m == MAX_U64 + 1
           q == n \div m
           r == n % m
<1>1. m \in Nat /\ m > 0
  BY ExchangeAssumption
<1>2. q \in Int /\ r \in Nat /\ n = m * q + r /\ r < m
  BY <1>1
<1>3. q \in Nat
  BY <1>1, QuotientBounds
<1>4. AsU64(n) = r
  BY DEF AsU64
<1> HIDE DEF q, r
<1>5. m * q \in Nat
  BY <1>1, <1>3
<1>6. r <= n
  BY <1>2, <1>5
<1>7. r \in 0 .. MAX_U64
  BY <1>1, <1>2, ExchangeAssumption
<1> QED BY <1>4, <1>6, <1>7

Reserves == [hkm : Positive, token : Positive, shares : Positive]

\* What fits a pool is an amount of both sides.
LEMMA FittingType ==
    ASSUME NEW pool \in Reserves, NEW a \in Nat, NEW b \in Nat
    PROVE  FittingAmounts(pool, a, b) \in [hkm : Nat, token : Nat]
<1>1. PICK h \in Nat \ {0}, t \in Nat \ {0} : h = pool.hkm /\ t = pool.token
  BY DEF Reserves, Positive
<1>2. a * t \in Nat /\ b * h \in Nat
  OBVIOUS
<1>3. (a * t) \div h \in Nat /\ (b * h) \div t \in Nat
  BY <1>2, QuotientBounds
<1>4. AsU64((a * t) \div h) \in Nat /\ AsU64((b * h) \div t) \in Nat
  BY <1>3, CastShrinks
<1> QED BY <1>1, <1>4 DEF FittingAmounts

\* The shares of a deposit cost what they are worth on both sides.
LEMMA SharesAreFair ==
    ASSUME NEW pool \in Reserves, NEW use \in [hkm : Nat, token : Nat, shares : Nat],
           use.shares = SharesFor(pool, use)
    PROVE  /\ (pool.hkm + use.hkm) * pool.shares >= pool.hkm * (pool.shares + use.shares)
           /\ (pool.token + use.token) * pool.shares >= pool.token * (pool.shares + use.shares)
<1>1. PICK h \in Nat \ {0}, t \in Nat \ {0}, s \in Nat \ {0} :
         h = pool.hkm /\ t = pool.token /\ s = pool.shares
  BY DEF Reserves, Positive
<1>2. PICK a \in Nat, b \in Nat : a = use.hkm /\ b = use.token
  OBVIOUS
<1>3. a * s \in Nat /\ b * s \in Nat
  OBVIOUS
<1>4. PICK x \in Nat, y \in Nat :
         /\ x = (a * s) \div h /\ x * h <= a * s
         /\ y = (b * s) \div t /\ y * t <= b * s
  BY <1>3, QuotientBounds
<1>5. PICK d \in Nat : d = use.shares /\ d <= x /\ d <= y
  <2>1. use.shares = AsU64(Least(x, y))
    BY <1>1, <1>2, <1>4 DEF SharesFor
  <2>2. Least(x, y) \in Nat /\ Least(x, y) <= x /\ Least(x, y) <= y
    BY DEF Least
  <2>3. AsU64(Least(x, y)) \in Nat /\ AsU64(Least(x, y)) <= Least(x, y)
    BY <2>2, CastShrinks
  <2> QED BY <2>1, <2>2, <2>3
<1>6. ASSUME NEW k \in Nat, NEW r \in Nat, NEW q \in Nat, d <= q, q * r <= k * s
      PROVE  (r + k) * s >= r * (s + d)
  <2>1. d * r <= q * r
    BY <1>6
  <2>2. (r + k) * s = r * s + k * s
    OBVIOUS
  <2>3. r * (s + d) = r * s + d * r
    OBVIOUS
  <2>4. r * s \in Nat /\ k * s \in Nat /\ d * r \in Nat /\ q * r \in Nat
    OBVIOUS
  <2> QED BY <1>6, <2>1, <2>2, <2>3, <2>4
<1>7. (h + a) * s >= h * (s + d)
  BY <1>4, <1>5, <1>6
<1>8. (t + b) * s >= t * (s + d)
  BY <1>4, <1>5, <1>6
<1> QED BY <1>1, <1>2, <1>5, <1>7, <1>8

\* Who leaves takes no more than the shares are worth, and never everything.
LEMMA PartIsFair ==
    ASSUME NEW x \in Nat, NEW r \in Nat \ {0}, NEW s \in Nat \ {0}, x < s
    PROVE  /\ Part(x, r, s) \in Nat
           /\ Part(x, r, s) < r
           /\ (r - Part(x, r, s)) * s >= r * (s - x)
<1>1. x * r \in Nat
  OBVIOUS
<1>2. PICK q \in Nat : q = Part(x, r, s) /\ q * s <= x * r
  BY <1>1, QuotientBounds DEF Part
<1>3. x * r < s * r
  OBVIOUS
<1>4. q * s \in Nat /\ s * r \in Nat /\ r * s = s * r
  OBVIOUS
<1>5. q < r
  <2>1. ASSUME r <= q PROVE r * s <= q * s
    BY <2>1
  <2> QED BY <1>1, <1>2, <1>3, <1>4, <2>1
<1>6. (r - q) * s = r * s - q * s
  OBVIOUS
<1>7. r * (s - x) = r * s - x * r
  OBVIOUS
<1>8. (r - q) * s >= r * (s - x)
  BY <1>1, <1>2, <1>4, <1>6, <1>7
<1> QED BY <1>2, <1>5, <1>8

-----------------------------------------------------------------------------
(* The inductive invariant.  Upper bounds follow from it: whoever holds      *)
(* something holds no more than everybody together.                          *)

Amount == 0 .. MAX_U64

MoneyRanges ==
    /\ hkm \in [Accounts -> Nat]
    /\ fee_pot \in Amount
    /\ nonces \in [Users -> 0 .. MaxNonce]
    /\ Total(hkm) + fee_pot <= Endowment * Cardinality(Users)

TokenRanges ==
    /\ DOMAIN tokens \subseteq TokenIds
    /\ tokens \in [DOMAIN tokens -> Amount]
    /\ held \in [DOMAIN tokens -> [Accounts -> Nat]]

PoolRanges ==
    /\ DOMAIN pools \subseteq DOMAIN tokens
    /\ pools \in [DOMAIN pools -> [hkm : Amount, token : Amount, shares : Amount]]
    /\ lp_shares \in [DOMAIN pools -> [Users -> Nat]]

HkmReserves == [t \in DOMAIN pools |-> pools[t].hkm]

BooksInv ==
    /\ MoneyRanges
    /\ TokenRanges
    /\ PoolRanges
    /\ UnitsConserved
    /\ PoolsBacked
    /\ SharesUnderRoot
    /\ ReservesNeverEmpty

-----------------------------------------------------------------------------
(* Money                                                                   *)

LEMMA AccountsFinite == IsFiniteSet(Accounts)
BY ExchangeAssumption, FS_AddElement DEF Accounts

\* One account's balance changes.
LEMMA AccountUpdate ==
    ASSUME NEW f \in [Accounts -> Nat], NEW g \in [Accounts -> Nat], NEW a \in Accounts,
           \A b \in Accounts \ {a} : g[b] = f[b]
    PROVE  Total(g) = Total(f) - f[a] + g[a]
BY TotalOneChange, AccountsFinite

\* Spending moves HKM and takes the fee.
LEMMA SpendMoney ==
    ASSUME MoneyRanges, NEW from \in Users, NEW to \in Accounts, NEW amount \in Nat,
           Spend(from, to, amount)
    PROVE  /\ MoneyRanges'
           /\ hkm'[AMM_POOL_ACCOUNT] =
                  hkm[AMM_POOL_ACCOUNT] + (IF to = AMM_POOL_ACCOUNT THEN amount ELSE 0)
<1>1. BaseFee \in Nat /\ MAX_U64 \in Nat /\ MaxNonce \in Nat
      /\ from \in Accounts /\ AMM_POOL_ACCOUNT \in Accounts /\ from # AMM_POOL_ACCOUNT
  BY ExchangeAssumption DEF Accounts
<1>2. PICK f : f = hkm /\ f \in [Accounts -> Nat] /\ amount + BaseFee <= f[from]
               /\ hkm' = [f EXCEPT ![from] = @ - amount - BaseFee, ![to] = @ + amount]
  BY DEF MoneyRanges, Spend
<1>3. PICK m \in Nat : m = f[from] - amount - BaseFee /\ f[from] = m + amount + BaseFee
  BY <1>1, <1>2
<1> DEFINE g == [f EXCEPT ![from] = m]
<1>4. g \in [Accounts -> Nat] /\ g[from] = m /\ \A b \in Accounts \ {from} : g[b] = f[b]
  BY <1>1, <1>2
<1>5. Total(g) = Total(f) - f[from] + m
  <2> HIDE DEF g
  <2> QED BY <1>1, <1>2, <1>4, AccountUpdate
<1>6. PICK k \in Nat : k = g[to] + amount
  BY <1>4
<1>7. PICK e : e = hkm' /\ e \in [Accounts -> Nat] /\ e[to] = k
               /\ Total(e) = Total(g) - g[to] + k
  <2>1. PICK e : e = hkm'
    OBVIOUS
  <2>2. e \in [Accounts -> Nat] /\ e[to] = k /\ \A b \in Accounts \ {to} : e[b] = g[b]
    BY <1>1, <1>2, <1>3, <1>6, <2>1
  <2>3. Total(e) = Total(g) - g[to] + k
    <3> HIDE DEF g
    <3> QED BY <1>4, <2>2, AccountUpdate
  <2> QED BY <2>1, <2>2, <2>3
<1>8. Total(f) \in Nat /\ Total(g) \in Nat /\ g[to] \in Nat /\ f[from] \in Nat
  <2> HIDE DEF g
  <2> QED BY <1>1, <1>2, <1>4, TotalType, AccountsFinite
<1>9. Total(hkm') = Total(f) - BaseFee
  <2> HIDE DEF g
  <2>1. PICK F \in Nat, G \in Nat, before \in Nat :
           F = Total(f) /\ G = Total(g) /\ before = g[to]
    BY <1>8
  <2>2. G = F - (m + amount + BaseFee) + m
    BY <1>3, <1>5, <2>1
  <2>3. Total(e) = G - before + (before + amount)
    BY <1>6, <1>7, <2>1
  <2>4. Total(e) = F - BaseFee
    BY <1>1, <2>2, <2>3
  <2> QED BY <1>7, <2>1, <2>4
<1>10. PICK c \in Nat, o \in Nat :
          c = Total(f) /\ o = fee_pot /\ o <= MAX_U64 /\ c + o <= Endowment * Cardinality(Users)
  BY <1>2, <1>8, <1>1 DEF MoneyRanges, Amount
<1>11. fee_pot' \in Amount /\ fee_pot' <= o + BaseFee
  BY <1>1, <1>10 DEF Spend, Least, Amount
<1>12. Total(hkm') + fee_pot' <= Endowment * Cardinality(Users)
  <2>1. Endowment * Cardinality(Users) \in Nat
    BY ExchangeAssumption, FS_CardinalityType
  <2>2. fee_pot' \in Nat
    BY <1>1, <1>11 DEF Amount
  <2> QED BY <1>1, <1>9, <1>10, <1>11, <2>1, <2>2
<1>13. nonces' \in [Users -> 0 .. MaxNonce]
  BY <1>1 DEF MoneyRanges, Spend
<1>14. hkm'[AMM_POOL_ACCOUNT] =
          f[AMM_POOL_ACCOUNT] + (IF to = AMM_POOL_ACCOUNT THEN amount ELSE 0)
  BY <1>1, <1>2, <1>3
<1>15. MoneyRanges'
  BY <1>7, <1>11, <1>12, <1>13 DEF MoneyRanges, Amount
<1> QED BY <1>2, <1>14, <1>15

\* Receiving takes from the pool account what it has.
LEMMA ReceiveMoney ==
    ASSUME MoneyRanges, NEW from \in Users, NEW amount \in Nat,
           amount <= hkm[AMM_POOL_ACCOUNT], Receive(from, amount)
    PROVE  /\ MoneyRanges'
           /\ hkm'[AMM_POOL_ACCOUNT] = hkm[AMM_POOL_ACCOUNT] - amount
<1>1. BaseFee \in Nat /\ MAX_U64 \in Nat /\ MaxNonce \in Nat
      /\ from \in Accounts /\ AMM_POOL_ACCOUNT \in Accounts /\ from # AMM_POOL_ACCOUNT
  BY ExchangeAssumption DEF Accounts
<1>2. PICK f : f = hkm /\ f \in [Accounts -> Nat] /\ BaseFee <= f[from]
               /\ amount <= f[AMM_POOL_ACCOUNT]
               /\ hkm' = [f EXCEPT ![from] = @ - BaseFee + amount,
                                    ![AMM_POOL_ACCOUNT] = @ - amount]
  BY DEF MoneyRanges, Receive
<1>3. PICK m \in Nat, k \in Nat :
         m = f[from] - BaseFee + amount /\ k = f[AMM_POOL_ACCOUNT] - amount
  BY <1>1, <1>2
<1> DEFINE g == [f EXCEPT ![from] = m]
<1>4. g \in [Accounts -> Nat] /\ g[from] = m /\ \A b \in Accounts \ {from} : g[b] = f[b]
  BY <1>1, <1>2
<1>5. Total(g) = Total(f) - f[from] + m /\ g[AMM_POOL_ACCOUNT] = f[AMM_POOL_ACCOUNT]
  <2> HIDE DEF g
  <2> QED BY <1>1, <1>2, <1>4, AccountUpdate
<1>7. PICK e : e = hkm' /\ e \in [Accounts -> Nat] /\ e[AMM_POOL_ACCOUNT] = k
               /\ Total(e) = Total(g) - g[AMM_POOL_ACCOUNT] + k
  <2>1. PICK e : e = hkm'
    OBVIOUS
  <2>2. e \in [Accounts -> Nat] /\ e[AMM_POOL_ACCOUNT] = k
        /\ \A b \in Accounts \ {AMM_POOL_ACCOUNT} : e[b] = g[b]
    BY <1>1, <1>2, <1>3, <2>1
  <2>3. Total(e) = Total(g) - g[AMM_POOL_ACCOUNT] + k
    <3> HIDE DEF g
    <3> QED BY <1>1, <1>4, <2>2, AccountUpdate
  <2> QED BY <2>1, <2>2, <2>3
<1>8. Total(f) \in Nat /\ Total(g) \in Nat /\ f[from] \in Nat /\ f[AMM_POOL_ACCOUNT] \in Nat
  <2> HIDE DEF g
  <2> QED BY <1>1, <1>2, <1>4, TotalType, AccountsFinite
<1>9. Total(hkm') = Total(f) - BaseFee
  <2> HIDE DEF g
  <2> QED BY <1>1, <1>3, <1>4, <1>5, <1>7, <1>8
<1>10. PICK c \in Nat, o \in Nat :
          c = Total(f) /\ o = fee_pot /\ o <= MAX_U64 /\ c + o <= Endowment * Cardinality(Users)
  BY <1>2, <1>8, <1>1 DEF MoneyRanges, Amount
<1>11. fee_pot' \in Amount /\ fee_pot' <= o + BaseFee
  BY <1>1, <1>10 DEF Receive, Least, Amount
<1>12. Total(hkm') + fee_pot' <= Endowment * Cardinality(Users)
  <2>1. Endowment * Cardinality(Users) \in Nat
    BY ExchangeAssumption, FS_CardinalityType
  <2>2. fee_pot' \in Nat
    BY <1>1, <1>11 DEF Amount
  <2> QED BY <1>1, <1>9, <1>10, <1>11, <2>1, <2>2
<1>13. nonces' \in [Users -> 0 .. MaxNonce]
  BY <1>1 DEF MoneyRanges, Receive
<1>14. MoneyRanges'
  BY <1>7, <1>11, <1>12, <1>13 DEF MoneyRanges, Amount
<1> QED BY <1>2, <1>3, <1>7, <1>14

-----------------------------------------------------------------------------
(* Tokens and pools                                                        *)

\* Moving a token creates and destroys nothing.
LEMMA MoveHeld ==
    ASSUME TokenRanges, NEW t \in DOMAIN tokens, NEW from \in Accounts, NEW to \in Accounts,
           from = AMM_POOL_ACCOUNT => to # AMM_POOL_ACCOUNT,
           NEW amount \in Nat, Move(t, from, to, amount)
    PROVE  /\ held' \in [DOMAIN tokens -> [Accounts -> Nat]]
           /\ \A s \in DOMAIN tokens \ {t} : held'[s] = held[s]
           /\ Total(held'[t]) = Total(held[t])
           /\ held'[t][AMM_POOL_ACCOUNT] =
                  IF from = AMM_POOL_ACCOUNT THEN held[t][AMM_POOL_ACCOUNT] - amount
                  ELSE IF to = AMM_POOL_ACCOUNT THEN held[t][AMM_POOL_ACCOUNT] + amount
                  ELSE held[t][AMM_POOL_ACCOUNT]
<1>1. PICK T, h : T = DOMAIN tokens /\ h = held /\ h \in [T -> [Accounts -> Nat]]
                  /\ t \in T /\ amount <= h[t][from]
                  /\ held' = [h EXCEPT ![t][from] = @ - amount, ![t][to] = @ + amount]
  BY DEF TokenRanges, Move
<1>2. PICK g : g = held'
  OBVIOUS
<1>3. g \in [T -> [Accounts -> Nat]] /\ \A s \in T \ {t} : g[s] = h[s]
  BY <1>1, <1>2
<1>4. PICK e \in [Accounts -> Nat], f \in [Accounts -> Nat] : e = h[t] /\ f = g[t]
  BY <1>1, <1>3
<1>5. /\ \A b \in Accounts \ {from, to} : f[b] = e[b]
      /\ from = to => f[from] = e[from]
      /\ from # to => f[from] = e[from] - amount /\ f[to] = e[to] + amount
  BY <1>1, <1>2, <1>4
<1>6. Total(f) = Total(e)
  <2>1. CASE from = to
    <3>1. f = e
      BY <1>5, <2>1
    <3> QED BY <3>1
  <2>2. CASE from # to
    <3>1. PICK m \in Nat : m = e[from] - amount /\ m = f[from]
      BY <1>5, <2>2
    <3>2. PICK d : d = [e EXCEPT ![from] = m]
      OBVIOUS
    <3>3. d \in [Accounts -> Nat] /\ d[from] = m /\ \A b \in Accounts \ {from} : d[b] = e[b]
      BY <3>2
    <3>4. Total(d) = Total(e) - e[from] + m
      BY <3>3, AccountUpdate
    <3>5. \A b \in Accounts \ {to} : f[b] = d[b]
      BY <1>5, <3>1, <3>3
    <3>6. Total(f) = Total(d) - d[to] + f[to]
      BY <3>3, <3>5, AccountUpdate
    <3>7. d[to] = e[to] /\ f[to] = e[to] + amount
      BY <1>5, <2>2, <3>3
    <3>8. Total(d) \in Nat /\ Total(e) \in Nat /\ e[to] \in Nat /\ e[from] \in Nat
      BY <3>3, TotalType, AccountsFinite
    <3> QED BY <3>1, <3>4, <3>6, <3>7, <3>8
  <2> QED BY <2>1, <2>2
<1>7. f[AMM_POOL_ACCOUNT] =
          IF from = AMM_POOL_ACCOUNT THEN e[AMM_POOL_ACCOUNT] - amount
          ELSE IF to = AMM_POOL_ACCOUNT THEN e[AMM_POOL_ACCOUNT] + amount
          ELSE e[AMM_POOL_ACCOUNT]
  <2>1. AMM_POOL_ACCOUNT \in Accounts
    BY DEF Accounts
  <2> QED BY <1>5, <2>1
<1> QED BY <1>1, <1>2, <1>3, <1>4, <1>6, <1>7

LEMMA PoolsFinite ==
    ASSUME TokenRanges, PoolRanges
    PROVE  IsFiniteSet(DOMAIN pools)
<1>1. IsFiniteSet(1 .. MaxNonce)
  BY ExchangeAssumption, FS_Interval
<1>2. IsFiniteSet(TokenIds)
  BY <1>1, ExchangeAssumption, FS_Product DEF TokenIds
<1>3. DOMAIN pools \subseteq TokenIds
  BY DEF TokenRanges, PoolRanges
<1> QED BY <1>2, <1>3, FS_Subset

PoolRecord == [hkm : Amount, token : Amount, shares : Amount]

\* One pool is replaced by p and its providers' shares by l, with the money and
\* the tokens it takes.
PoolStep(t, p, l) ==
    /\ p \in PoolRecord /\ l \in [Users -> Nat]
    /\ pools' = With(pools, t, p)
    /\ lp_shares' = With(lp_shares, t, l)
    /\ tokens' = tokens
    /\ held' \in [DOMAIN tokens -> [Accounts -> Nat]]
    /\ \A s \in DOMAIN tokens \ {t} : held'[s] = held[s]
    /\ Total(held'[t]) = Total(held[t])
    /\ Total(l) + MINIMUM_LIQUIDITY = p.shares
    /\ hkm'[AMM_POOL_ACCOUNT] = hkm[AMM_POOL_ACCOUNT] + p.hkm - PoolOrNew(t).hkm
    /\ held'[t][AMM_POOL_ACCOUNT] = p.token
    /\ p.hkm > 0 /\ p.token > 0
    /\ p.shares * p.shares <= p.hkm * p.token

\* Such a step keeps the books.
LEMMA PoolStepKeepsBooks ==
    ASSUME BooksInv, MoneyRanges', NEW t \in DOMAIN tokens, NEW p, NEW l, PoolStep(t, p, l)
    PROVE  BooksInv'
<1> DEFINE P == DOMAIN pools
<1>1. /\ DOMAIN pools' = P \cup {t} /\ DOMAIN lp_shares' = P \cup {t} /\ DOMAIN lp_shares = P
      /\ pools'[t] = p /\ lp_shares'[t] = l
      /\ \A s \in P \ {t} : pools'[s] = pools[s] /\ lp_shares'[s] = lp_shares[s]
      /\ \A s \in P : pools[s] \in PoolRecord /\ lp_shares[s] \in [Users -> Nat]
  BY DEF PoolStep, With, BooksInv, PoolRanges, PoolRecord
<1>2. TokenRanges'
  <2>1. held' \in [DOMAIN tokens' -> [Accounts -> Nat]] /\ tokens' = tokens
    BY DEF PoolStep
  <2> QED BY <2>1 DEF BooksInv, TokenRanges
<1>3. PoolRanges'
  <2>1. P \cup {t} \subseteq DOMAIN tokens'
    BY DEF PoolStep, BooksInv, PoolRanges
  <2>2. pools' \in [P \cup {t} -> PoolRecord]
    <3>1. p \in PoolRecord
      BY DEF PoolStep
    <3>2. \A s \in P \cup {t} : pools'[s] \in PoolRecord
      BY <1>1, <3>1
    <3>3. pools' = [s \in P \cup {t} |-> pools'[s]]
      BY <1>1 DEF PoolStep, With
    <3> QED BY <3>2, <3>3
  <2>3. lp_shares' \in [P \cup {t} -> [Users -> Nat]]
    <3>1. l \in [Users -> Nat]
      BY DEF PoolStep
    <3>2. \A s \in P \cup {t} : lp_shares'[s] \in [Users -> Nat]
      BY <1>1, <3>1
    <3>3. lp_shares' = [s \in P \cup {t} |-> lp_shares'[s]]
      BY <1>1 DEF PoolStep, With
    <3> QED BY <3>2, <3>3
  <2> QED BY <1>1, <2>1, <2>2, <2>3 DEF PoolRanges, PoolRecord
<1>4. UnitsConserved'
  <2>1. \A s \in DOMAIN tokens' : Total(held'[s]) = tokens'[s]
    BY DEF PoolStep, BooksInv, UnitsConserved
  <2>2. \A s \in DOMAIN pools' : Total(lp_shares'[s]) + MINIMUM_LIQUIDITY = pools'[s].shares
    BY <1>1 DEF PoolStep, BooksInv, UnitsConserved
  <2> QED BY <2>1, <2>2 DEF UnitsConserved
<1>5. PoolsBacked'
  <2>1. IsFiniteSet(P)
    BY PoolsFinite DEF BooksInv
  <2>2. PICK f : f = HkmReserves
    OBVIOUS
  <2>3. PICK g : g = HkmReserves'
    OBVIOUS
  <2>4. f \in [P -> Nat] /\ (\A s \in P : f[s] = pools[s].hkm)
    BY <1>1, <2>2, ExchangeAssumption DEF HkmReserves, PoolRecord, Amount
  <2>5. g \in [P \cup {t} -> Nat] /\ g[t] = p.hkm /\ (\A s \in P \ {t} : g[s] = f[s])
    <3>1. g = [s \in P \cup {t} |-> pools'[s].hkm]
      BY <1>1, <2>3 DEF HkmReserves
    <3>2. p.hkm \in Nat
      BY ExchangeAssumption DEF PoolStep, PoolRecord, Amount
    <3> QED BY <1>1, <2>4, <3>1, <3>2
  <2>6. Total(f) \in Nat /\ p.hkm \in Nat
    BY <2>1, <2>4, <2>5, TotalType
  <2>7. Total(g) = Total(f) + p.hkm - PoolOrNew(t).hkm
    <3>1. CASE t \in P
      <4>1. g \in [P -> Nat]
        <5>1. P \cup {t} = P
          BY <3>1
        <5> QED BY <2>5, <5>1
      <4>2. Total(g) = Total(f) - f[t] + g[t]
        <5> HIDE DEF P
        <5> QED BY <2>1, <2>4, <2>5, <3>1, <4>1, TotalOneChange
      <4>3. f[t] = PoolOrNew(t).hkm /\ f[t] \in Nat
        BY <2>4, <3>1 DEF PoolOrNew
      <4> QED BY <2>5, <2>6, <4>2, <4>3
    <3>2. CASE t \notin P
      <4>1. PoolOrNew(t).hkm = 0
        BY <3>2 DEF PoolOrNew
      <4>2. \A s \in P : g[s] = f[s]
        BY <2>5, <3>2
      <4>3. Total(g) = Total(f) + g[t]
        <5>1. PICK Q : Q = P
          OBVIOUS
        <5>2. IsFiniteSet(Q) /\ t \notin Q /\ f \in [Q -> Nat] /\ g \in [Q \cup {t} -> Nat]
          BY <2>1, <2>4, <2>5, <3>2, <5>1
        <5>3. \A s \in Q : g[s] = f[s]
          BY <4>2, <5>1
        <5> HIDE DEF P
        <5> QED BY <5>2, <5>3, TotalExtend
      <4> QED BY <2>5, <2>6, <4>1, <4>3
    <3> QED BY <3>1, <3>2
  <2>8. hkm[AMM_POOL_ACCOUNT] = Total(f)
    BY <2>2 DEF BooksInv, PoolsBacked, HkmReserves
  <2>9. hkm'[AMM_POOL_ACCOUNT] = Total(g)
    BY <2>7, <2>8 DEF PoolStep
  <2>10. \A s \in DOMAIN tokens' :
            held'[s][AMM_POOL_ACCOUNT] = IF s \in DOMAIN pools' THEN pools'[s].token ELSE 0
    BY <1>1 DEF PoolStep, BooksInv, PoolsBacked
  <2> QED BY <2>3, <2>9, <2>10 DEF PoolsBacked, HkmReserves
<1>6. SharesUnderRoot' /\ ReservesNeverEmpty'
  BY <1>1 DEF PoolStep, BooksInv, SharesUnderRoot, ReservesNeverEmpty
<1> QED BY <1>2, <1>3, <1>4, <1>5, <1>6 DEF BooksInv

\* The body of ShareValueNeverDrops.
ValueKeeps ==
    \A t \in DOMAIN pools :
        pools'[t].hkm * pools'[t].token * pools[t].shares * pools[t].shares >=
        pools[t].hkm * pools[t].token * pools'[t].shares * pools'[t].shares

\* Pools that a step does not touch keep their value.
LEMMA SameValue ==
    ASSUME PoolRanges, NEW s \in DOMAIN pools, pools'[s] = pools[s]
    PROVE  pools'[s].hkm * pools'[s].token * pools[s].shares * pools[s].shares >=
           pools[s].hkm * pools[s].token * pools'[s].shares * pools'[s].shares
<1>1. ASSUME NEW a \in Nat, NEW b \in Nat, NEW c \in Nat PROVE a * b * c * c >= a * b * c * c
  <2>1. a * b * c * c \in Nat
    OBVIOUS
  <2> QED BY <2>1
<1>2. pools[s].hkm \in Nat /\ pools[s].token \in Nat /\ pools[s].shares \in Nat
  BY ExchangeAssumption DEF PoolRanges, Amount
<1> QED BY <1>1, <1>2

LEMMA OthersKeepValue ==
    ASSUME PoolRanges, NEW t \in DOMAIN pools,
           \A s \in DOMAIN pools \ {t} : pools'[s] = pools[s],
           pools'[t].hkm * pools'[t].token * pools[t].shares * pools[t].shares >=
           pools[t].hkm * pools[t].token * pools'[t].shares * pools'[t].shares
    PROVE  ValueKeeps
BY SameValue DEF ValueKeeps

-----------------------------------------------------------------------------
(* Every action keeps the books                                            *)

LEMMA AmountType ==
    ASSUME NEW amount \in Amounts
    PROVE  amount \in Nat /\ amount > 0 /\ amount \in Amount
BY ExchangeAssumption DEF Amount

\* A pool has something of everything, and nobody owns all of its shares.
LEMMA PoolFacts ==
    ASSUME BooksInv, NEW t \in DOMAIN pools
    PROVE  /\ t \in DOMAIN tokens
           /\ pools[t] \in Reserves /\ pools[t] \in PoolRecord
           /\ pools[t].hkm <= hkm[AMM_POOL_ACCOUNT] /\ hkm[AMM_POOL_ACCOUNT] \in Nat
           /\ held[t][AMM_POOL_ACCOUNT] = pools[t].token
           /\ lp_shares[t] \in [Users -> Nat] /\ Total(lp_shares[t]) \in Nat
           /\ \A u \in Users : lp_shares[t][u] < pools[t].shares
           /\ pools[t].shares * pools[t].shares <= pools[t].hkm * pools[t].token
<1>1. t \in DOMAIN tokens /\ pools[t] \in PoolRecord /\ lp_shares[t] \in [Users -> Nat]
  BY DEF BooksInv, PoolRanges, PoolRecord
<1>2. Total(lp_shares[t]) \in Nat /\ \A u \in Users : lp_shares[t][u] <= Total(lp_shares[t])
  BY <1>1, ExchangeAssumption, TotalType, TotalBound
<1>3. Total(lp_shares[t]) + MINIMUM_LIQUIDITY = pools[t].shares
  BY DEF BooksInv, UnitsConserved
<1>4. MINIMUM_LIQUIDITY \in Nat /\ MINIMUM_LIQUIDITY > 0
  BY ExchangeAssumption
<1>5. pools[t].hkm > 0 /\ pools[t].token > 0
  BY DEF BooksInv, ReservesNeverEmpty
<1>6. pools[t].hkm \in Nat /\ pools[t].token \in Nat /\ pools[t].shares \in Nat
  BY <1>1, ExchangeAssumption DEF PoolRecord, Amount
<1>7. pools[t].shares > 0 /\ \A u \in Users : lp_shares[t][u] < pools[t].shares
  BY <1>1, <1>2, <1>3, <1>4, <1>6
<1>8. pools[t] \in Reserves
  <2>1. pools[t] = [hkm |-> pools[t].hkm, token |-> pools[t].token, shares |-> pools[t].shares]
    BY <1>1 DEF PoolRecord
  <2> QED BY <1>5, <1>6, <1>7, <2>1 DEF Reserves, Positive
<1>9. pools[t].hkm <= hkm[AMM_POOL_ACCOUNT] /\ hkm[AMM_POOL_ACCOUNT] \in Nat
  <2>1. PICK P, f : P = DOMAIN pools /\ f = [s \in P |-> pools[s].hkm]
    OBVIOUS
  <2>2. f \in [P -> Nat] /\ t \in P /\ f[t] = pools[t].hkm
    BY <2>1, ExchangeAssumption DEF BooksInv, PoolRanges, Amount
  <2>3. IsFiniteSet(P)
    BY <2>1, PoolsFinite DEF BooksInv
  <2>4. f[t] <= Total(f) /\ Total(f) \in Nat
    BY <2>2, <2>3, TotalType, TotalBound
  <2>5. hkm[AMM_POOL_ACCOUNT] = Total(f)
    BY <2>1 DEF BooksInv, PoolsBacked
  <2> QED BY <2>2, <2>4, <2>5
<1>10. held[t][AMM_POOL_ACCOUNT] = pools[t].token
  BY <1>1 DEF BooksInv, PoolsBacked
<1>11. pools[t].shares * pools[t].shares <= pools[t].hkm * pools[t].token
  BY DEF BooksInv, SharesUnderRoot
<1> QED BY <1>1, <1>2, <1>7, <1>8, <1>9, <1>10, <1>11

\* Paying only the fee.
LEMMA FeeMoney ==
    ASSUME BooksInv, NEW from \in Users, Spend(from, from, 0)
    PROVE  MoneyRanges' /\ hkm'[AMM_POOL_ACCOUNT] = hkm[AMM_POOL_ACCOUNT]
<1>1. MoneyRanges /\ from \in Accounts /\ from # AMM_POOL_ACCOUNT /\ 0 \in Nat
  BY ExchangeAssumption DEF BooksInv, Accounts
<1>2. MoneyRanges' /\ hkm'[AMM_POOL_ACCOUNT] = hkm[AMM_POOL_ACCOUNT] + 0
  BY <1>1, SpendMoney
<1>3. hkm[AMM_POOL_ACCOUNT] \in Nat
  BY <1>1 DEF MoneyRanges, Accounts
<1> QED BY <1>2, <1>3

\* A step that leaves the pools and the pool account's holdings alone.
LEMMA PoolsUntouched ==
    ASSUME BooksInv, UNCHANGED <<pools, lp_shares>>,
           hkm'[AMM_POOL_ACCOUNT] = hkm[AMM_POOL_ACCOUNT],
           DOMAIN tokens \subseteq DOMAIN tokens',
           \A t \in DOMAIN tokens : held'[t][AMM_POOL_ACCOUNT] = held[t][AMM_POOL_ACCOUNT],
           \A t \in DOMAIN tokens' \ DOMAIN tokens : held'[t][AMM_POOL_ACCOUNT] = 0,
           MoneyRanges', TokenRanges',
           \A t \in DOMAIN tokens' : Total(held'[t]) = tokens'[t]
    PROVE  BooksInv' /\ ValueKeeps
<1>1. PoolRanges'
  BY DEF BooksInv, PoolRanges
<1>2. UnitsConserved'
  BY DEF BooksInv, UnitsConserved
<1>3. PoolsBacked'
  BY DEF BooksInv, PoolsBacked, PoolRanges
<1>4. SharesUnderRoot' /\ ReservesNeverEmpty'
  BY DEF BooksInv, SharesUnderRoot, ReservesNeverEmpty
<1>5. ValueKeeps
  BY SameValue DEF BooksInv, ValueKeeps
<1> QED BY <1>1, <1>2, <1>3, <1>4, <1>5 DEF BooksInv

LEMMA TokenCreateKeepsBooks ==
    ASSUME BooksInv, NEW from \in Users, NEW amount \in Amounts, TokenCreate(from, amount)
    PROVE  BooksInv' /\ ValueKeeps
<1>1. PICK t, T : /\ t = <<from, nonces[from] + 1>> /\ T = DOMAIN tokens
                  /\ t \notin T
                  /\ Spend(from, from, 0)
                  /\ tokens' = With(tokens, t, amount)
                  /\ held' = With(held, t, [a \in Accounts |-> IF a = from THEN amount ELSE 0])
                  /\ UNCHANGED <<pools, lp_shares>>
  BY DEF TokenCreate
<1>2. amount \in Nat /\ amount \in Amount
  BY AmountType
<1>3. MoneyRanges' /\ hkm'[AMM_POOL_ACCOUNT] = hkm[AMM_POOL_ACCOUNT]
  BY <1>1, FeeMoney
<1>4. t \in TokenIds
  <2>1. nonces[from] < MaxNonce /\ nonces[from] \in 0 .. MaxNonce /\ MaxNonce \in Nat
    BY <1>1, ExchangeAssumption DEF Spend, BooksInv, MoneyRanges
  <2> QED BY <1>1, <2>1 DEF TokenIds
<1>5. PICK l : l = [a \in Accounts |-> IF a = from THEN amount ELSE 0]
  OBVIOUS
<1>6. l \in [Accounts -> Nat] /\ Total(l) = amount /\ l[AMM_POOL_ACCOUNT] = 0
  <2>1. from \in Accounts /\ AMM_POOL_ACCOUNT \in Accounts /\ from # AMM_POOL_ACCOUNT
    BY ExchangeAssumption DEF Accounts
  <2>2. l \in [Accounts -> Nat] /\ (\A a \in Accounts \ {from} : l[a] = 0) /\ l[from] = amount
    BY <1>2, <1>5, <2>1
  <2>3. Total(l) = l[from]
    BY <2>1, <2>2, TotalSingle
  <2> QED BY <2>1, <2>2, <2>3
<1>7. /\ tokens \in [T -> Amount] /\ held \in [T -> [Accounts -> Nat]] /\ T \subseteq TokenIds
  BY <1>1 DEF BooksInv, TokenRanges
<1>8. /\ DOMAIN tokens' = T \cup {t} /\ tokens' \in [T \cup {t} -> Amount] /\ tokens'[t] = amount
      /\ \A s \in T : tokens'[s] = tokens[s]
  BY <1>1, <1>2, <1>7 DEF With
<1>9. /\ held' \in [T \cup {t} -> [Accounts -> Nat]] /\ held'[t] = l
      /\ \A s \in T : held'[s] = held[s]
  BY <1>1, <1>5, <1>6, <1>7 DEF With
<1>10. TokenRanges'
  BY <1>4, <1>7, <1>8, <1>9 DEF TokenRanges
<1>11. \A s \in DOMAIN tokens' : Total(held'[s]) = tokens'[s]
  BY <1>1, <1>6, <1>8, <1>9 DEF BooksInv, UnitsConserved
<1>12. /\ \A s \in DOMAIN tokens : held'[s][AMM_POOL_ACCOUNT] = held[s][AMM_POOL_ACCOUNT]
       /\ \A s \in DOMAIN tokens' \ DOMAIN tokens : held'[s][AMM_POOL_ACCOUNT] = 0
       /\ DOMAIN tokens \subseteq DOMAIN tokens'
  BY <1>1, <1>6, <1>8, <1>9
<1> QED BY <1>1, <1>3, <1>10, <1>11, <1>12, PoolsUntouched

LEMMA TokenTransferKeepsBooks ==
    ASSUME BooksInv, NEW from \in Users, NEW amount \in Amounts, NEW t \in DOMAIN tokens,
           NEW to \in Accounts, TokenTransfer(from, t, to, amount)
    PROVE  BooksInv' /\ ValueKeeps
<1>1. /\ to \in Users /\ from \in Accounts /\ amount \in Nat
      /\ from # AMM_POOL_ACCOUNT /\ to # AMM_POOL_ACCOUNT
      /\ Spend(from, from, 0) /\ Move(t, from, to, amount)
      /\ UNCHANGED <<tokens, pools, lp_shares>>
  BY AmountType, ExchangeAssumption DEF TokenTransfer, Recipients, Accounts
<1>2. MoneyRanges' /\ hkm'[AMM_POOL_ACCOUNT] = hkm[AMM_POOL_ACCOUNT]
  BY <1>1, FeeMoney
<1>3. /\ held' \in [DOMAIN tokens -> [Accounts -> Nat]]
      /\ \A s \in DOMAIN tokens \ {t} : held'[s] = held[s]
      /\ Total(held'[t]) = Total(held[t])
      /\ held'[t][AMM_POOL_ACCOUNT] = held[t][AMM_POOL_ACCOUNT]
  BY <1>1, MoveHeld DEF BooksInv
<1>4. TokenRanges'
  BY <1>1, <1>3 DEF BooksInv, TokenRanges
<1>5. \A s \in DOMAIN tokens' : Total(held'[s]) = tokens'[s]
  BY <1>1, <1>3 DEF BooksInv, UnitsConserved
<1>6. \A s \in DOMAIN tokens : held'[s][AMM_POOL_ACCOUNT] = held[s][AMM_POOL_ACCOUNT]
  BY <1>3
<1> QED BY <1>1, <1>2, <1>4, <1>5, <1>6, PoolsUntouched

LEMMA TokenBurnKeepsBooks ==
    ASSUME BooksInv, NEW from \in Users, NEW amount \in Amounts, NEW t \in DOMAIN tokens,
           TokenBurn(from, t, amount)
    PROVE  BooksInv' /\ ValueKeeps
<1>1. /\ from \in Accounts /\ amount \in Nat /\ from # AMM_POOL_ACCOUNT
      /\ Spend(from, from, 0)
      /\ amount <= held[t][from]
      /\ held' = [held EXCEPT ![t][from] = @ - amount]
      /\ tokens' = [tokens EXCEPT ![t] = Minus(@, amount)]
      /\ UNCHANGED <<pools, lp_shares>>
  BY AmountType, ExchangeAssumption DEF TokenBurn, Accounts
<1>2. MoneyRanges' /\ hkm'[AMM_POOL_ACCOUNT] = hkm[AMM_POOL_ACCOUNT]
  BY <1>1, FeeMoney
<1>3. PICK T, h : T = DOMAIN tokens /\ h = held /\ h \in [T -> [Accounts -> Nat]] /\ t \in T
                  /\ tokens \in [T -> Amount] /\ T \subseteq TokenIds
  BY DEF BooksInv, TokenRanges
<1>4. PICK g : g = held'
  OBVIOUS
<1>5. g \in [T -> [Accounts -> Nat]] /\ \A s \in T \ {t} : g[s] = h[s]
  BY <1>1, <1>3, <1>4
<1>6. PICK e \in [Accounts -> Nat], f \in [Accounts -> Nat] :
         /\ e = h[t] /\ f = g[t]
         /\ f[from] = e[from] - amount /\ \A b \in Accounts \ {from} : f[b] = e[b]
  <2>1. h[t] \in [Accounts -> Nat] /\ g[t] \in [Accounts -> Nat]
    BY <1>3, <1>5
  <2>2. g[t][from] = h[t][from] - amount /\ \A b \in Accounts \ {from} : g[t][b] = h[t][b]
    BY <1>1, <1>3, <1>4
  <2> QED BY <2>1, <2>2
<1>7. Total(e) = tokens[t] /\ Total(e) \in Nat /\ e[from] <= Total(e) /\ e[from] \in Nat
  <2>1. Total(e) = tokens[t]
    BY <1>3, <1>6 DEF BooksInv, UnitsConserved
  <2> QED BY <1>1, <1>6, <2>1, TotalType, TotalBound, AccountsFinite
<1>8. Total(f) = Minus(tokens[t], amount)
  <2>1. Total(f) = Total(e) - e[from] + f[from]
    BY <1>1, <1>6, AccountUpdate
  <2>2. amount <= e[from]
    BY <1>1, <1>3, <1>6
  <2> QED BY <1>1, <1>6, <1>7, <2>1, <2>2 DEF Minus
<1>9. Minus(tokens[t], amount) \in Amount
  <2>1. tokens[t] \in Amount
    BY <1>3
  <2> QED BY <1>1, <2>1, ExchangeAssumption DEF Minus, Amount
<1>10. DOMAIN tokens' = T /\ tokens' \in [T -> Amount] /\ tokens'[t] = Minus(tokens[t], amount)
       /\ \A s \in T \ {t} : tokens'[s] = tokens[s]
  BY <1>1, <1>3, <1>9
<1>11. TokenRanges'
  BY <1>3, <1>4, <1>5, <1>10 DEF TokenRanges
<1>12. \A s \in DOMAIN tokens' : Total(held'[s]) = tokens'[s]
  BY <1>3, <1>4, <1>5, <1>6, <1>8, <1>10 DEF BooksInv, UnitsConserved
<1>13. \A s \in DOMAIN tokens : held'[s][AMM_POOL_ACCOUNT] = held[s][AMM_POOL_ACCOUNT]
  BY <1>1, <1>3, <1>4, <1>5, <1>6 DEF Accounts
<1> QED BY <1>1, <1>2, <1>3, <1>10, <1>11, <1>12, <1>13, PoolsUntouched

\* A function that differs in one place.
LEMMA WithUpdate ==
    ASSUME NEW S, NEW D, NEW f \in [D -> S], NEW g \in [D -> S], NEW t \in D,
           \A x \in D \ {t} : g[x] = f[x]
    PROVE  g = With(f, t, g[t])
<1>1. D \cup {t} = D /\ DOMAIN f = D
  OBVIOUS
<1> QED BY <1>1 DEF With

\* The pool of t becomes p and its shares l, the money and the tokens moving
\* as the reserves do, and no value lost per share.
LEMMA PoolTrades ==
    ASSUME BooksInv, MoneyRanges', NEW t \in DOMAIN pools, tokens' = tokens,
           NEW p \in PoolRecord, NEW l \in [Users -> Nat],
           pools' = With(pools, t, p), lp_shares' = With(lp_shares, t, l),
           Total(l) + MINIMUM_LIQUIDITY = p.shares,
           hkm'[AMM_POOL_ACCOUNT] = hkm[AMM_POOL_ACCOUNT] + p.hkm - pools[t].hkm,
           held' \in [DOMAIN tokens -> [Accounts -> Nat]],
           \A s \in DOMAIN tokens \ {t} : held'[s] = held[s],
           Total(held'[t]) = Total(held[t]),
           held'[t][AMM_POOL_ACCOUNT] = p.token,
           p.hkm > 0, p.token > 0,
           p.hkm * p.token * pools[t].shares * pools[t].shares >=
           pools[t].hkm * pools[t].token * p.shares * p.shares
    PROVE  BooksInv' /\ ValueKeeps
<1>1. t \in DOMAIN tokens /\ pools[t] \in Reserves
      /\ pools[t].shares * pools[t].shares <= pools[t].hkm * pools[t].token
  BY PoolFacts
<1>2. /\ pools[t].hkm \in Nat /\ pools[t].token \in Nat
      /\ pools[t].shares \in Nat /\ pools[t].shares > 0
  BY <1>1 DEF Reserves, Positive
<1>3. p.hkm \in Nat /\ p.token \in Nat /\ p.shares \in Nat
  BY ExchangeAssumption DEF PoolRecord, Amount
<1>4. p.shares * p.shares <= p.hkm * p.token
  <2>1. PICK h \in Nat, k \in Nat, n \in Nat :
           h = pools[t].hkm /\ k = pools[t].token /\ n = pools[t].shares
    BY <1>2
  <2>2. PICK h2 \in Nat, k2 \in Nat, n2 \in Nat :
           h2 = p.hkm /\ k2 = p.token /\ n2 = p.shares
    BY <1>3
  <2>3. n > 0 /\ n * n <= h * k
    BY <1>1, <1>2, <2>1
  <2>4. KeepsValue(h, k, n, h2, k2, n2)
    BY <1>2, <1>3, <2>1, <2>2 DEF KeepsValue
  <2>5. n2 * n2 <= h2 * k2
    BY <2>3, <2>4, RootKept
  <2> QED BY <2>2, <2>5
<1>5. PoolOrNew(t) = pools[t]
  BY DEF PoolOrNew
<1>6. PoolStep(t, p, l)
  BY <1>4, <1>5 DEF PoolStep
<1>7. BooksInv'
  BY <1>1, <1>6, PoolStepKeepsBooks
<1>8. pools'[t] = p /\ \A s \in DOMAIN pools \ {t} : pools'[s] = pools[s]
  BY DEF With
<1>9. ValueKeeps
  BY <1>8, OthersKeepValue DEF BooksInv
<1> QED BY <1>7, <1>9

LEMMA RemoveLiquidityKeepsBooks ==
    ASSUME BooksInv, NEW from \in Users, NEW x \in Amounts, NEW t \in DOMAIN pools,
           RemoveLiquidity(from, t, x)
    PROVE  BooksInv' /\ ValueKeeps
<1>1. PICK h \in Nat \ {0}, k \in Nat \ {0}, n \in Nat \ {0} :
         /\ pools[t] = [hkm |-> h, token |-> k, shares |-> n]
         /\ h <= MAX_U64 /\ k <= MAX_U64 /\ n <= MAX_U64
  BY PoolFacts, ExchangeAssumption DEF Reserves, Positive, PoolRecord, Amount
<1>2. PICK a, b : a = Part(x, h, n) /\ b = Part(x, k, n)
  OBVIOUS
<1>3. /\ x <= lp_shares[t][from]
      /\ Receive(from, a) /\ Move(t, AMM_POOL_ACCOUNT, from, b)
      /\ lp_shares' = [lp_shares EXCEPT ![t][from] = @ - x]
      /\ pools' = [pools EXCEPT ![t].hkm = @ - a, ![t].token = @ - b, ![t].shares = @ - x]
      /\ tokens' = tokens
  BY <1>1, <1>2 DEF RemoveLiquidity
<1>4. /\ x \in Nat /\ from \in Accounts /\ from # AMM_POOL_ACCOUNT
      /\ AMM_POOL_ACCOUNT \in Accounts /\ MAX_U64 \in Nat /\ MINIMUM_LIQUIDITY \in Nat
      /\ IsFiniteSet(Users)
  BY AmountType, ExchangeAssumption DEF Accounts
<1>5. /\ t \in DOMAIN tokens
      /\ h <= hkm[AMM_POOL_ACCOUNT] /\ hkm[AMM_POOL_ACCOUNT] \in Nat
      /\ held[t][AMM_POOL_ACCOUNT] = k
      /\ lp_shares[t] \in [Users -> Nat] /\ Total(lp_shares[t]) \in Nat
      /\ lp_shares[t][from] < n
  BY <1>1, PoolFacts
<1>6. lp_shares[t][from] \in Nat /\ x < n
  BY <1>3, <1>4, <1>5
<1>7. /\ a \in Nat /\ a < h /\ (h - a) * n >= h * (n - x)
      /\ b \in Nat /\ b < k /\ (k - b) * n >= k * (n - x)
  BY <1>2, <1>4, <1>6, PartIsFair
<1>8. MoneyRanges' /\ hkm'[AMM_POOL_ACCOUNT] = hkm[AMM_POOL_ACCOUNT] - a
  BY <1>3, <1>5, <1>7, ReceiveMoney DEF BooksInv
<1>9. /\ held' \in [DOMAIN tokens -> [Accounts -> Nat]]
      /\ \A s \in DOMAIN tokens \ {t} : held'[s] = held[s]
      /\ Total(held'[t]) = Total(held[t])
      /\ held'[t][AMM_POOL_ACCOUNT] = k - b
  BY <1>3, <1>4, <1>5, <1>7, MoveHeld DEF BooksInv
<1>10. PICK p : p = [hkm |-> h - a, token |-> k - b, shares |-> n - x]
  OBVIOUS
<1>11. p \in PoolRecord /\ p.hkm > 0 /\ p.token > 0
  BY <1>1, <1>4, <1>6, <1>7, <1>10 DEF PoolRecord, Amount
<1>12. pools' = With(pools, t, p)
  <2>1. PICK D, f, r : D = DOMAIN pools /\ f = pools /\ r = f[t] /\ t \in D
                       /\ f \in [D -> PoolRecord]
    BY DEF BooksInv, PoolRanges, PoolRecord
  <2>2. PICK g : g = pools'
    OBVIOUS
  <2>3. r.hkm = h /\ r.token = k /\ r.shares = n /\ r \in PoolRecord
    BY <1>1, <2>1
  <2>4. g[t] = [r EXCEPT !.hkm = @ - a, !.token = @ - b, !.shares = @ - x]
    BY <1>3, <2>1, <2>2
  <2>5. {h - a, k - b, n - x} \subseteq Amount
    BY <1>10, <1>11 DEF PoolRecord
  <2>6. g[t] \in PoolRecord /\ g[t].hkm = h - a /\ g[t].token = k - b /\ g[t].shares = n - x
    BY <2>3, <2>4, <2>5 DEF PoolRecord
  <2>7. DOMAIN g = D /\ \A s \in D \ {t} : g[s] = f[s]
    BY <1>3, <2>1, <2>2
  <2>8. g = [s \in D |-> g[s]]
    BY <1>3, <2>1, <2>2
  <2>9. g \in [D -> PoolRecord]
    BY <2>1, <2>6, <2>7, <2>8
  <2>10. g[t] = p
    BY <1>10, <2>6 DEF PoolRecord
  <2>11. g = With(f, t, g[t])
    BY <2>1, <2>7, <2>9, WithUpdate
  <2> QED BY <2>1, <2>2, <2>10, <2>11
<1>13. PICK m \in Nat : m = lp_shares[t][from] - x
  BY <1>3, <1>4, <1>6
<1>14. PICK l : l = [lp_shares[t] EXCEPT ![from] = m]
  OBVIOUS
<1>15. l \in [Users -> Nat] /\ Total(l) = Total(lp_shares[t]) - lp_shares[t][from] + m
  BY <1>4, <1>5, <1>13, <1>14, TotalUpdate
<1>16. lp_shares' = With(lp_shares, t, l)
  <2>1. PICK D, f : D = DOMAIN lp_shares /\ f = lp_shares /\ t \in D /\ f \in [D -> [Users -> Nat]]
    BY DEF BooksInv, PoolRanges
  <2>2. PICK g : g = lp_shares'
    OBVIOUS
  <2>3. g \in [D -> [Users -> Nat]] /\ g[t] = l /\ \A s \in D \ {t} : g[s] = f[s]
    <3>1. g = [f EXCEPT ![t][from] = @ - x] /\ f[t] \in [Users -> Nat] /\ f[t][from] - x = m
      BY <1>3, <1>13, <2>1, <2>2
    <3>2. g \in [D -> [Users -> Nat]] /\ \A s \in D \ {t} : g[s] = f[s]
      BY <2>1, <3>1
    <3>3. g[t] = [f[t] EXCEPT ![from] = m]
      BY <2>1, <3>1
    <3> QED BY <1>14, <2>1, <3>2, <3>3
  <2>4. g = With(f, t, g[t])
    <3>1. D \cup {t} = D /\ DOMAIN f = D
      BY <2>1
    <3> QED BY <2>1, <2>3, <3>1 DEF With
  <2> QED BY <2>1, <2>2, <2>3, <2>4
<1>17. Total(l) + MINIMUM_LIQUIDITY = p.shares
  <2>1. Total(lp_shares[t]) + MINIMUM_LIQUIDITY = n
    BY <1>1 DEF BooksInv, UnitsConserved
  <2> QED BY <1>4, <1>5, <1>6, <1>10, <1>13, <1>15, <2>1
<1>18. p.hkm * p.token * pools[t].shares * pools[t].shares >=
       pools[t].hkm * pools[t].token * p.shares * p.shares
  <2>1. h - a \in Nat /\ k - b \in Nat /\ n - x \in Nat
    BY <1>4, <1>6, <1>7
  <2>2. (h - a) * (k - b) * n * n >= h * k * (n - x) * (n - x)
    BY <1>7, <2>1, ValueKept
  <2> QED BY <1>1, <1>10, <2>2
<1>19. hkm'[AMM_POOL_ACCOUNT] = hkm[AMM_POOL_ACCOUNT] + p.hkm - pools[t].hkm
  BY <1>1, <1>5, <1>7, <1>8, <1>10
<1>20. held'[t][AMM_POOL_ACCOUNT] = p.token
  BY <1>9, <1>10
<1> QED BY <1>3, <1>8, <1>9, <1>11, <1>12, <1>15, <1>16, <1>17, <1>18, <1>19, <1>20, PoolTrades

\* The shares stay the same, so the product decides.
LEMMA SameShares ==
    ASSUME NEW p \in Nat, NEW q \in Nat, NEW n \in Nat, p >= q
    PROVE  p * n * n >= q * n * n
<1>1. p * n \in Nat /\ q * n \in Nat /\ p * n >= q * n
  OBVIOUS
<1>2. ASSUME NEW x \in Nat, NEW y \in Nat, x >= y PROVE x * n >= y * n
  BY <1>2
<1> QED BY <1>1, <1>2

LEMMA SwapHkmKeepsBooks ==
    ASSUME BooksInv, NEW from \in Users, NEW a \in Amounts, NEW t \in DOMAIN pools,
           SwapHkm(from, t, a)
    PROVE  BooksInv' /\ ValueKeeps
<1>1. PICK h \in Nat \ {0}, k \in Nat \ {0}, n \in Nat \ {0} :
         /\ pools[t] = [hkm |-> h, token |-> k, shares |-> n]
         /\ h <= MAX_U64 /\ k <= MAX_U64 /\ n <= MAX_U64
  BY PoolFacts, ExchangeAssumption DEF Reserves, Positive, PoolRecord, Amount
<1>2. PICK out : out = SwapOutput(a, h, k)
  OBVIOUS
<1>3. /\ out > 0 /\ out < k
      /\ Spend(from, AMM_POOL_ACCOUNT, a)
      /\ Move(t, AMM_POOL_ACCOUNT, from, out)
      /\ h + a <= MAX_U64
      /\ pools' = [pools EXCEPT ![t].hkm = @ + a, ![t].token = @ - out]
      /\ tokens' = tokens /\ lp_shares' = lp_shares
  BY <1>1, <1>2 DEF SwapHkm, MayLeave
<1>4. /\ a \in Nat /\ from \in Accounts /\ from # AMM_POOL_ACCOUNT
      /\ AMM_POOL_ACCOUNT \in Accounts /\ MAX_U64 \in Nat
  BY AmountType, ExchangeAssumption DEF Accounts
<1>5. /\ t \in DOMAIN tokens
      /\ h <= hkm[AMM_POOL_ACCOUNT] /\ hkm[AMM_POOL_ACCOUNT] \in Nat
      /\ held[t][AMM_POOL_ACCOUNT] = k
      /\ lp_shares[t] \in [Users -> Nat]
  BY <1>1, PoolFacts
<1>6. out \in Nat /\ (h + a) * (k - out) >= h * k
  BY <1>2, <1>3, <1>4, SwapKeepsProduct
<1>7. MoneyRanges' /\ hkm'[AMM_POOL_ACCOUNT] = hkm[AMM_POOL_ACCOUNT] + a
  BY <1>3, <1>4, SpendMoney DEF BooksInv
<1>8. /\ held' \in [DOMAIN tokens -> [Accounts -> Nat]]
      /\ \A s \in DOMAIN tokens \ {t} : held'[s] = held[s]
      /\ Total(held'[t]) = Total(held[t])
      /\ held'[t][AMM_POOL_ACCOUNT] = k - out
  BY <1>3, <1>4, <1>5, <1>6, MoveHeld DEF BooksInv
<1>9. PICK p : p = [hkm |-> h + a, token |-> k - out, shares |-> n]
  OBVIOUS
<1>10. p \in PoolRecord /\ p.hkm > 0 /\ p.token > 0
  BY <1>1, <1>3, <1>4, <1>6, <1>9 DEF PoolRecord, Amount
<1>11. pools' = With(pools, t, p)
  <2>1. PICK D, f, r : D = DOMAIN pools /\ f = pools /\ r = f[t] /\ t \in D
                       /\ f \in [D -> PoolRecord]
    BY DEF BooksInv, PoolRanges, PoolRecord
  <2>2. PICK g : g = pools'
    OBVIOUS
  <2>3. r.hkm = h /\ r.token = k /\ r.shares = n /\ r \in PoolRecord
    BY <1>1, <2>1
  <2>4. g[t] = [r EXCEPT !.hkm = @ + a, !.token = @ - out]
    BY <1>3, <2>1, <2>2
  <2>5. {h + a, k - out, n} \subseteq Amount
    BY <1>9, <1>10 DEF PoolRecord
  <2>6. g[t] \in PoolRecord /\ g[t].hkm = h + a /\ g[t].token = k - out /\ g[t].shares = n
    BY <2>3, <2>4, <2>5 DEF PoolRecord
  <2>7. DOMAIN g = D /\ \A s \in D \ {t} : g[s] = f[s]
    BY <1>3, <2>1, <2>2
  <2>8. g = [s \in D |-> g[s]]
    BY <1>3, <2>1, <2>2
  <2>9. g \in [D -> PoolRecord]
    BY <2>1, <2>6, <2>7, <2>8
  <2>10. g[t] = p
    BY <1>9, <2>6 DEF PoolRecord
  <2>11. g = With(f, t, g[t])
    BY <2>1, <2>7, <2>9, WithUpdate
  <2> QED BY <2>1, <2>2, <2>10, <2>11
<1>12. lp_shares' = With(lp_shares, t, lp_shares[t])
  <2>1. PICK D, f : D = DOMAIN lp_shares /\ f = lp_shares /\ t \in D /\ f \in [D -> [Users -> Nat]]
    BY DEF BooksInv, PoolRanges
  <2>2. f = With(f, t, f[t])
    <3>1. D \cup {t} = D /\ DOMAIN f = D
      BY <2>1
    <3> QED BY <2>1, <3>1 DEF With
  <2> QED BY <1>3, <2>1, <2>2
<1>13. Total(lp_shares[t]) + MINIMUM_LIQUIDITY = p.shares
  BY <1>1, <1>9 DEF BooksInv, UnitsConserved
<1>14. p.hkm * p.token * pools[t].shares * pools[t].shares >=
       pools[t].hkm * pools[t].token * p.shares * p.shares
  <2>1. PICK before \in Nat, after \in Nat :
           before = h * k /\ after = p.hkm * p.token /\ after >= before
    BY <1>1, <1>3, <1>4, <1>6, <1>9
  <2>2. after * n * n >= before * n * n
    BY <2>1, SameShares
  <2> QED BY <1>1, <1>9, <2>1, <2>2
<1>15. hkm'[AMM_POOL_ACCOUNT] = hkm[AMM_POOL_ACCOUNT] + p.hkm - pools[t].hkm
  BY <1>1, <1>4, <1>5, <1>6, <1>7, <1>9
<1>16. held'[t][AMM_POOL_ACCOUNT] = p.token
  BY <1>8, <1>9
<1> QED BY <1>3, <1>5, <1>7, <1>8, <1>10, <1>11, <1>12, <1>13, <1>14, <1>15, <1>16, PoolTrades

LEMMA SwapTokenKeepsBooks ==
    ASSUME BooksInv, NEW from \in Users, NEW a \in Amounts, NEW t \in DOMAIN pools,
           SwapToken(from, t, a)
    PROVE  BooksInv' /\ ValueKeeps
<1>1. PICK h \in Nat \ {0}, k \in Nat \ {0}, n \in Nat \ {0} :
         /\ pools[t] = [hkm |-> h, token |-> k, shares |-> n]
         /\ h <= MAX_U64 /\ k <= MAX_U64 /\ n <= MAX_U64
  BY PoolFacts, ExchangeAssumption DEF Reserves, Positive, PoolRecord, Amount
<1>2. PICK out : out = SwapOutput(a, k, h)
  OBVIOUS
<1>3. /\ out > 0 /\ out < h
      /\ Receive(from, out)
      /\ Move(t, from, AMM_POOL_ACCOUNT, a)
      /\ k + a <= MAX_U64
      /\ pools' = [pools EXCEPT ![t].token = @ + a, ![t].hkm = @ - out]
      /\ tokens' = tokens /\ lp_shares' = lp_shares
  BY <1>1, <1>2 DEF SwapToken, MayLeave
<1>4. /\ a \in Nat /\ from \in Accounts /\ from # AMM_POOL_ACCOUNT
      /\ AMM_POOL_ACCOUNT \in Accounts /\ MAX_U64 \in Nat
  BY AmountType, ExchangeAssumption DEF Accounts
<1>5. /\ t \in DOMAIN tokens
      /\ h <= hkm[AMM_POOL_ACCOUNT] /\ hkm[AMM_POOL_ACCOUNT] \in Nat
      /\ held[t][AMM_POOL_ACCOUNT] = k
      /\ lp_shares[t] \in [Users -> Nat]
  BY <1>1, PoolFacts
<1>6. out \in Nat /\ (k + a) * (h - out) >= k * h
  BY <1>2, <1>3, <1>4, SwapKeepsProduct
<1>7. MoneyRanges' /\ hkm'[AMM_POOL_ACCOUNT] = hkm[AMM_POOL_ACCOUNT] - out
  BY <1>3, <1>5, <1>6, ReceiveMoney DEF BooksInv
<1>8. /\ held' \in [DOMAIN tokens -> [Accounts -> Nat]]
      /\ \A s \in DOMAIN tokens \ {t} : held'[s] = held[s]
      /\ Total(held'[t]) = Total(held[t])
      /\ held'[t][AMM_POOL_ACCOUNT] = k + a
  BY <1>3, <1>4, <1>5, <1>6, MoveHeld DEF BooksInv
<1>9. PICK p : p = [hkm |-> h - out, token |-> k + a, shares |-> n]
  OBVIOUS
<1>10. p \in PoolRecord /\ p.hkm > 0 /\ p.token > 0
  BY <1>1, <1>3, <1>4, <1>6, <1>9 DEF PoolRecord, Amount
<1>11. pools' = With(pools, t, p)
  <2>1. PICK D, f, r : D = DOMAIN pools /\ f = pools /\ r = f[t] /\ t \in D
                       /\ f \in [D -> PoolRecord]
    BY DEF BooksInv, PoolRanges, PoolRecord
  <2>2. PICK g : g = pools'
    OBVIOUS
  <2>3. r.hkm = h /\ r.token = k /\ r.shares = n /\ r \in PoolRecord
    BY <1>1, <2>1
  <2>4. g[t] = [r EXCEPT !.token = @ + a, !.hkm = @ - out]
    BY <1>3, <2>1, <2>2
  <2>5. {h - out, k + a, n} \subseteq Amount
    BY <1>9, <1>10 DEF PoolRecord
  <2>6. g[t] \in PoolRecord /\ g[t].hkm = h - out /\ g[t].token = k + a /\ g[t].shares = n
    BY <2>3, <2>4, <2>5 DEF PoolRecord
  <2>7. DOMAIN g = D /\ \A s \in D \ {t} : g[s] = f[s]
    BY <1>3, <2>1, <2>2
  <2>8. g = [s \in D |-> g[s]]
    BY <1>3, <2>1, <2>2
  <2>9. g \in [D -> PoolRecord]
    BY <2>1, <2>6, <2>7, <2>8
  <2>10. g[t] = p
    BY <1>9, <2>6 DEF PoolRecord
  <2>11. g = With(f, t, g[t])
    BY <2>1, <2>7, <2>9, WithUpdate
  <2> QED BY <2>1, <2>2, <2>10, <2>11
<1>12. lp_shares' = With(lp_shares, t, lp_shares[t])
  <2>1. PICK D, f : D = DOMAIN lp_shares /\ f = lp_shares /\ t \in D /\ f \in [D -> [Users -> Nat]]
    BY DEF BooksInv, PoolRanges
  <2>2. f = With(f, t, f[t])
    <3>1. D \cup {t} = D /\ DOMAIN f = D
      BY <2>1
    <3> QED BY <2>1, <3>1 DEF With
  <2> QED BY <1>3, <2>1, <2>2
<1>13. Total(lp_shares[t]) + MINIMUM_LIQUIDITY = p.shares
  BY <1>1, <1>9 DEF BooksInv, UnitsConserved
<1>14. p.hkm * p.token * pools[t].shares * pools[t].shares >=
       pools[t].hkm * pools[t].token * p.shares * p.shares
  <2>1. PICK before \in Nat, after \in Nat :
           before = h * k /\ after = p.hkm * p.token /\ after >= before
    BY <1>1, <1>3, <1>4, <1>6, <1>9
  <2>2. after * n * n >= before * n * n
    BY <2>1, SameShares
  <2> QED BY <1>1, <1>9, <2>1, <2>2
<1>15. hkm'[AMM_POOL_ACCOUNT] = hkm[AMM_POOL_ACCOUNT] + p.hkm - pools[t].hkm
  BY <1>1, <1>4, <1>5, <1>6, <1>7, <1>9
<1>16. held'[t][AMM_POOL_ACCOUNT] = p.token
  BY <1>8, <1>9
<1> QED BY <1>3, <1>5, <1>7, <1>8, <1>10, <1>11, <1>12, <1>13, <1>14, <1>15, <1>16, PoolTrades

\* What a deposit takes and gives are amounts.
LEMMA DepositType ==
    ASSUME BooksInv, NEW t, NEW a \in Nat, NEW b \in Nat
    PROVE  Deposit(t, a, b) \in [hkm : Nat, token : Nat, shares : Nat]
<1>1. CASE t \notin DOMAIN pools
  <2>1. a * b \in Nat
    OBVIOUS
  <2>2. Isqrt(a * b) \in Nat
    BY <2>1, IsqrtUnder
  <2>3. Minus(Isqrt(a * b), MINIMUM_LIQUIDITY) \in Nat
    BY <2>2, ExchangeAssumption DEF Minus
  <2> QED BY <1>1, <2>3 DEF Deposit, FirstDeposit
<1>2. CASE t \in DOMAIN pools
  <2>1. PICK use \in [hkm : Nat, token : Nat] : use = FittingAmounts(pools[t], a, b)
    BY <1>2, PoolFacts, FittingType
  <2>2. PICK h \in Nat \ {0}, k \in Nat \ {0}, n \in Nat \ {0} :
           h = pools[t].hkm /\ k = pools[t].token /\ n = pools[t].shares
    BY <1>2, PoolFacts DEF Reserves, Positive
  <2>3. use.hkm * n \in Nat /\ use.token * n \in Nat
    OBVIOUS
  <2>4. (use.hkm * n) \div h \in Nat /\ (use.token * n) \div k \in Nat
    BY <2>3, QuotientBounds
  <2>5. Least((use.hkm * n) \div h, (use.token * n) \div k) \in Nat
    BY <2>4 DEF Least
  <2>6. SharesFor(pools[t], use) \in Nat
    BY <2>2, <2>5, CastShrinks DEF SharesFor
  <2> QED BY <1>2, <2>1, <2>6 DEF Deposit
<1> QED BY <1>1, <1>2

LEMMA AddLiquidityKeepsBooks ==
    ASSUME BooksInv, NEW from \in Users, NEW a \in Amounts, NEW b \in Amounts,
           NEW t \in DOMAIN tokens, AddLiquidity(from, t, a, b)
    PROVE  BooksInv' /\ ValueKeeps
<1>1. /\ a \in Nat /\ b \in Nat /\ from \in Accounts /\ from # AMM_POOL_ACCOUNT
      /\ AMM_POOL_ACCOUNT \in Accounts /\ MAX_U64 \in Nat /\ MINIMUM_LIQUIDITY \in Nat
      /\ MINIMUM_LIQUIDITY > 0 /\ IsFiniteSet(Users)
  BY AmountType, ExchangeAssumption DEF Accounts
<1>2. PICK use \in [hkm : Nat, token : Nat, shares : Nat] : use = Deposit(t, a, b)
  BY <1>1, DepositType
<1>3. PICK pool : pool = PoolOrNew(t)
  OBVIOUS
<1>4. PICK p : p = [hkm |-> pool.hkm + use.hkm, token |-> pool.token + use.token,
                    shares |-> pool.shares + use.shares]
  OBVIOUS
<1>5. PICK own : own = SharesOrNone(t)
  OBVIOUS
<1>6. /\ use.hkm > 0 /\ use.token > 0 /\ use.shares > 0
      /\ Spend(from, AMM_POOL_ACCOUNT, use.hkm)
      /\ Move(t, from, AMM_POOL_ACCOUNT, use.token)
      /\ {p.hkm, p.token, p.shares} \subseteq 0 .. MAX_U64
      /\ pools' = With(pools, t, p)
      /\ lp_shares' = With(lp_shares, t, [own EXCEPT ![from] = @ + use.shares])
      /\ tokens' = tokens
  BY <1>2, <1>3, <1>4, <1>5 DEF AddLiquidity
<1>7. pool.hkm \in Nat /\ pool.token \in Nat /\ pool.shares \in Nat
  <2>1. CASE t \in DOMAIN pools
    BY <1>3, <2>1, PoolFacts DEF PoolOrNew, Reserves, Positive
  <2>2. CASE t \notin DOMAIN pools
    BY <1>1, <1>3, <2>2 DEF PoolOrNew
  <2> QED BY <2>1, <2>2
<1>8. own \in [Users -> Nat] /\ Total(own) + MINIMUM_LIQUIDITY = pool.shares
  <2>1. DOMAIN lp_shares = DOMAIN pools
    BY DEF BooksInv, PoolRanges
  <2>2. CASE t \in DOMAIN pools
    <3>1. own = lp_shares[t] /\ pool = pools[t]
      BY <1>3, <1>5, <2>1, <2>2 DEF SharesOrNone, PoolOrNew
    <3>2. own \in [Users -> Nat]
      BY <2>2, <3>1, PoolFacts
    <3> QED BY <2>2, <3>1, <3>2 DEF BooksInv, UnitsConserved
  <2>3. CASE t \notin DOMAIN pools
    <3>1. own = [u \in Users |-> 0] /\ pool.shares = MINIMUM_LIQUIDITY
      BY <1>3, <1>5, <2>1, <2>3 DEF SharesOrNone, PoolOrNew
    <3>2. own \in [Users -> Nat] /\ Total(own) = 0
      BY <3>1, TotalZero
    <3> QED BY <1>1, <3>1, <3>2
  <2> QED BY <2>2, <2>3
<1>9. PICK m \in Nat : m = own[from] + use.shares
  BY <1>8
<1>10. PICK l : l = [own EXCEPT ![from] = m]
  OBVIOUS
<1>11. /\ l \in [Users -> Nat] /\ lp_shares' = With(lp_shares, t, l)
       /\ Total(l) + MINIMUM_LIQUIDITY = p.shares
  <2>1. l \in [Users -> Nat] /\ Total(l) = Total(own) - own[from] + m
    <3>1. IsFiniteSet(Users) /\ own \in [Users -> Nat]
      BY <1>1, <1>8
    <3>2. Total([own EXCEPT ![from] = m]) = Total(own) - own[from] + m
      BY <3>1, TotalUpdate
    <3>3. [own EXCEPT ![from] = m] \in [Users -> Nat]
      BY <3>1
    <3> QED BY <1>10, <3>2, <3>3
  <2>2. Total(own) \in Nat /\ own[from] \in Nat
    BY <1>1, <1>8, TotalType
  <2>3. Total(l) + MINIMUM_LIQUIDITY = p.shares
    <3>1. p.shares = pool.shares + use.shares /\ use.shares \in Nat
      BY <1>2, <1>4
    <3>2. pool.shares \in Nat /\ MINIMUM_LIQUIDITY \in Nat
      BY <1>1, <1>7
    <3>3. Total(l) = Total(own) - own[from] + m /\ m = own[from] + use.shares
      BY <1>9, <2>1
    <3>4. Total(own) + MINIMUM_LIQUIDITY = pool.shares
      BY <1>8
    <3> QED BY <2>2, <3>1, <3>2, <3>3, <3>4
  <2>4. l = [own EXCEPT ![from] = @ + use.shares]
    BY <1>8, <1>9, <1>10
  <2> QED BY <1>6, <2>1, <2>3, <2>4
<1>12. p \in PoolRecord /\ p.hkm > 0 /\ p.token > 0
  BY <1>4, <1>6, <1>7 DEF PoolRecord, Amount
<1>13. MoneyRanges' /\ hkm'[AMM_POOL_ACCOUNT] = hkm[AMM_POOL_ACCOUNT] + use.hkm
  BY <1>1, <1>6, SpendMoney DEF BooksInv
<1>14. hkm'[AMM_POOL_ACCOUNT] = hkm[AMM_POOL_ACCOUNT] + p.hkm - pool.hkm
  <2>1. hkm[AMM_POOL_ACCOUNT] \in Nat
    BY <1>1 DEF BooksInv, MoneyRanges
  <2> QED BY <1>4, <1>7, <1>13, <2>1
<1>15. /\ held' \in [DOMAIN tokens -> [Accounts -> Nat]]
       /\ \A s \in DOMAIN tokens \ {t} : held'[s] = held[s]
       /\ Total(held'[t]) = Total(held[t])
       /\ held'[t][AMM_POOL_ACCOUNT] = held[t][AMM_POOL_ACCOUNT] + use.token
  BY <1>1, <1>6, MoveHeld DEF BooksInv
<1>16. held'[t][AMM_POOL_ACCOUNT] = p.token
  <2>1. held[t][AMM_POOL_ACCOUNT] = pool.token
    BY <1>3 DEF BooksInv, PoolsBacked, PoolOrNew
  <2> QED BY <1>4, <1>15, <2>1
<1>17. CASE t \in DOMAIN pools
  <2>1. pool = pools[t] /\ pool \in Reserves
    BY <1>3, <1>17, PoolFacts DEF PoolOrNew
  <2>2. use.shares = SharesFor(pool, use)
    <3>1. PICK f : f = FittingAmounts(pools[t], a, b)
      OBVIOUS
    <3>2. use = [hkm |-> f.hkm, token |-> f.token, shares |-> SharesFor(pools[t], f)]
      BY <1>2, <1>17, <3>1 DEF Deposit
    <3>3. use.hkm = f.hkm /\ use.token = f.token /\ use.shares = SharesFor(pools[t], f)
      BY <3>2
    <3> QED BY <2>1, <3>3 DEF SharesFor
  <2>3. /\ (pool.hkm + use.hkm) * pool.shares >= pool.hkm * (pool.shares + use.shares)
        /\ (pool.token + use.token) * pool.shares >= pool.token * (pool.shares + use.shares)
    BY <2>1, <2>2, SharesAreFair
  <2>4. /\ p.hkm = pool.hkm + use.hkm /\ p.token = pool.token + use.token
        /\ p.shares = pool.shares + use.shares
        /\ p.hkm \in Nat /\ p.token \in Nat /\ p.shares \in Nat
    BY <1>4, <1>7
  <2>5. p.hkm * p.token * pool.shares * pool.shares >=
        pool.hkm * pool.token * p.shares * p.shares
    BY <1>7, <2>3, <2>4, ValueKept
  <2> QED BY <1>6, <1>11, <1>12, <1>13, <1>14, <1>15, <1>16, <1>17, <2>1, <2>5, PoolTrades
<1>18. CASE t \notin DOMAIN pools
  <2>1. pool.hkm = 0 /\ pool.token = 0 /\ pool.shares = MINIMUM_LIQUIDITY
    BY <1>3, <1>18 DEF PoolOrNew
  <2>2. use.hkm = a /\ use.token = b /\ use.shares = Minus(Isqrt(a * b), MINIMUM_LIQUIDITY)
    BY <1>2, <1>18 DEF Deposit, FirstDeposit
  <2>3. PICK n \in Nat, r \in Nat : n = a * b /\ r = Isqrt(n) /\ r * r <= n
    <3>1. a * b \in Nat
      BY <1>1
    <3> QED BY <3>1, IsqrtUnder
  <2>4. p.shares = r /\ p.hkm = a /\ p.token = b
    <3>1. p.hkm = a /\ p.token = b
      BY <1>1, <1>4, <2>1, <2>2
    <3>2. Minus(r, MINIMUM_LIQUIDITY) > 0
      BY <1>6, <2>2, <2>3
    <3>3. p.shares = MINIMUM_LIQUIDITY + Minus(r, MINIMUM_LIQUIDITY)
      BY <1>4, <2>1, <2>2, <2>3
    <3> QED BY <1>1, <3>1, <3>2, <3>3 DEF Minus
  <2>5. p.shares * p.shares <= p.hkm * p.token
    BY <2>3, <2>4
  <2>6. PoolStep(t, p, l)
    BY <1>3, <1>6, <1>11, <1>12, <1>14, <1>15, <1>16, <2>5 DEF PoolStep
  <2>7. BooksInv'
    BY <1>13, <2>6, PoolStepKeepsBooks
  <2>8. \A s \in DOMAIN pools : pools'[s] = pools[s]
    BY <1>6, <1>18 DEF With
  <2>9. ValueKeeps
    BY <2>8, SameValue DEF ValueKeeps, BooksInv
  <2> QED BY <2>7, <2>9
<1> QED BY <1>17, <1>18

-----------------------------------------------------------------------------
(* The theorems                                                            *)

LEMMA InitKeepsBooks == Init => BooksInv
<1> SUFFICES ASSUME Init PROVE BooksInv
  OBVIOUS
<1>1. DOMAIN tokens = {} /\ DOMAIN held = {} /\ DOMAIN pools = {} /\ DOMAIN lp_shares = {}
  BY DEF Init
<1>2. IsFiniteSet(Users) /\ Endowment \in Nat /\ MAX_U64 \in Nat /\ MaxNonce \in Nat
      /\ AMM_POOL_ACCOUNT \notin Users
  BY ExchangeAssumption
<1>3. PICK f : f = [u \in Users |-> Endowment]
  OBVIOUS
<1>4. f \in [Users -> Nat] /\ Total(f) = Endowment * Cardinality(Users)
  <2>1. f \in [Users -> Nat]
    BY <1>2, <1>3
  <2>2. CoinsOf(f) = Users \X (1 .. Endowment)
    BY <1>3, <2>1, CoinsMember
  <2>3. IsFiniteSet(1 .. Endowment) /\ Cardinality(1 .. Endowment) = Endowment
    <3>1. 1 \in Int /\ Endowment \in Nat
      BY <1>2
    <3> QED BY <3>1, FS_Interval
  <2>4. Cardinality(Users \X (1 .. Endowment)) = Cardinality(Users) * Cardinality(1 .. Endowment)
    BY <1>2, <2>3, FS_Product
  <2>5. Cardinality(Users) \in Nat
    BY <1>2, FS_CardinalityType
  <2> QED BY <1>2, <2>1, <2>2, <2>3, <2>4, <2>5 DEF Total
<1>5. hkm \in [Accounts -> Nat] /\ hkm[AMM_POOL_ACCOUNT] = 0 /\ (\A u \in Users : hkm[u] = f[u])
  BY <1>2, <1>3 DEF Init, Accounts
<1>6. Total(hkm) = Endowment * Cardinality(Users)
  <2>1. hkm \in [Users \cup {AMM_POOL_ACCOUNT} -> Nat]
    BY <1>5 DEF Accounts
  <2>2. Total(hkm) = Total(f) + hkm[AMM_POOL_ACCOUNT]
    BY <1>2, <1>4, <1>5, <2>1, TotalExtend
  <2>3. Total(f) \in Nat
    BY <1>2, <1>4, TotalType
  <2> QED BY <1>4, <1>5, <2>2, <2>3
<1>7. MoneyRanges
  <2>1. Endowment * Cardinality(Users) \in Nat
    BY <1>2, FS_CardinalityType
  <2> QED BY <1>2, <1>5, <1>6, <2>1 DEF Init, MoneyRanges, Amount
<1>8. TokenRanges /\ PoolRanges
  BY <1>1 DEF Init, TokenRanges, PoolRanges
<1>9. UnitsConserved /\ SharesUnderRoot /\ ReservesNeverEmpty
  BY <1>1 DEF UnitsConserved, SharesUnderRoot, ReservesNeverEmpty
<1>10. PoolsBacked
  <2>1. PICK g : g = [t \in DOMAIN pools |-> pools[t].hkm]
    OBVIOUS
  <2>2. g \in [DOMAIN pools -> Nat] /\ \A t \in DOMAIN pools : g[t] = 0
    BY <1>1, <2>1
  <2>3. Total(g) = 0
    BY <2>2, TotalZero
  <2> QED BY <1>1, <1>5, <2>1, <2>3 DEF PoolsBacked
<1> QED BY <1>7, <1>8, <1>9, <1>10 DEF BooksInv

LEMMA NextKeepsBooks == BooksInv /\ [Next]_vars => BooksInv' /\ [ValueKeeps]_vars
<1> SUFFICES ASSUME BooksInv, [Next]_vars PROVE BooksInv' /\ [ValueKeeps]_vars
  OBVIOUS
<1>1. CASE UNCHANGED vars
  <2>1. MoneyRanges' /\ TokenRanges' /\ PoolRanges'
    BY <1>1 DEF vars, money, BooksInv, MoneyRanges, TokenRanges, PoolRanges
  <2>2. UnitsConserved' /\ PoolsBacked' /\ SharesUnderRoot' /\ ReservesNeverEmpty'
    BY <1>1 DEF vars, money, BooksInv, UnitsConserved, PoolsBacked, SharesUnderRoot,
                ReservesNeverEmpty
  <2> QED BY <1>1, <2>1, <2>2 DEF BooksInv
<1>2. CASE Next
  <2>1. PICK from \in Users, amount \in Amounts :
           \/ TokenCreate(from, amount)
           \/ \E t \in DOMAIN tokens :
                 \/ \E to \in Accounts : TokenTransfer(from, t, to, amount)
                 \/ TokenBurn(from, t, amount)
                 \/ \E amount_token \in Amounts : AddLiquidity(from, t, amount, amount_token)
           \/ \E t \in DOMAIN pools :
                 \/ RemoveLiquidity(from, t, amount)
                 \/ SwapHkm(from, t, amount)
                 \/ SwapToken(from, t, amount)
    BY <1>2 DEF Next
  <2>2. CASE TokenCreate(from, amount)
    BY <2>2, TokenCreateKeepsBooks
  <2>3. ASSUME NEW t \in DOMAIN tokens, NEW to \in Accounts, TokenTransfer(from, t, to, amount)
        PROVE  BooksInv' /\ ValueKeeps
    BY <2>3, TokenTransferKeepsBooks
  <2>4. ASSUME NEW t \in DOMAIN tokens, TokenBurn(from, t, amount)
        PROVE  BooksInv' /\ ValueKeeps
    BY <2>4, TokenBurnKeepsBooks
  <2>5. ASSUME NEW t \in DOMAIN tokens, NEW amount_token \in Amounts,
               AddLiquidity(from, t, amount, amount_token)
        PROVE  BooksInv' /\ ValueKeeps
    BY <2>5, AddLiquidityKeepsBooks
  <2>6. ASSUME NEW t \in DOMAIN pools, RemoveLiquidity(from, t, amount)
        PROVE  BooksInv' /\ ValueKeeps
    BY <2>6, RemoveLiquidityKeepsBooks
  <2>7. ASSUME NEW t \in DOMAIN pools, SwapHkm(from, t, amount)
        PROVE  BooksInv' /\ ValueKeeps
    BY <2>7, SwapHkmKeepsBooks
  <2>8. ASSUME NEW t \in DOMAIN pools, SwapToken(from, t, amount)
        PROVE  BooksInv' /\ ValueKeeps
    BY <2>8, SwapTokenKeepsBooks
  <2> QED BY <2>1, <2>2, <2>3, <2>4, <2>5, <2>6, <2>7, <2>8
<1> QED BY <1>1, <1>2

LEMMA BooksAlways == Spec => []BooksInv
<1>1. Init => BooksInv
  BY InitKeepsBooks
<1>2. BooksInv /\ [Next]_vars => BooksInv'
  BY NextKeepsBooks
<1> QED BY <1>1, <1>2, PTL DEF Spec

\* Nobody holds more than there is, and there is no more than 64 bits hold.
LEMMA BooksBounded == BooksInv => TypeOK
<1> SUFFICES ASSUME BooksInv PROVE TypeOK
  OBVIOUS
<1>1. IsFiniteSet(Users) /\ MAX_U64 \in Nat /\ Endowment * Cardinality(Users) \in Nat
      /\ Endowment * Cardinality(Users) <= MAX_U64
  BY ExchangeAssumption, FS_CardinalityType
<1>2. hkm \in [Accounts -> 0 .. MAX_U64]
  <2>1. hkm \in [Accounts -> Nat] /\ fee_pot \in Nat
    BY <1>1 DEF BooksInv, MoneyRanges, Amount
  <2>2. ASSUME NEW a \in Accounts PROVE hkm[a] \in 0 .. MAX_U64
    <3>1. hkm[a] <= Total(hkm) /\ Total(hkm) \in Nat /\ hkm[a] \in Nat
      BY <2>1, AccountsFinite, TotalType, TotalBound
    <3>2. Total(hkm) + fee_pot <= Endowment * Cardinality(Users)
      BY DEF BooksInv, MoneyRanges
    <3> QED BY <1>1, <2>1, <3>1, <3>2
  <2> QED BY <2>1, <2>2
<1>3. held \in [DOMAIN tokens -> [Accounts -> 0 .. MAX_U64]]
  <2>1. held \in [DOMAIN tokens -> [Accounts -> Nat]]
    BY DEF BooksInv, TokenRanges
  <2>2. ASSUME NEW t \in DOMAIN tokens, NEW a \in Accounts PROVE held[t][a] \in 0 .. MAX_U64
    <3>1. held[t] \in [Accounts -> Nat]
      BY <2>1
    <3>2. held[t][a] <= Total(held[t]) /\ held[t][a] \in Nat /\ Total(held[t]) \in Nat
      BY <3>1, AccountsFinite, TotalType, TotalBound
    <3>3. Total(held[t]) = tokens[t] /\ tokens[t] \in Amount
      BY DEF BooksInv, UnitsConserved, TokenRanges
    <3> QED BY <1>1, <3>2, <3>3 DEF Amount
  <2> QED BY <2>1, <2>2
<1>4. \A t \in DOMAIN pools :
         pools[t] \in [hkm : 0 .. MAX_U64, token : 0 .. MAX_U64, shares : 1 .. MAX_U64]
  <2> SUFFICES ASSUME NEW t \in DOMAIN pools
               PROVE  pools[t] \in [hkm : 0 .. MAX_U64, token : 0 .. MAX_U64, shares : 1 .. MAX_U64]
    OBVIOUS
  <2> QED BY <1>1, PoolFacts DEF PoolRecord, Reserves, Positive, Amount
<1>5. lp_shares \in [DOMAIN pools -> [Users -> 0 .. MAX_U64]]
  <2>1. lp_shares \in [DOMAIN pools -> [Users -> Nat]]
    BY DEF BooksInv, PoolRanges
  <2>2. ASSUME NEW t \in DOMAIN pools, NEW u \in Users PROVE lp_shares[t][u] \in 0 .. MAX_U64
    <3>1. lp_shares[t][u] < pools[t].shares /\ pools[t].shares \in Amount /\ lp_shares[t][u] \in Nat
      BY <2>1, PoolFacts DEF PoolRecord
    <3> QED BY <1>1, <3>1 DEF Amount
  <2> QED BY <2>1, <2>2
<1>6. fee_pot \in 0 .. MAX_U64 /\ nonces \in [Users -> 0 .. MaxNonce]
  BY DEF BooksInv, MoneyRanges, Amount
<1>7. DOMAIN tokens \subseteq TokenIds /\ DOMAIN pools \subseteq DOMAIN tokens
      /\ \A t \in DOMAIN tokens : tokens[t] \in 0 .. MAX_U64
  BY DEF BooksInv, TokenRanges, PoolRanges, Amount
<1> QED BY <1>2, <1>3, <1>4, <1>5, <1>6, <1>7 DEF TypeOK

\* Every balance, supply, reserve and share count stays in 64 bits and above
\* zero: what credit and credit_token (state.rs) would cut off silently and the
\* unchecked subtractions of withdrawals and swaps would wrap never occurs.
THEOREM BooksStayInRange == Spec => []TypeOK
BY BooksAlways, BooksBounded, PTL

\* TokenCreate, TokenTransfer, TokenBurn and the pool operations conserve: supplies
\* are what the accounts hold, and a pool's shares what its providers own and
\* the locked minimum.
THEOREM TokensAreConserved == Spec => []UnitsConserved
<1>1. BooksInv => UnitsConserved
  BY DEF BooksInv
<1> QED BY <1>1, BooksAlways, PTL

\* The one account behind all pools has exactly what AddLiquidity,
\* RemoveLiquidity and Swap record as their reserves.
THEOREM ReservesAreBacked == Spec => []PoolsBacked
<1>1. BooksInv => PoolsBacked
  BY DEF BooksInv
<1> QED BY <1>1, BooksAlways, PTL

\* Shares never stand for more than the reserves, from isqrt_u128 in the first
\* deposit on.
THEOREM SharesStayUnderRoot == Spec => []SharesUnderRoot
<1>1. BooksInv => SharesUnderRoot
  BY DEF BooksInv
<1> QED BY <1>1, BooksAlways, PTL

\* AddLiquidity and Swap never divide by an empty reserve.
THEOREM ReservesStayPositive == Spec => []ReservesNeverEmpty
<1>1. BooksInv => ReservesNeverEmpty
  BY DEF BooksInv
<1> QED BY <1>1, BooksAlways, PTL

\* No rounding in a Swap, AddLiquidity or RemoveLiquidity takes value from the
\* providers who stay.
THEOREM ProvidersNeverLose == Spec => ShareValueNeverDrops
<1>1. BooksInv /\ [Next]_vars => [ValueKeeps]_vars
  BY NextKeepsBooks
<1> QED BY <1>1, BooksAlways, PTL DEF Spec, ShareValueNeverDrops, ValueKeeps
=============================================================================
