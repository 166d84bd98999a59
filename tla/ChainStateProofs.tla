-------------------------- MODULE ChainStateProofs --------------------------
(***************************************************************************)
(* Proofs about the ledger of module ChainState, for every set of users,   *)
(* every amount, every schedule and every bound of the constants.          *)
(***************************************************************************)
EXTENDS ChainState, DataTheorems

-----------------------------------------------------------------------------
(* The base fee                                                            *)

\* A step is at least one unit; up to a distance of the whole target it is at
\* most an eighth of the fee, or one unit.
LEMMA StepRange ==
    ASSUME NEW current \in Nat, NEW distance \in Nat
    PROVE  /\ Step(current, distance) \in Nat \ {0}
           /\ distance <= BASE_FEE_TARGET_TXS =>
                 Step(current, distance) <= AtLeastOne(current \div 8)
<1>1. AtLeastOne(current \div 8) \in Nat \ {0}
  BY DEF AtLeastOne
<1> DEFINE m == AtLeastOne(current \div 8)
           scaled == (m * distance) \div BASE_FEE_TARGET_TXS
<1>2. /\ scaled \in Nat
      /\ distance <= BASE_FEE_TARGET_TXS => scaled <= m
  <2> HIDE DEF m
  <2> QED BY <1>1, ScaleRange, FeesAssumption DEF m
<1>3. Step(current, distance) = AtLeastOne(scaled)
  BY DEF Step
<1> HIDE DEF m, scaled
<1> QED BY <1>1, <1>2, <1>3 DEF AtLeastOne, m

\* The next fee is a fee, whatever the last one was.
LEMMA NextBaseFeeRange ==
    ASSUME NEW current \in Nat, NEW n \in Nat
    PROVE  /\ next_base_fee(current, n) \in TX_FEE .. BASE_FEE_MAX
           /\ next_base_fee(current, n) \in Nat \ {0}
<1> DEFINE up == Step(current, n - BASE_FEE_TARGET_TXS)
           down == Step(current, BASE_FEE_TARGET_TXS - n)
           moved == IF n = BASE_FEE_TARGET_TXS THEN current
                    ELSE IF n > BASE_FEE_TARGET_TXS THEN current + up
                    ELSE Minus(current, down)
<1>1. n > BASE_FEE_TARGET_TXS => up \in Nat
  BY StepRange, FeesAssumption
<1>2. n < BASE_FEE_TARGET_TXS => down \in Nat
  BY StepRange, FeesAssumption
<1>3. next_base_fee(current, n) = Clamp(moved)
  BY DEF next_base_fee
<1> HIDE DEF up, down
<1>4. moved \in Nat
  BY <1>1, <1>2, FeesAssumption DEF Minus
<1> HIDE DEF moved
<1> QED BY <1>3, <1>4, FeesAssumption DEF Clamp, Least

\* From a fee in range, congestion raises it, quiet lowers it, and a block at
\* most twice the target moves it by at most an eighth.
LEMMA NextBaseFeeMoves ==
    ASSUME NEW current \in TX_FEE .. BASE_FEE_MAX, NEW n \in Nat
    PROVE  LET next == next_base_fee(current, n) IN
           /\ n > BASE_FEE_TARGET_TXS => next > current \/ next = BASE_FEE_MAX
           /\ n < BASE_FEE_TARGET_TXS => next < current \/ next = TX_FEE
           /\ n = BASE_FEE_TARGET_TXS => next = current
           /\ n <= 2 * BASE_FEE_TARGET_TXS =>
                 /\ next - current <= AtLeastOne(current \div 8)
                 /\ current - next <= AtLeastOne(current \div 8)
<1> DEFINE up == Step(current, n - BASE_FEE_TARGET_TXS)
           down == Step(current, BASE_FEE_TARGET_TXS - n)
           eighth == AtLeastOne(current \div 8)
<1>0. current \in Nat /\ eighth \in Nat \ {0}
  BY FeesAssumption DEF AtLeastOne
<1>1. ASSUME n > BASE_FEE_TARGET_TXS
      PROVE  /\ up \in Nat \ {0}
             /\ n <= 2 * BASE_FEE_TARGET_TXS => up <= eighth
             /\ next_base_fee(current, n) = Clamp(current + up)
  <2>1. /\ n - BASE_FEE_TARGET_TXS \in Nat
        /\ n <= 2 * BASE_FEE_TARGET_TXS => n - BASE_FEE_TARGET_TXS <= BASE_FEE_TARGET_TXS
    BY <1>1, FeesAssumption
  <2>2. up \in Nat \ {0}
    BY <1>0, <2>1, StepRange
  <2>3. n - BASE_FEE_TARGET_TXS <= BASE_FEE_TARGET_TXS => up <= eighth
    BY <1>0, <2>1, StepRange
  <2>4. next_base_fee(current, n) = Clamp(current + up)
    BY <1>1, FeesAssumption DEF next_base_fee
  <2> QED BY <2>1, <2>2, <2>3, <2>4
<1>2. ASSUME n < BASE_FEE_TARGET_TXS
      PROVE  /\ down \in Nat \ {0}
             /\ down <= eighth
             /\ next_base_fee(current, n) = Clamp(Minus(current, down))
  <2>1. /\ BASE_FEE_TARGET_TXS - n \in Nat
        /\ BASE_FEE_TARGET_TXS - n <= BASE_FEE_TARGET_TXS
    BY <1>2, FeesAssumption
  <2>2. down \in Nat \ {0} /\ down <= eighth
    BY <1>0, <2>1, StepRange
  <2>3. next_base_fee(current, n) = Clamp(Minus(current, down))
    BY <1>2, FeesAssumption DEF next_base_fee
  <2> QED BY <2>2, <2>3
<1>3. n = BASE_FEE_TARGET_TXS => next_base_fee(current, n) = Clamp(current)
  BY FeesAssumption DEF next_base_fee
<1> HIDE DEF up, down, eighth
<1>4. n > BASE_FEE_TARGET_TXS \/ n < BASE_FEE_TARGET_TXS \/ n = BASE_FEE_TARGET_TXS
  BY FeesAssumption
<1> QED
  BY <1>0, <1>1, <1>2, <1>3, <1>4, FeesAssumption DEF Clamp, Minus, Least, eighth

-----------------------------------------------------------------------------
(* What the helpers return                                                 *)

\* The index sets of the totals are finite.
LEMMA FiniteDomains ==
    /\ IsFiniteSet(Users)
    /\ IsFiniteSet(Accounts)
    /\ IsFiniteSet(ReleaseHeights)
    /\ IsFiniteSet(VestIds)
<1>1. IsFiniteSet(Users)
  BY AccountsAssumption
<1>2. IsFiniteSet(Accounts)
  <2>1. IsFiniteSet(Users \cup {STAKING_POOL_ACCOUNT})
    BY <1>1, FS_AddElement
  <2>2. Accounts = (Users \cup {STAKING_POOL_ACCOUNT}) \cup {VESTING_POOL_ACCOUNT}
    BY DEF Accounts
  <2> QED BY <2>1, <2>2, FS_AddElement
<1>3. IsFiniteSet(ReleaseHeights)
  BY FS_Interval, HeightsAssumption DEF ReleaseHeights
<1>4. IsFiniteSet(VestIds)
  <2>1. IsFiniteSet(1 .. MaxNonce)
    BY FS_Interval, HeightsAssumption
  <2> QED BY <1>1, <2>1, FS_Product DEF VestIds
<1> QED BY <1>1, <1>2, <1>3, <1>4

\* What an entry has vested never exceeds its total and is never negative.
LEMMA VestedAtType ==
    ASSUME NEW e \in VestingEntry, NEW h \in Nat
    PROVE  VestedAt(e, h) \in 0 .. e.total
<1>1. /\ e.total \in Nat /\ e.start \in Nat /\ e.cliff \in Nat /\ e.end \in Nat
      /\ e.start <= e.cliff /\ e.cliff <= e.end
  BY DEF VestingEntry
<1>2. ASSUME h >= e.cliff, h < e.end
      PROVE  (e.total * (h - e.start)) \div (e.end - e.start) \in 0 .. e.total
  <2>1. ASSUME NEW t \in Nat, NEW x \in Nat, NEW d \in Nat, x < d
        PROVE  (t * x) \div d \in 0 .. t
    <3>1. t * x \in Nat /\ t * x <= t * d
      BY <2>1
    <3> DEFINE q == (t * x) \div d
               r == (t * x) % d
    <3>2. q \in Int /\ r \in Nat /\ t * x = d * q + r /\ r < d
      BY <2>1, <3>1
    <3> HIDE DEF q, r
    <3>3. q >= 0
      BY <2>1, <3>1, <3>2
    <3>4. q <= t
      BY <2>1, <3>1, <3>2
    <3> QED BY <3>2, <3>3, <3>4 DEF q
  <2>2. h - e.start \in Nat /\ e.end - e.start \in Nat /\ h - e.start < e.end - e.start
    BY <1>1, <1>2
  <2> QED BY <1>1, <2>1, <2>2
<1> QED BY <1>1, <1>2 DEF VestedAt

\* end_block moves natural amounts.
LEMMA PayoutType ==
    ASSUME TypeOK, NEW u \in Users
    PROVE  /\ Matured(u) \in Nat
           /\ VestedFor(u) \in Nat
           /\ Payout(u) \in Nat
<1>1. Matured(u) \in Nat
  <2> DEFINE due == [r \in ReleaseHeights |-> IF r <= Height THEN unbonding[u][r] ELSE 0]
  <2>1. due \in [ReleaseHeights -> Nat]
    BY DEF TypeOK
  <2> HIDE DEF due
  <2>2. Total(due) \in Nat
    BY <2>1, FiniteDomains, TotalType
  <2> QED BY <2>2 DEF Matured, due
<1>2. VestedFor(u) \in Nat
  <2> DEFINE due == [id \in VestIds |-> NewlyVested(vesting[u][id])]
  <2>1. due \in [VestIds -> Nat]
    <3> SUFFICES ASSUME NEW id \in VestIds PROVE NewlyVested(vesting[u][id]) \in Nat
      OBVIOUS
    <3>1. vesting[u][id] \in VestingEntry /\ Height \in Nat
      BY HeightsAssumption DEF TypeOK, Height
    <3>2. VestedAt(vesting[u][id], Height) \in 0 .. vesting[u][id].total
      BY <3>1, VestedAtType
    <3>3. vesting[u][id].total \in Nat /\ vesting[u][id].released \in Nat
      BY <3>1 DEF VestingEntry
    <3> QED BY <3>2, <3>3 DEF NewlyVested, Minus
  <2> HIDE DEF due
  <2>2. Total(due) \in Nat
    BY <2>1, FiniteDomains, TotalType
  <2> QED BY <2>2 DEF VestedFor, due
<1> QED BY <1>1, <1>2 DEF Payout, TypeOK

\* A slash takes a natural amount.
LEMMA SlashType ==
    ASSUME TypeOK, NEW v \in Users
    PROVE  /\ UnbondingTotal(v) \in Nat
           /\ SlashableBase(v) \in Nat
           /\ SlashAmount(v) \in 0 .. SlashableBase(v)
<1>1. UnbondingTotal(v) \in Nat
  BY FiniteDomains, TotalType DEF TypeOK, UnbondingTotal
<1>2. SlashableBase(v) \in Nat
  BY <1>1 DEF SlashableBase, TypeOK
<1>3. ASSUME NEW base \in Nat
      PROVE  (base * SLASH_PERCENT) \div 100 \in 0 .. base
  BY AmountsAssumption
<1> QED BY <1>1, <1>2, <1>3 DEF SlashAmount

\* Draining entries leaves natural amounts.
LEMMA DrainType ==
    ASSUME NEW entries \in [ReleaseHeights -> Nat], NEW amount \in Nat
    PROVE  DrainOldest(entries, amount) \in [ReleaseHeights -> Nat]
<1> SUFFICES ASSUME NEW r \in ReleaseHeights
             PROVE  DrainOldest(entries, amount)[r] \in Nat
  BY DEF DrainOldest
<1> DEFINE older == [q \in ReleaseHeights |-> IF q < r THEN entries[q] ELSE 0]
<1>1. older \in [ReleaseHeights -> Nat]
  OBVIOUS
<1>2. Total(older) \in Nat
  <2> HIDE DEF older
  <2> QED BY <1>1, FiniteDomains, TotalType
<1>3. DrainOldest(entries, amount)[r] = Minus(entries[r], Minus(amount, Total(older)))
  BY DEF DrainOldest
<1> HIDE DEF older
<1> QED BY <1>2, <1>3 DEF Minus

\* The heights of the block being executed and of its withdrawals are indices
\* of the model's functions.
LEMMA HeightType ==
    ASSUME TypeOK
    PROVE  /\ Height \in Nat
           /\ Executing => Height \in 1 .. MaxHeight
           /\ Executing => producer \in Users
           /\ Executing => ReleaseHeight \in ReleaseHeights
           /\ Executing => BlockReward(Height) \in Nat
BY HeightsAssumption DEF TypeOK, Height, Executing, ReleaseHeight, ReleaseHeights

\* A payment moves natural amounts between accounts.
LEMMA PayType ==
    ASSUME TypeOK, NEW from \in Users, NEW to \in Accounts, NEW amount \in Nat,
           CanPay(from, amount), Pay(from, to, amount)
    PROVE  balances' \in [Accounts -> Nat]
<1>1. from \in Accounts
  BY DEF Accounts
<1> QED BY <1>1 DEF TypeOK, CanPay, Pay

-----------------------------------------------------------------------------
(* Type correctness, action by action                                      *)

\* The amounts and schedules transactions carry are naturals.
LEMMA BoundsType ==
    /\ Amounts \subseteq Nat
    /\ Nonces \subseteq Nat
    /\ \A s \in Schedules : s[1] \in Nat /\ s[2] \in Nat /\ s[1] <= s[2]
BY AmountsAssumption, HeightsAssumption DEF Nonces

LEMMA InitType == Init => TypeOK
<1> SUFFICES ASSUME Init PROVE TypeOK
  OBVIOUS
<1> DEFINE bonded == Least(GENESIS_VALIDATOR_STAKE, InitialSupply)
<1>1. bonded \in Nat /\ InitialSupply - bonded \in Nat
  BY AmountsAssumption DEF Least
<1> HIDE DEF bonded
<1>2. balances \in [Accounts -> Nat] /\ stake \in [Users -> Nat]
  BY <1>1 DEF Init, bonded
<1>3. NoVesting \in VestingEntry
  BY DEF NoVesting, VestingEntry
<1>4. vesting \in [Users -> [VestIds -> VestingEntry]]
  BY <1>3 DEF Init
<1>5. /\ height = 0 /\ producer = NoProducer /\ rewarded = FALSE
      /\ nonces = [u \in Users |-> 0] /\ stakers = {Treasury}
      /\ unbonding = [u \in Users |-> [r \in ReleaseHeights |-> 0]]
      /\ slashed_offenses = {} /\ credentials = {} /\ base_fee = TX_FEE /\ fee_pot = 0
      /\ total_supply = InitialSupply /\ burned = 0 /\ fee_txs = 0 /\ offence = {}
  BY DEF Init
<1>6. unbonding \in [Users -> [ReleaseHeights -> Nat]] /\ nonces \in [Users -> Nat]
  BY <1>5
<1>7. /\ height \in 0 .. MaxHeight /\ producer \in Users \cup {NoProducer}
      /\ rewarded \in BOOLEAN /\ stakers \subseteq Users
      /\ Executing => height < MaxHeight
  <2>1. MaxHeight \in Nat /\ Treasury \in Users
    BY HeightsAssumption, AccountsAssumption
  <2>2. height \in 0 .. MaxHeight
    BY <1>5, <2>1
  <2>3. ~Executing /\ producer \in Users \cup {NoProducer}
    BY <1>5 DEF Executing
  <2>4. rewarded \in BOOLEAN
    BY <1>5
  <2>5. stakers \subseteq Users
    BY <1>5, <2>1
  <2> QED BY <2>2, <2>3, <2>4, <2>5
<1>8. /\ slashed_offenses \subseteq Users \X OffenceIndices
      /\ credentials \subseteq [id : CredentialIds, issuer : Users, revoked : BOOLEAN]
      /\ offence \subseteq [validator : Users, index : Nat, exposed : Nat]
  BY <1>5
<1>9. /\ base_fee \in Nat \ {0} /\ fee_pot \in Nat /\ total_supply \in Nat
      /\ burned \in Nat /\ fee_txs \in Nat
  BY <1>5, AmountsAssumption, FeesAssumption
<1> QED BY <1>2, <1>4, <1>6, <1>7, <1>8, <1>9 DEF TypeOK

LEMMA BeginBlockType ==
    ASSUME TypeOK, NEW v \in Users, BeginBlock(v)
    PROVE  TypeOK'
<1>1. offence' \subseteq [validator : Users, index : Nat, exposed : Nat]
  <2>1. [validator |-> v, index |-> Height, exposed |-> stake[v]]
           \in [validator : Users, index : Nat, exposed : Nat]
    BY HeightType DEF TypeOK
  <2>2. offence' = offence
           \/ offence' = {[validator |-> v, index |-> Height, exposed |-> stake[v]]}
    BY DEF BeginBlock
  <2> QED BY <2>1, <2>2 DEF TypeOK
<1> QED BY <1>1 DEF TypeOK, BeginBlock, Executing, staking, supply

LEMMA TransferType ==
    ASSUME TypeOK, NEW from \in Users, NEW to \in Users, NEW amount \in Amounts,
           NEW nonce \in Nonces, Transfer(from, to, amount, nonce)
    PROVE  TypeOK'
<1>1. balances' \in [Accounts -> Nat]
  BY PayType, BoundsType DEF Transfer, Accounts
<1> QED
  BY <1>1, BoundsType
  DEF TypeOK, Transfer, ConsumeNonce, CollectFee, Executing, chain, staking, supply

LEMMA StakeType ==
    ASSUME TypeOK, NEW from \in Users, NEW amount \in Amounts,
           NEW nonce \in Nonces, Stake(from, amount, nonce)
    PROVE  TypeOK'
<1>1. balances' \in [Accounts -> Nat]
  BY PayType, BoundsType DEF Stake, Accounts
<1> QED
  BY <1>1, BoundsType
  DEF TypeOK, Stake, ConsumeNonce, CollectFee, Executing, chain, supply

LEMMA WithdrawType ==
    ASSUME TypeOK, NEW from \in Users, NEW amount \in Amounts,
           NEW nonce \in Nonces, Withdraw(from, amount, nonce)
    PROVE  TypeOK'
<1>1. from \in Accounts /\ amount \in Nat /\ nonce \in Nat
  BY BoundsType DEF Accounts
<1>2. balances' \in [Accounts -> Nat]
  BY <1>1 DEF TypeOK, Withdraw, CanPay
<1>3. stake' \in [Users -> Nat]
  BY <1>1 DEF TypeOK, Withdraw
<1>4. unbonding' \in [Users -> [ReleaseHeights -> Nat]]
  BY <1>1, HeightType DEF TypeOK, Withdraw
<1> QED
  BY <1>1, <1>2, <1>3, <1>4
  DEF TypeOK, Withdraw, ConsumeNonce, CollectFee, Executing, chain, supply

LEMMA VestType ==
    ASSUME TypeOK, NEW from \in Users, NEW to \in Users, NEW amount \in Amounts,
           NEW s \in Schedules, NEW nonce \in Nonces, Vest(from, to, amount, s, nonce)
    PROVE  TypeOK'
<1>1. balances' \in [Accounts -> Nat]
  BY PayType, BoundsType DEF Vest, Accounts
<1> DEFINE e == [total |-> amount, released |-> 0, start |-> Height,
                 cliff |-> Height + s[1], end |-> Height + s[2]]
<1>2. e \in VestingEntry
  BY BoundsType, HeightType DEF VestingEntry
<1>3. vesting' = [vesting EXCEPT ![to][<<from, nonce>>] = e]
  BY DEF Vest
<1> HIDE DEF e
<1>4. vesting' \in [Users -> [VestIds -> VestingEntry]]
  BY <1>2, <1>3 DEF TypeOK
<1> QED
  BY <1>1, <1>4, BoundsType
  DEF TypeOK, Vest, ConsumeNonce, CollectFee, Executing, chain, staking, supply

\* Credentials touch nothing but a nonce and their records.
LEMMA CredentialType ==
    ASSUME TypeOK, NEW from \in Users, NEW id \in CredentialIds, NEW nonce \in Nonces,
           Issue(from, id, nonce) \/ Revoke(from, id, nonce)
    PROVE  TypeOK'
<1>1. credentials' \subseteq [id : CredentialIds, issuer : Users, revoked : BOOLEAN]
  <2>1. CASE Issue(from, id, nonce)
    <3>1. [id |-> id, issuer |-> from, revoked |-> FALSE]
             \in [id : CredentialIds, issuer : Users, revoked : BOOLEAN]
      OBVIOUS
    <3>2. credentials' = credentials \cup {[id |-> id, issuer |-> from, revoked |-> FALSE]}
      BY <2>1 DEF Issue
    <3> QED BY <3>1, <3>2 DEF TypeOK
  <2>2. CASE Revoke(from, id, nonce)
    <3>1. PICK c \in credentials :
             credentials' = (credentials \ {c}) \cup {[c EXCEPT !.revoked = TRUE]}
      BY <2>2 DEF Revoke
    <3> QED BY <3>1 DEF TypeOK
  <2> QED BY <2>1, <2>2
<1>2. /\ ConsumeNonce(from, nonce)
      /\ UNCHANGED <<chain, balances, staking, vesting, slashed_offenses, base_fee, fee_pot,
                     supply, fee_txs, offence>>
  BY DEF Issue, Revoke
<1>3. nonces' \in [Users -> Nat]
  BY <1>2, BoundsType DEF TypeOK, ConsumeNonce
<1> QED BY <1>1, <1>2, <1>3 DEF TypeOK, Executing, chain, staking, supply

LEMMA RewardType ==
    ASSUME TypeOK, Reward
    PROVE  TypeOK'
<1>1. producer \in Accounts /\ BlockReward(Height) \in Nat
  BY HeightType DEF Reward, Accounts
<1> QED BY <1>1 DEF TypeOK, Reward, Executing, staking

LEMMA SlashStepType ==
    ASSUME TypeOK, NEW v \in Users, NEW index \in OffenceIndices, Slash(v, index)
    PROVE  TypeOK'
<1> DEFINE slashed == SlashAmount(v)
           bonded == Least(slashed, stake[v])
<1>1. slashed \in Nat
  BY SlashType
<1>2. bonded \in Nat /\ bonded <= slashed /\ bonded <= stake[v]
  BY <1>1 DEF Least, TypeOK
<1>3. DrainOldest(unbonding[v], slashed - bonded) \in [ReleaseHeights -> Nat]
  BY <1>1, <1>2, DrainType DEF TypeOK
<1>4. /\ balances' = [balances EXCEPT ![STAKING_POOL_ACCOUNT] = @ - slashed]
      /\ balances[STAKING_POOL_ACCOUNT] >= slashed
      /\ burned' = burned + slashed
      /\ total_supply' = Minus(total_supply, slashed)
      /\ stake' = [stake EXCEPT ![v] = @ - bonded]
      /\ unbonding' = [unbonding EXCEPT ![v] = DrainOldest(@, slashed - bonded)]
      /\ offence' = {[o EXCEPT !.exposed = IF o.validator = v THEN Minus(@, slashed) ELSE @]
                          : o \in offence}
  BY DEF Slash
<1> HIDE DEF slashed, bonded
<1>5. balances' \in [Accounts -> Nat]
  BY <1>1, <1>4 DEF TypeOK, Accounts
<1>6. burned' \in Nat /\ total_supply' \in Nat /\ stake' \in [Users -> Nat]
  BY <1>1, <1>2, <1>4 DEF TypeOK, Minus
<1>7. unbonding' \in [Users -> [ReleaseHeights -> Nat]]
  BY <1>3, <1>4 DEF TypeOK
<1>8. offence' \subseteq [validator : Users, index : Nat, exposed : Nat]
  <2> SUFFICES ASSUME NEW o \in offence
               PROVE  [o EXCEPT !.exposed = IF o.validator = v THEN Minus(@, slashed) ELSE @]
                         \in [validator : Users, index : Nat, exposed : Nat]
    BY <1>4
  <2>1. o \in [validator : Users, index : Nat, exposed : Nat]
    BY DEF TypeOK
  <2> QED BY <2>1, <1>1 DEF Minus
<1>9. slashed_offenses' \subseteq Users \X OffenceIndices
  BY DEF TypeOK, Slash
<1> QED
  BY <1>5, <1>6, <1>7, <1>8, <1>9 DEF TypeOK, Slash, Executing, chain

\* An entry stays an entry when end_block releases from it.
LEMMA AfterReleaseType ==
    ASSUME NEW e \in VestingEntry, Height \in Nat
    PROVE  AfterRelease(e) \in VestingEntry
<1>1. NoVesting \in VestingEntry
  BY DEF NoVesting, VestingEntry
<1>2. VestedAt(e, Height) \in Nat
  BY VestedAtType DEF VestingEntry
<1>3. e.released + NewlyVested(e) \in Nat
  BY <1>2 DEF NewlyVested, Minus, VestingEntry
<1> QED BY <1>1, <1>3 DEF AfterRelease, VestingEntry

LEMMA EndBlockType ==
    ASSUME TypeOK, EndBlock
    PROVE  TypeOK'
<1>1. vesting' \in [Users -> [VestIds -> VestingEntry]]
  BY AfterReleaseType, HeightType DEF TypeOK, EndBlock
<1>2. balances' \in [Accounts -> Nat]
  <2> DEFINE matured == Total([u \in Users |-> Matured(u)])
             vested == Total([u \in Users |-> VestedFor(u)])
  <2>1. matured \in Nat /\ vested \in Nat
    <3> DEFINE m == [u \in Users |-> Matured(u)]
               w == [u \in Users |-> VestedFor(u)]
    <3>1. m \in [Users -> Nat] /\ w \in [Users -> Nat]
      BY PayoutType
    <3> HIDE DEF m, w
    <3>2. Total(m) \in Nat /\ Total(w) \in Nat
      BY <3>1, FiniteDomains, TotalType
    <3> QED BY <3>2 DEF m, w
  <2>2. balances' = [a \in Accounts |->
          CASE a = STAKING_POOL_ACCOUNT -> DebitOrSkip(balances[a], matured)
            [] a = VESTING_POOL_ACCOUNT -> DebitOrSkip(balances[a], vested)
            [] OTHER -> balances[a] + Payout(a)]
    BY DEF EndBlock
  <2> HIDE DEF matured, vested
  <2>3. \A a \in Accounts : a # STAKING_POOL_ACCOUNT /\ a # VESTING_POOL_ACCOUNT => a \in Users
    BY DEF Accounts
  <2>4. \A a \in Accounts : balances[a] \in Nat
    BY DEF TypeOK
  <2>5. \A a \in Users : Payout(a) \in Nat
    BY PayoutType
  <2>6. \A a \in Accounts : balances'[a] \in Nat
    <3> SUFFICES ASSUME NEW a \in Accounts PROVE balances'[a] \in Nat
      OBVIOUS
    <3>1. CASE a = STAKING_POOL_ACCOUNT
      BY <3>1, <2>1, <2>2, <2>4 DEF DebitOrSkip
    <3>2. CASE a = VESTING_POOL_ACCOUNT
      BY <3>2, <2>1, <2>2, <2>4, AccountsAssumption DEF DebitOrSkip
    <3>3. CASE a # STAKING_POOL_ACCOUNT /\ a # VESTING_POOL_ACCOUNT
      BY <3>3, <2>2, <2>3, <2>4, <2>5
    <3> QED BY <3>1, <3>2, <3>3
  <2> QED BY <2>2, <2>6
<1>3. base_fee' \in Nat \ {0}
  <2>1. FeePayers \in Nat
    <3>1. ASSUME NEW a \in Nat, NEW b \in Nat \ {0} PROVE a \div b \in Nat
      OBVIOUS
    <3> QED BY <3>1 DEF TypeOK, FeePayers
  <2>2. base_fee' = next_base_fee(base_fee, FeePayers)
    BY DEF EndBlock
  <2> QED BY <2>1, <2>2, NextBaseFeeRange DEF TypeOK
<1>4. unbonding' \in [Users -> [ReleaseHeights -> Nat]]
  BY DEF TypeOK, EndBlock
<1>5. height' \in 0 .. MaxHeight /\ producer' = NoProducer
  BY HeightType, HeightsAssumption DEF EndBlock
<1> QED
  BY <1>1, <1>2, <1>3, <1>4, <1>5, HeightsAssumption DEF TypeOK, EndBlock, Executing, supply

\* Every step keeps the types.
LEMMA NextType ==
    ASSUME TypeOK, [Next]_vars
    PROVE  TypeOK'
<1>1. ASSUME NEW v \in Users, BeginBlock(v) PROVE TypeOK'
  BY <1>1, BeginBlockType
<1>2. ASSUME NEW from \in Users, NEW to \in Users, NEW amount \in Amounts,
             NEW nonce \in Nonces, Transfer(from, to, amount, nonce)
      PROVE  TypeOK'
  BY <1>2, TransferType
<1>3. ASSUME NEW from \in Users, NEW amount \in Amounts, NEW nonce \in Nonces,
             Stake(from, amount, nonce)
      PROVE  TypeOK'
  BY <1>3, StakeType
<1>4. ASSUME NEW from \in Users, NEW amount \in Amounts, NEW nonce \in Nonces,
             Withdraw(from, amount, nonce)
      PROVE  TypeOK'
  BY <1>4, WithdrawType
<1>5. ASSUME NEW from \in Users, NEW to \in Users, NEW amount \in Amounts,
             NEW s \in Schedules, NEW nonce \in Nonces, Vest(from, to, amount, s, nonce)
      PROVE  TypeOK'
  BY <1>5, VestType
<1>6. CASE Reward
  BY <1>6, RewardType
<1>7. ASSUME NEW v \in Users, NEW index \in OffenceIndices, Slash(v, index) PROVE TypeOK'
  BY <1>7, SlashStepType
<1>8. CASE EndBlock
  BY <1>8, EndBlockType
<1>9. ASSUME NEW from \in Users, NEW id \in CredentialIds, NEW nonce \in Nonces,
             Issue(from, id, nonce) \/ Revoke(from, id, nonce)
      PROVE  TypeOK'
  BY <1>9, CredentialType
<1>10. CASE UNCHANGED vars
  BY <1>10 DEF TypeOK, Executing, vars, chain, staking, supply
<1> QED BY <1>1, <1>2, <1>3, <1>4, <1>5, <1>6, <1>7, <1>8, <1>9, <1>10 DEF Next

\* Type correctness of the ledger in every reachable state.  In particular no
\* balance, bond, unbonding entry or pot is ever below zero: the unsigned
\* arithmetic of state.rs never underflows.
THEOREM TypeCorrect == Spec => []TypeOK
<1>1. Init => TypeOK
  BY InitType
<1>2. TypeOK /\ [Next]_vars => TypeOK'
  BY NextType
<1> QED BY <1>1, <1>2, PTL DEF Spec

-----------------------------------------------------------------------------
(* The fee market: dividing the pot of a block by the base fee counts its   *)
(* fee-paying transactions, for every fee schedule.                        *)

\* The pot is what the transactions counted so far paid, at one fee.
PotIsFees == TypeOK /\ fee_pot = base_fee * fee_txs

\* Division undoes multiplication.
LEMMA QuotientExact ==
    ASSUME NEW b \in Nat \ {0}, NEW n \in Nat
    PROVE  (b * n) \div b = n /\ (b * n) % b = 0
<1> DEFINE q == (b * n) \div b
           r == (b * n) % b
<1>1. b * n \in Nat
  OBVIOUS
<1>2. q \in Int /\ r \in 0 .. b - 1 /\ b * n = b * q + r
  BY <1>1
<1>3. b * (n - q) = r
  BY <1>2
<1>4. CASE n - q = 0
  BY <1>2, <1>3, <1>4
<1>5. CASE n - q >= 1
  <2>1. b * (n - q) >= b
    BY <1>2, <1>5
  <2> QED BY <1>2, <1>3, <2>1
<1>6. CASE n - q <= -1
  <2>1. b * (n - q) <= -b
    BY <1>2, <1>6
  <2> QED BY <1>2, <1>3, <2>1
<1> QED BY <1>2, <1>4, <1>5, <1>6

LEMMA PotExact == PotIsFees => FeePayers = fee_txs /\ fee_pot % base_fee = 0
BY QuotientExact DEF PotIsFees, TypeOK, FeePayers

LEMMA InitPot == Init => PotIsFees
<1> SUFFICES ASSUME Init PROVE PotIsFees
  OBVIOUS
<1>1. fee_pot = 0 /\ fee_txs = 0 /\ TypeOK
  BY InitType DEF Init
<1> QED BY <1>1 DEF PotIsFees, TypeOK

\* One more fee of the same size.
LEMMA CollectPot ==
    ASSUME PotIsFees, TypeOK', CollectFee, UNCHANGED base_fee
    PROVE  PotIsFees' /\ Market!Pay
<1>1. base_fee * (fee_txs + 1) = base_fee * fee_txs + base_fee
  BY DEF PotIsFees, TypeOK
<1> QED BY <1>1 DEF PotIsFees, CollectFee, Market!Pay

\* What leaves pot, fee and count alone.
LEMMA IdlePot ==
    ASSUME PotIsFees, TypeOK', UNCHANGED <<base_fee, fee_pot, fee_txs>>
    PROVE  PotIsFees' /\ UNCHANGED Market!vars
BY DEF PotIsFees, Market!vars

LEMMA EndBlockPot ==
    ASSUME PotIsFees, TypeOK', EndBlock
    PROVE  PotIsFees' /\ Market!Close
<1>1. fee_pot' = 0 /\ fee_txs' = 0 /\ base_fee' = next_base_fee(base_fee, FeePayers)
  BY DEF EndBlock
<1>2. FeePayers = fee_txs
  BY PotExact
<1>3. base_fee' * 0 = 0
  <2>1. \A n \in Nat : n * 0 = 0
    OBVIOUS
  <2>2. base_fee' \in Nat
    BY DEF TypeOK
  <2> QED BY <2>1, <2>2
<1> QED
  BY <1>1, <1>2, <1>3
  DEF PotIsFees, Market!Close, Market!next_base_fee, next_base_fee, Market!Clamp, Clamp,
      Market!Step, Step, Market!AtLeastOne, AtLeastOne, Market!Minus, Minus,
      Market!Least, Least

\* Every step of the ledger keeps the pot exact, and is a step of the fee
\* market or none at all.
LEMMA NextPot ==
    ASSUME PotIsFees, [Next]_vars
    PROVE  PotIsFees' /\ [Market!Next]_(Market!vars)
<1>0. TypeOK'
  BY NextType DEF PotIsFees
<1>1. ASSUME CollectFee, UNCHANGED base_fee
      PROVE  PotIsFees' /\ [Market!Next]_(Market!vars)
  BY <1>0, <1>1, CollectPot DEF Market!Next
<1>2. ASSUME UNCHANGED <<base_fee, fee_pot, fee_txs>>
      PROVE  PotIsFees' /\ [Market!Next]_(Market!vars)
  BY <1>0, <1>2, IdlePot
<1>3. ASSUME NEW v \in Users, BeginBlock(v)
      PROVE  PotIsFees' /\ [Market!Next]_(Market!vars)
  BY <1>2, <1>3 DEF BeginBlock
<1>4. ASSUME NEW from \in Users, NEW to \in Users, NEW amount \in Amounts,
             NEW nonce \in Nonces, Transfer(from, to, amount, nonce)
      PROVE  PotIsFees' /\ [Market!Next]_(Market!vars)
  BY <1>1, <1>4 DEF Transfer
<1>5. ASSUME NEW from \in Users, NEW amount \in Amounts, NEW nonce \in Nonces,
             Stake(from, amount, nonce)
      PROVE  PotIsFees' /\ [Market!Next]_(Market!vars)
  BY <1>1, <1>5 DEF Stake
<1>6. ASSUME NEW from \in Users, NEW amount \in Amounts, NEW nonce \in Nonces,
             Withdraw(from, amount, nonce)
      PROVE  PotIsFees' /\ [Market!Next]_(Market!vars)
  BY <1>1, <1>6 DEF Withdraw
<1>7. ASSUME NEW from \in Users, NEW to \in Users, NEW amount \in Amounts,
             NEW s \in Schedules, NEW nonce \in Nonces, Vest(from, to, amount, s, nonce)
      PROVE  PotIsFees' /\ [Market!Next]_(Market!vars)
  BY <1>1, <1>7 DEF Vest
<1>8. CASE Reward
  BY <1>2, <1>8 DEF Reward
<1>9. ASSUME NEW v \in Users, NEW index \in OffenceIndices, Slash(v, index)
      PROVE  PotIsFees' /\ [Market!Next]_(Market!vars)
  BY <1>2, <1>9 DEF Slash
<1>10. CASE EndBlock
  BY <1>0, <1>10, EndBlockPot DEF Market!Next
<1>11. CASE UNCHANGED vars
  BY <1>2, <1>11 DEF vars
<1>12. ASSUME NEW from \in Users, NEW id \in CredentialIds, NEW nonce \in Nonces,
              Issue(from, id, nonce) \/ Revoke(from, id, nonce)
       PROVE  PotIsFees' /\ [Market!Next]_(Market!vars)
  BY <1>2, <1>12 DEF Issue, Revoke
<1> QED
  BY <1>3, <1>4, <1>5, <1>6, <1>7, <1>8, <1>9, <1>10, <1>11, <1>12 DEF Next

LEMMA PotInvariant == Spec => []PotIsFees
<1>1. Init => PotIsFees
  BY InitPot
<1>2. PotIsFees /\ [Next]_vars => PotIsFees'
  BY NextPot
<1> QED BY <1>1, <1>2, PTL DEF Spec

\* The number of fee-paying transactions that end_block infers from the pot is
\* the true one, for every fee and every block.
THEOREM FeeCountIsExact == Spec => []FeeCountExact
<1>1. PotIsFees => FeeCountExact
  BY PotExact DEF FeeCountExact
<1> QED BY <1>1, PotInvariant, PTL

\* Every step of the ledger is a step of the market or none: what is shown below of
\* the market's fee holds of the chain's.
LEMMA LedgerIsMarket == Spec => Market!Spec
<1>1. Init => Market!Init
  BY DEF Init, Market!Init
<1>2. PotIsFees /\ [Next]_vars => [Market!Next]_(Market!vars)
  BY NextPot
<1> QED BY <1>1, <1>2, PotInvariant, PTL DEF Spec, Market!Spec

-----------------------------------------------------------------------------
(* The fee market, for every floor, ceiling, target and block size         *)

\* The market computes the fee as the ledger does.
LEMMA SameFee ==
    /\ Market!Close <=> base_fee' = next_base_fee(base_fee, fee_txs) /\ fee_txs' = 0
    /\ Market!AtMostAnEighth <=>
          /\ base_fee' - base_fee <= AtLeastOne(base_fee \div 8)
          /\ base_fee - base_fee' <= AtLeastOne(base_fee \div 8)
BY DEF Market!Close, Market!next_base_fee, next_base_fee, Market!Clamp, Clamp, Market!Step, Step,
       Market!AtLeastOne, AtLeastOne, Market!Minus, Minus, Market!Least, Least,
       Market!AtMostAnEighth

\* A payment and the end of a block leave the fee in its bounds.
LEMMA MarketBounded ==
    ASSUME Market!FeeBounded, [Market!Next]_(Market!vars)
    PROVE  Market!FeeBounded'
<1>1. CASE Market!Pay
  BY <1>1, FeesAssumption DEF Market!Pay, Market!FeeBounded
<1>2. CASE Market!Close
  <2>1. base_fee \in Nat
    BY FeesAssumption DEF Market!FeeBounded
  <2> QED BY <1>2, <2>1, SameFee, NextBaseFeeRange DEF Market!FeeBounded
<1>3. CASE UNCHANGED Market!vars
  BY <1>3 DEF Market!vars, Market!FeeBounded
<1> QED BY <1>1, <1>2, <1>3 DEF Market!Next

\* The fee stays within the floor and the ceiling the code documents.
THEOREM FeeStaysBounded == Market!Spec => []Market!FeeBounded
<1>1. Market!Init => Market!FeeBounded
  BY FeesAssumption DEF Market!Init, Market!FeeBounded
<1> QED BY <1>1, MarketBounded, PTL DEF Market!Spec

\* Congestion and quiet always move the fee, towards the right side.
THEOREM FeeAlwaysFollowsDemand == Market!Spec => Market!FeeFollowsDemand
<1>1. ASSUME Market!FeeBounded, [Market!Next]_(Market!vars)
      PROVE  [fee_txs' = 0 =>
              /\ fee_txs > BASE_FEE_TARGET_TXS => base_fee' > base_fee \/ base_fee' = BASE_FEE_MAX
              /\ fee_txs < BASE_FEE_TARGET_TXS => base_fee' < base_fee \/ base_fee' = TX_FEE
              /\ fee_txs = BASE_FEE_TARGET_TXS => base_fee' = base_fee]_(Market!vars)
  <2>1. CASE Market!Pay
    BY <1>1, <2>1 DEF Market!Pay, Market!FeeBounded
  <2>2. CASE Market!Close
    BY <1>1, <2>2, SameFee, NextBaseFeeMoves DEF Market!FeeBounded
  <2> QED BY <1>1, <2>1, <2>2 DEF Market!Next
<1> QED BY <1>1, FeeStaysBounded, PTL DEF Market!Spec, Market!FeeFollowsDemand

\* The ledger implements the fee market, and so its fee follows the demand that the
\* market counts although the ledger infers it from the pot.
THEOREM LedgerImplementsFeeMarket == Spec => ImplementsFeeMarket
BY LedgerIsMarket, FeeAlwaysFollowsDemand DEF ImplementsFeeMarket

\* Blocks of up to twice the target, which is all this program builds, move the
\* fee by at most an eighth.
THEOREM OwnBlocksAreGentle == Market!Spec => Market!OwnBlocksStepAnEighth
<1>1. ASSUME Market!FeeBounded, [Market!Next]_(Market!vars)
      PROVE  [fee_txs <= 2 * BASE_FEE_TARGET_TXS => Market!AtMostAnEighth]_(Market!vars)
  <2>1. CASE Market!Pay
    <3>1. base_fee \in Nat
      BY <1>1, FeesAssumption DEF Market!FeeBounded
    <3> QED BY <2>1, <3>1, SameFee DEF Market!Pay, AtLeastOne
  <2>2. CASE Market!Close
    BY <1>1, <2>2, SameFee, NextBaseFeeMoves DEF Market!FeeBounded
  <2> QED BY <1>1, <2>1, <2>2 DEF Market!Next
<1> QED BY <1>1, FeeStaysBounded, PTL DEF Market!Spec, Market!OwnBlocksStepAnEighth

\* Both together: the base fee of a chain stays in its bounds and follows demand,
\* and blocks of this program's size move it gently.
THEOREM LedgerFeeIsSound ==
    Spec => []Market!FeeBounded /\ Market!FeeFollowsDemand /\ Market!OwnBlocksStepAnEighth
BY LedgerIsMarket, FeeStaysBounded, FeeAlwaysFollowsDemand, OwnBlocksAreGentle

-----------------------------------------------------------------------------
(* Conservation and solvency: no HKM is created or lost, and both pools    *)
(* hold exactly what they owe.  The three laws need each other: end_block  *)
(* credits what matured whether or not the pool could be debited, so the   *)
(* supply is conserved only if the pools are solvent.  They also need      *)
(* VestingFresh.                                                           *)

\* Entries release no more than their total, and the place of a Vest that has
\* not been sent is empty, so a new entry replaces nothing.
VestingFresh ==
    \A u \in Users, id \in VestIds :
        /\ vesting[u][id].released <= vesting[u][id].total
        /\ id[2] > nonces[id[1]] => vesting[u][id] = NoVesting

\* The inductive invariant.
Funds ==
    /\ TypeOK
    /\ SupplyConserved
    /\ StakingPoolSolvent
    /\ VestingPoolSolvent
    /\ VestingFresh

\* What the pools owe.
Bonded == Total(stake)
Unbonding == Total([v \in Users |-> UnbondingTotal(v)])
LockedAll == Total([u \in Users |-> Locked(u)])

-----------------------------------------------------------------------------
(* The quantities of the laws                                              *)

LEMMA SolventDef ==
    /\ StakingPoolSolvent <=> balances[STAKING_POOL_ACCOUNT] = Bonded + Unbonding
    /\ VestingPoolSolvent <=> balances[VESTING_POOL_ACCOUNT] = LockedAll
BY DEF StakingPoolSolvent, VestingPoolSolvent, Bonded, Unbonding, LockedAll

LEMMA SolventDefNext ==
    /\ StakingPoolSolvent' <=> balances'[STAKING_POOL_ACCOUNT] = Bonded' + Unbonding'
    /\ VestingPoolSolvent' <=> balances'[VESTING_POOL_ACCOUNT] = LockedAll'
BY DEF StakingPoolSolvent, VestingPoolSolvent, Bonded, Unbonding, LockedAll

LEMMA OwedUnchanged ==
    /\ UNCHANGED stake => Bonded' = Bonded
    /\ UNCHANGED unbonding => Unbonding' = Unbonding
    /\ UNCHANGED vesting => LockedAll' = LockedAll
BY DEF Bonded, Unbonding, UnbondingTotal, LockedAll, Locked

\* What the pools owe are natural amounts.
LEMMA OwedType ==
    ASSUME TypeOK, VestingFresh
    PROVE  /\ Bonded \in Nat /\ Unbonding \in Nat /\ LockedAll \in Nat
           /\ [v \in Users |-> UnbondingTotal(v)] \in [Users -> Nat]
           /\ [u \in Users |-> Locked(u)] \in [Users -> Nat]
           /\ \A u \in Users : Locked(u) \in Nat
<1>1. Bonded \in Nat
  BY FiniteDomains, TotalType DEF Bonded, TypeOK
<1>2. \A v \in Users : UnbondingTotal(v) \in Nat
  BY SlashType
<1>3. ASSUME NEW u \in Users PROVE Locked(u) \in Nat
  <2> DEFINE open == [id \in VestIds |-> vesting[u][id].total - vesting[u][id].released]
  <2>1. open \in [VestIds -> Nat]
    BY DEF VestingFresh, TypeOK, VestingEntry
  <2> HIDE DEF open
  <2>2. Total(open) \in Nat
    BY <2>1, FiniteDomains, TotalType
  <2> QED BY <2>2 DEF Locked, open
<1>4. ASSUME NEW f \in [Users -> Nat] PROVE Total(f) \in Nat
  BY FiniteDomains, TotalType
<1>5. Unbonding \in Nat /\ LockedAll \in Nat
  BY <1>2, <1>3, <1>4 DEF Unbonding, LockedAll
<1> QED BY <1>1, <1>2, <1>3, <1>5

\* A payment changes the total by the fee, and only the two ends of it.
LEMMA PayTotal ==
    ASSUME TypeOK, NEW from \in Users, NEW to \in Accounts, NEW amount \in Nat,
           CanPay(from, amount), Pay(from, to, amount)
    PROVE  /\ Total(balances') = Total(balances) - base_fee
           /\ \A a \in Accounts \ {from, to} : balances'[a] = balances[a]
           /\ to # from => balances'[to] = balances[to] + amount
<1>1. from \in Accounts /\ base_fee \in Nat /\ balances \in [Accounts -> Nat]
  BY DEF Accounts, TypeOK
<1>2. balances[from] \in Nat /\ balances[from] >= amount + base_fee
  BY <1>1 DEF CanPay
<1>3. PICK debited :
         /\ debited = [balances EXCEPT ![from] = @ - (amount + base_fee)]
         /\ balances' = [debited EXCEPT ![to] = @ + amount]
  BY DEF Pay
<1>4. /\ debited \in [Accounts -> Nat]
      /\ debited[from] = balances[from] - (amount + base_fee)
      /\ \A a \in Accounts \ {from} : debited[a] = balances[a]
  BY <1>1, <1>2, <1>3
<1>5. /\ balances' \in [Accounts -> Nat]
      /\ balances'[to] = debited[to] + amount
      /\ \A a \in Accounts \ {to} : balances'[a] = debited[a]
  BY <1>3, <1>4
<1>6. Total(debited) = Total(balances) - balances[from] + debited[from]
  BY <1>1, <1>4, FiniteDomains, TotalOneChange
<1>7. Total(balances') = Total(debited) - debited[to] + balances'[to]
  BY <1>4, <1>5, FiniteDomains, TotalOneChange
<1>8. Total(balances) \in Nat /\ Total(debited) \in Nat /\ debited[to] \in Nat
  BY <1>1, <1>4, FiniteDomains, TotalType
<1> QED BY <1>1, <1>2, <1>4, <1>5, <1>6, <1>7, <1>8

\* A transaction that debits only the base fee.
LEMMA FeeTotal ==
    ASSUME TypeOK, TypeOK', NEW from \in Accounts, CanPay(from, 0),
           balances'[from] = balances[from] - base_fee,
           \A a \in Accounts \ {from} : balances'[a] = balances[a]
    PROVE  Total(balances') = Total(balances) - base_fee
<1>1. balances \in [Accounts -> Nat] /\ balances' \in [Accounts -> Nat]
  BY DEF TypeOK
<1>2. Total(balances') = Total(balances) - balances[from] + balances'[from]
  BY <1>1, FiniteDomains, TotalOneChange
<1>3. Total(balances) \in Nat /\ base_fee \in Nat /\ balances[from] \in Nat
  BY <1>1, FiniteDomains, TotalType DEF TypeOK
<1> QED BY <1>2, <1>3

\* Users are not pools.
LEMMA PoolsApart ==
    /\ \A u \in Users : u # STAKING_POOL_ACCOUNT /\ u # VESTING_POOL_ACCOUNT
    /\ STAKING_POOL_ACCOUNT # VESTING_POOL_ACCOUNT
    /\ STAKING_POOL_ACCOUNT \in Accounts /\ VESTING_POOL_ACCOUNT \in Accounts
    /\ Users \subseteq Accounts
BY AccountsAssumption DEF Accounts

-----------------------------------------------------------------------------
(* The invariant, action by action                                         *)

LEMMA InitFunds == Init => Funds
<1> SUFFICES ASSUME Init PROVE Funds
  OBVIOUS
<1> USE PoolsApart, FiniteDomains
<1> DEFINE bonded == Least(GENESIS_VALIDATOR_STAKE, InitialSupply)
           first == [a \in Accounts |-> IF a = Treasury THEN InitialSupply - bonded ELSE 0]
<1>1. TypeOK
  BY InitType
<1>2. bonded \in Nat /\ InitialSupply - bonded \in Nat /\ Treasury \in Users
  BY AmountsAssumption, AccountsAssumption DEF Least
<1>3. /\ balances[Treasury] = InitialSupply - bonded
      /\ balances[STAKING_POOL_ACCOUNT] = bonded
      /\ \A a \in Accounts \ {Treasury, STAKING_POOL_ACCOUNT} : balances[a] = 0
      /\ stake[Treasury] = bonded
      /\ \A v \in Users \ {Treasury} : stake[v] = 0
      /\ fee_pot = 0 /\ total_supply = InitialSupply
      /\ \A v \in Users, r \in ReleaseHeights : unbonding[v][r] = 0
      /\ \A u \in Users, id \in VestIds : vesting[u][id] = NoVesting
  BY <1>2 DEF Init
<1> HIDE DEF bonded
<1>4. Total(balances) = InitialSupply
  <2>1. first \in [Accounts -> Nat] /\ first[Treasury] = InitialSupply - bonded
        /\ first[STAKING_POOL_ACCOUNT] = 0
        /\ \A a \in Accounts \ {Treasury} : first[a] = 0
    BY <1>2
  <2> HIDE DEF first
  <2>2. Total(first) = InitialSupply - bonded
    BY <2>1, <1>2, TotalSingle
  <2>3. \A a \in Accounts \ {STAKING_POOL_ACCOUNT} : balances[a] = first[a]
    BY <2>1, <1>3
  <2>4. balances \in [Accounts -> Nat]
    BY <1>1 DEF TypeOK
  <2>5. Total(balances) = Total(first) - first[STAKING_POOL_ACCOUNT]
                            + balances[STAKING_POOL_ACCOUNT]
    BY <2>1, <2>3, <2>4, TotalOneChange
  <2> QED BY <2>1, <2>2, <2>5, <1>2, <1>3, AmountsAssumption
<1>5. SupplyConserved
  BY <1>3, <1>4, AmountsAssumption DEF SupplyConserved
<1>6. VestingFresh
  BY <1>3 DEF VestingFresh, NoVesting
<1>7. Bonded = bonded
  BY <1>1, <1>2, <1>3, TotalSingle DEF Bonded, TypeOK
<1>8. Unbonding = 0
  <2>1. \A v \in Users : UnbondingTotal(v) = 0
    BY <1>1, <1>3, TotalZero DEF UnbondingTotal, TypeOK
  <2>2. ASSUME NEW f \in [Users -> Nat], \A v \in Users : f[v] = 0 PROVE Total(f) = 0
    BY <2>2, TotalZero
  <2> QED BY <2>1, <2>2 DEF Unbonding
<1>9. LockedAll = 0
  <2>1. ASSUME NEW u \in Users PROVE Locked(u) = 0
    <3>1. ASSUME NEW f \in [VestIds -> Nat], \A id \in VestIds : f[id] = 0 PROVE Total(f) = 0
      BY <3>1, TotalZero
    <3> QED BY <3>1, <1>3 DEF Locked, NoVesting
  <2>2. ASSUME NEW f \in [Users -> Nat], \A v \in Users : f[v] = 0 PROVE Total(f) = 0
    BY <2>2, TotalZero
  <2> QED BY <2>1, <2>2 DEF LockedAll
<1>10. StakingPoolSolvent /\ VestingPoolSolvent
  BY <1>2, <1>3, <1>7, <1>8, <1>9, SolventDef
<1> QED BY <1>1, <1>5, <1>6, <1>10 DEF Funds

LEMMA BeginBlockFunds ==
    ASSUME Funds, NEW v \in Users, BeginBlock(v)
    PROVE  Funds'
<1>1. TypeOK'
  BY BeginBlockType DEF Funds
<1>2. SupplyConserved' /\ VestingFresh'
  BY DEF Funds, SupplyConserved, VestingFresh, BeginBlock, supply
<1>3. StakingPoolSolvent' /\ VestingPoolSolvent'
  BY SolventDef, SolventDefNext, OwedUnchanged DEF Funds, BeginBlock, staking
<1> QED BY <1>1, <1>2, <1>3 DEF Funds

\* The nonce of a sender only grows, so unsent places stay unsent.
LEMMA FreshKept ==
    ASSUME TypeOK, VestingFresh, NEW from \in Users, NEW nonce \in Nonces,
           ConsumeNonce(from, nonce), UNCHANGED vesting
    PROVE  VestingFresh'
<1>1. \A u \in Users : nonces'[u] >= nonces[u] /\ nonces'[u] \in Nat /\ nonces[u] \in Nat
  BY DEF ConsumeNonce, TypeOK
<1>2. \A id \in VestIds : id[1] \in Users /\ id[2] \in Nat
  BY HeightsAssumption DEF VestIds
<1> QED BY <1>1, <1>2 DEF VestingFresh

LEMMA TransferFunds ==
    ASSUME Funds, NEW from \in Users, NEW to \in Users, NEW amount \in Amounts,
           NEW nonce \in Nonces, Transfer(from, to, amount, nonce)
    PROVE  Funds'
<1> USE PoolsApart
<1>1. TypeOK /\ TypeOK' /\ VestingFresh'
  BY TransferType, FreshKept DEF Funds, Transfer
<1>2. amount \in Nat /\ CanPay(from, amount) /\ Pay(from, to, amount)
  BY BoundsType DEF Transfer
<1>3. /\ Total(balances') = Total(balances) - base_fee
      /\ balances'[STAKING_POOL_ACCOUNT] = balances[STAKING_POOL_ACCOUNT]
      /\ balances'[VESTING_POOL_ACCOUNT] = balances[VESTING_POOL_ACCOUNT]
  BY <1>1, <1>2, PayTotal
<1>4. Total(balances) \in Nat
  BY <1>1, FiniteDomains, TotalType DEF TypeOK
<1>5. SupplyConserved'
  BY <1>1, <1>3, <1>4 DEF Funds, SupplyConserved, Transfer, CollectFee, supply, TypeOK
<1>6. StakingPoolSolvent' /\ VestingPoolSolvent'
  BY <1>3, SolventDef, SolventDefNext, OwedUnchanged DEF Funds, Transfer, staking
<1> QED BY <1>1, <1>5, <1>6 DEF Funds

LEMMA CredentialFunds ==
    ASSUME Funds, NEW from \in Users, NEW id \in CredentialIds, NEW nonce \in Nonces,
           Issue(from, id, nonce) \/ Revoke(from, id, nonce)
    PROVE  Funds'
<1>1. /\ ConsumeNonce(from, nonce)
      /\ UNCHANGED <<balances, staking, vesting, fee_pot, supply>>
  BY DEF Issue, Revoke
<1>2. TypeOK' /\ VestingFresh'
  BY <1>1, CredentialType, FreshKept DEF Funds
<1>3. SupplyConserved'
  BY <1>1 DEF Funds, SupplyConserved, supply
<1>4. StakingPoolSolvent' /\ VestingPoolSolvent'
  BY <1>1, SolventDef, SolventDefNext, OwedUnchanged DEF Funds, staking
<1> QED BY <1>2, <1>3, <1>4 DEF Funds

LEMMA StakeFunds ==
    ASSUME Funds, NEW from \in Users, NEW amount \in Amounts,
           NEW nonce \in Nonces, Stake(from, amount, nonce)
    PROVE  Funds'
<1> USE PoolsApart
<1>1. TypeOK /\ TypeOK' /\ VestingFresh'
  BY StakeType, FreshKept DEF Funds, Stake
<1>2. amount \in Nat /\ CanPay(from, amount) /\ Pay(from, STAKING_POOL_ACCOUNT, amount)
  BY BoundsType DEF Stake
<1>3. /\ Total(balances') = Total(balances) - base_fee
      /\ balances'[STAKING_POOL_ACCOUNT] = balances[STAKING_POOL_ACCOUNT] + amount
      /\ balances'[VESTING_POOL_ACCOUNT] = balances[VESTING_POOL_ACCOUNT]
  BY <1>1, <1>2, PayTotal
<1>4. Total(balances) \in Nat
  BY <1>1, FiniteDomains, TotalType DEF TypeOK
<1>5. SupplyConserved'
  BY <1>1, <1>3, <1>4 DEF Funds, SupplyConserved, Stake, CollectFee, supply, TypeOK
<1>6. Bonded' = Bonded + amount
  <2>1. /\ stake'[from] = stake[from] + amount
        /\ \A v \in Users \ {from} : stake'[v] = stake[v]
    BY <1>1 DEF Stake, TypeOK
  <2>2. stake \in [Users -> Nat] /\ stake' \in [Users -> Nat] /\ stake[from] \in Nat
    BY <1>1 DEF TypeOK
  <2>3. Total(stake') = Total(stake) - stake[from] + stake'[from]
    BY <2>1, <2>2, FiniteDomains, TotalOneChange
  <2>4. Total(stake) \in Nat
    BY <2>2, FiniteDomains, TotalType
  <2> QED BY <1>2, <2>1, <2>2, <2>3, <2>4 DEF Bonded
<1>7. /\ UNCHANGED unbonding /\ UNCHANGED vesting
      /\ StakingPoolSolvent /\ VestingPoolSolvent /\ VestingFresh
  BY DEF Funds, Stake
<1>8. Bonded \in Nat /\ Unbonding \in Nat
  BY <1>1, <1>7, OwedType
<1>9. StakingPoolSolvent' /\ VestingPoolSolvent'
  BY <1>2, <1>3, <1>6, <1>7, <1>8, SolventDef, SolventDefNext, OwedUnchanged
<1> QED BY <1>1, <1>5, <1>9 DEF Funds

\* Only v's part of the unbonding stake changes.
LEMMA UnbondingOneChange ==
    ASSUME TypeOK, TypeOK', NEW v \in Users,
           \A u \in Users \ {v} : unbonding'[u] = unbonding[u]
    PROVE  Unbonding' = Unbonding - UnbondingTotal(v) + Total(unbonding'[v])
<1>0. ASSUME NEW f \in [Users -> Nat], NEW g \in [Users -> Nat],
             \A u \in Users \ {v} : g[u] = f[u]
      PROVE  Total(g) = Total(f) - f[v] + g[v]
  BY <1>0, FiniteDomains, TotalOneChange
<1>1. ASSUME NEW f, NEW g,
             f = [u \in Users |-> UnbondingTotal(u)],
             g = [u \in Users |-> Total(unbonding'[u])]
      PROVE  Total(g) = Total(f) - f[v] + g[v]
  <2>1. \A u \in Users : Total(unbonding[u]) \in Nat /\ Total(unbonding'[u]) \in Nat
    BY FiniteDomains, TotalType DEF TypeOK
  <2>2. f \in [Users -> Nat] /\ g \in [Users -> Nat]
    BY <1>1, <2>1 DEF UnbondingTotal
  <2>3. \A u \in Users \ {v} : g[u] = f[u]
    BY <1>1 DEF UnbondingTotal
  <2> QED BY <2>2, <2>3, <1>0
<1>2. Unbonding' = Total([u \in Users |-> Total(unbonding'[u])])
  BY DEF Unbonding, UnbondingTotal
<1> QED BY <1>1, <1>2 DEF Unbonding

LEMMA WithdrawFunds ==
    ASSUME Funds, NEW from \in Users, NEW amount \in Amounts,
           NEW nonce \in Nonces, Withdraw(from, amount, nonce)
    PROVE  Funds'
<1> USE PoolsApart
<1>1. TypeOK /\ TypeOK' /\ VestingFresh'
  BY WithdrawType, FreshKept DEF Funds, Withdraw
<1>2. amount \in Nat /\ CanPay(from, 0) /\ stake[from] >= amount
      /\ balances' = [balances EXCEPT ![from] = @ - base_fee]
  BY BoundsType DEF Withdraw
<1>3. /\ Total(balances') = Total(balances) - base_fee
      /\ balances'[STAKING_POOL_ACCOUNT] = balances[STAKING_POOL_ACCOUNT]
      /\ balances'[VESTING_POOL_ACCOUNT] = balances[VESTING_POOL_ACCOUNT]
  <2>1. /\ balances'[from] = balances[from] - base_fee
        /\ \A a \in Accounts \ {from} : balances'[a] = balances[a]
        /\ from \in Accounts
    BY <1>1, <1>2 DEF TypeOK
  <2> QED BY <1>1, <1>2, <2>1, FeeTotal
<1>4. Total(balances) \in Nat
  BY <1>1, FiniteDomains, TotalType DEF TypeOK
<1>5. SupplyConserved'
  BY <1>1, <1>3, <1>4 DEF Funds, SupplyConserved, Withdraw, CollectFee, supply, TypeOK
<1>6. Bonded' = Bonded - amount
  <2>1. /\ stake'[from] = stake[from] - amount
        /\ \A v \in Users \ {from} : stake'[v] = stake[v]
    BY <1>1 DEF Withdraw, TypeOK
  <2>2. stake \in [Users -> Nat] /\ stake' \in [Users -> Nat] /\ stake[from] \in Nat
    BY <1>1 DEF TypeOK
  <2>3. Total(stake') = Total(stake) - stake[from] + stake'[from]
    BY <2>1, <2>2, FiniteDomains, TotalOneChange
  <2>4. Total(stake) \in Nat
    BY <2>2, FiniteDomains, TotalType
  <2> QED BY <1>2, <2>1, <2>2, <2>3, <2>4 DEF Bonded
<1>7. Unbonding' = Unbonding + amount
  <2>1. /\ \A u \in Users \ {from} : unbonding'[u] = unbonding[u]
        /\ unbonding'[from] = [unbonding[from] EXCEPT ![ReleaseHeight] = @ + amount]
    BY <1>1 DEF Withdraw, TypeOK
  <2>2. unbonding[from] \in [ReleaseHeights -> Nat] /\ unbonding'[from] \in [ReleaseHeights -> Nat]
    BY <1>1 DEF TypeOK
  <2>3. ReleaseHeight \in ReleaseHeights
    BY <1>1, HeightType DEF Withdraw
  <2>4. ASSUME NEW f \in [ReleaseHeights -> Nat], NEW r \in ReleaseHeights,
               NEW g \in [ReleaseHeights -> Nat], g = [f EXCEPT ![r] = @ + amount]
        PROVE  Total(g) = Total(f) + amount
    <3>1. g[r] = f[r] + amount /\ \A q \in ReleaseHeights \ {r} : g[q] = f[q]
      BY <2>4, <1>2
    <3>2. Total(g) = Total(f) - f[r] + g[r]
      BY <3>1, FiniteDomains, TotalOneChange, Zenon
    <3>3. Total(f) \in Nat /\ f[r] \in Nat
      BY FiniteDomains, TotalType
    <3> QED BY <3>1, <3>2, <3>3, <1>2
  <2>5. Total(unbonding'[from]) = UnbondingTotal(from) + amount
    BY <2>1, <2>2, <2>3, <2>4 DEF UnbondingTotal
  <2>6. Unbonding' = Unbonding - UnbondingTotal(from) + Total(unbonding'[from])
    BY <1>1, <2>1, UnbondingOneChange
  <2>7. Unbonding \in Nat /\ UnbondingTotal(from) \in Nat
    BY <1>1, OwedType, SlashType DEF Funds
  <2> QED BY <1>2, <2>5, <2>6, <2>7
<1>8. UNCHANGED vesting /\ StakingPoolSolvent /\ VestingPoolSolvent /\ VestingFresh
  BY DEF Funds, Withdraw
<1>9. Bonded \in Nat /\ Unbonding \in Nat
  BY <1>1, <1>8, OwedType
<1>10. StakingPoolSolvent' /\ VestingPoolSolvent'
  BY <1>2, <1>3, <1>6, <1>7, <1>8, <1>9, SolventDef, SolventDefNext, OwedUnchanged
<1> QED BY <1>1, <1>5, <1>10 DEF Funds

LEMMA RewardFunds ==
    ASSUME Funds, Reward
    PROVE  Funds'
<1> USE PoolsApart
<1>1. TypeOK /\ TypeOK'
  BY RewardType DEF Funds
<1>2. producer \in Users /\ BlockReward(Height) \in Nat
  BY <1>1, HeightType DEF Reward
<1>3. /\ balances'[producer] = balances[producer] + BlockReward(Height)
      /\ \A a \in Accounts \ {producer} : balances'[a] = balances[a]
  BY <1>1, <1>2 DEF Reward, TypeOK
<1>4. balances \in [Accounts -> Nat] /\ balances' \in [Accounts -> Nat] /\ producer \in Accounts
  BY <1>1, <1>2 DEF TypeOK
<1>5. Total(balances') = Total(balances) - balances[producer] + balances'[producer]
  BY <1>3, <1>4, FiniteDomains, TotalOneChange
<1>6. Total(balances) \in Nat /\ balances[producer] \in Nat
  BY <1>4, FiniteDomains, TotalType
<1>7. total_supply' = total_supply + BlockReward(Height) /\ UNCHANGED fee_pot
  BY DEF Reward
<1>8. SupplyConserved'
  BY <1>1, <1>2, <1>3, <1>5, <1>6, <1>7 DEF Funds, SupplyConserved, TypeOK
<1>9. VestingFresh' /\ UNCHANGED staking /\ UNCHANGED vesting
  BY DEF Funds, VestingFresh, Reward
<1>10. StakingPoolSolvent' /\ VestingPoolSolvent'
  BY <1>2, <1>3, <1>9, SolventDef, SolventDefNext, OwedUnchanged DEF Funds, staking
<1> QED BY <1>1, <1>8, <1>9, <1>10 DEF Funds

LEMMA VestFunds ==
    ASSUME Funds, NEW from \in Users, NEW to \in Users, NEW amount \in Amounts,
           NEW s \in Schedules, NEW nonce \in Nonces, Vest(from, to, amount, s, nonce)
    PROVE  Funds'
<1> USE PoolsApart
<1> DEFINE id == <<from, nonce>>
<1>1. TypeOK /\ TypeOK' /\ VestingFresh
  BY VestType DEF Funds
<1>2. amount \in Nat /\ CanPay(from, amount) /\ Pay(from, VESTING_POOL_ACCOUNT, amount)
  BY BoundsType DEF Vest
<1>3. /\ Total(balances') = Total(balances) - base_fee
      /\ balances'[STAKING_POOL_ACCOUNT] = balances[STAKING_POOL_ACCOUNT]
      /\ balances'[VESTING_POOL_ACCOUNT] = balances[VESTING_POOL_ACCOUNT] + amount
  BY <1>1, <1>2, PayTotal
<1>4. Total(balances) \in Nat
  BY <1>1, FiniteDomains, TotalType DEF TypeOK
<1>5. SupplyConserved'
  BY <1>1, <1>3, <1>4 DEF Funds, SupplyConserved, Vest, CollectFee, supply, TypeOK
<1>6. id \in VestIds /\ id[1] = from /\ id[2] = nonce
  BY DEF VestIds, Nonces
<1>7. nonces[from] \in Nat /\ nonce = nonces[from] + 1
      /\ nonces' = [nonces EXCEPT ![from] = nonce]
  BY <1>1 DEF Vest, ConsumeNonce, TypeOK
<1>8. vesting[to][id] = NoVesting
  BY <1>1, <1>6, <1>7 DEF VestingFresh
<1>9. PICK e \in VestingEntry :
         /\ e.total = amount /\ e.released = 0
         /\ vesting' = [vesting EXCEPT ![to][id] = e]
  <2> DEFINE e == [total |-> amount, released |-> 0, start |-> Height,
                   cliff |-> Height + s[1], end |-> Height + s[2]]
  <2>1. e \in VestingEntry
    BY <1>1, <1>2, BoundsType, HeightType DEF VestingEntry
  <2>2. vesting' = [vesting EXCEPT ![to][id] = e]
    BY DEF Vest
  <2>3. e.total = amount /\ e.released = 0
    OBVIOUS
  <2> QED BY <2>1, <2>2, <2>3
<1> HIDE DEF id
<1>10. /\ vesting'[to][id] = e
       /\ \A u \in Users, i \in VestIds : u # to \/ i # id => vesting'[u][i] = vesting[u][i]
  BY <1>1, <1>6, <1>9 DEF TypeOK
<1>11. VestingFresh'
  <2>1. ASSUME NEW u \in Users, NEW i \in VestIds
        PROVE  /\ vesting'[u][i].released <= vesting'[u][i].total
               /\ i[2] > nonces'[i[1]] => vesting'[u][i] = NoVesting
    <3>1. i[1] \in Users /\ i[2] \in Nat /\ nonces[i[1]] \in Nat /\ nonces'[i[1]] >= nonces[i[1]]
          /\ nonces'[i[1]] \in Nat
      BY <1>1, <1>7, HeightsAssumption DEF VestIds, TypeOK
    <3>2. CASE u = to /\ i = id
      <4>1. nonces'[i[1]] = i[2]
        BY <3>2, <1>1, <1>6, <1>7 DEF TypeOK
      <4> QED BY <3>1, <3>2, <4>1, <1>2, <1>9, <1>10
    <3>3. CASE u # to \/ i # id
      BY <3>1, <3>3, <1>1, <1>10 DEF VestingFresh
    <3> QED BY <3>2, <3>3
  <2> QED BY <2>1 DEF VestingFresh
<1>12. Locked(to)' = Locked(to) + amount
  <2>1. ASSUME NEW f, NEW g,
               f = [i \in VestIds |-> vesting[to][i].total - vesting[to][i].released],
               g = [i \in VestIds |-> vesting'[to][i].total - vesting'[to][i].released]
        PROVE  Total(g) = Total(f) + amount
    <3>1. f \in [VestIds -> Nat] /\ g \in [VestIds -> Nat]
      BY <2>1, <1>1, <1>11 DEF VestingFresh, TypeOK, VestingEntry
    <3>2. f[id] = 0 /\ g[id] = amount /\ \A i \in VestIds \ {id} : g[i] = f[i]
      BY <2>1, <1>2, <1>6, <1>8, <1>9, <1>10 DEF NoVesting
    <3>3. Total(g) = Total(f) - f[id] + g[id]
      BY <3>1, <3>2, <1>6, FiniteDomains, TotalOneChange
    <3>4. Total(f) \in Nat
      BY <3>1, FiniteDomains, TotalType
    <3> QED BY <3>2, <3>3, <3>4, <1>2
  <2> QED BY <2>1 DEF Locked
<1>13. LockedAll' = LockedAll + amount
  <2>0. \A u \in Users \ {to} : Locked(u)' = Locked(u)
    <3> SUFFICES ASSUME NEW u \in Users \ {to} PROVE Locked(u)' = Locked(u)
      OBVIOUS
    <3>1. vesting'[u] = vesting[u]
      BY <1>1, <1>9 DEF TypeOK
    <3> QED BY <3>1 DEF Locked
  <2>1. ASSUME NEW f, NEW g,
               f = [u \in Users |-> Locked(u)], g = [u \in Users |-> Locked(u)']
        PROVE  Total(g) = Total(f) + amount
    <3>0. \A u \in Users : Locked(u) \in Nat
      BY <1>1, OwedType
    <3>1. f \in [Users -> Nat] /\ g \in [Users -> Nat]
      BY <2>0, <2>1, <3>0, <1>2, <1>12
    <3>2. g[to] = f[to] + amount /\ \A u \in Users \ {to} : g[u] = f[u]
      BY <2>0, <2>1, <1>12
    <3>3. Total(g) = Total(f) - f[to] + g[to]
      BY <3>1, <3>2, FiniteDomains, TotalOneChange
    <3>4. Total(f) \in Nat /\ f[to] \in Nat
      BY <3>1, FiniteDomains, TotalType
    <3> QED BY <3>2, <3>3, <3>4, <1>2
  <2>2. LockedAll' = Total([u \in Users |-> Locked(u)'])
    BY DEF LockedAll
  <2> QED BY <2>1, <2>2 DEF LockedAll
<1>14. StakingPoolSolvent' /\ VestingPoolSolvent'
  BY <1>3, <1>13, SolventDef, SolventDefNext, OwedUnchanged DEF Funds, Vest, staking
<1> QED BY <1>1, <1>5, <1>11, <1>14 DEF Funds

\* A slash takes its amount out of bond and unbonding together.
LEMMA SlashDrains ==
    ASSUME TypeOK, NEW v \in Users, NEW amount \in Nat, amount <= UnbondingTotal(v)
    PROVE  Total(DrainOldest(unbonding[v], amount)) = UnbondingTotal(v) - amount
<1> DEFINE N == MaxHeight + UNBONDING_BLOCKS
<1>1. N \in Nat /\ ReleaseHeights = 1 .. N
  BY HeightsAssumption DEF ReleaseHeights
<1>2. unbonding[v] \in [1 .. N -> Nat]
  BY <1>1 DEF TypeOK
<1>3. DrainOldest(unbonding[v], amount) \in [1 .. N -> Nat]
  BY <1>1, <1>2, DrainType
<1>4. \A r \in 1 .. N :
         DrainOldest(unbonding[v], amount)[r] =
            Minus(unbonding[v][r],
               Minus(amount, Total([q \in 1 .. N |-> IF q < r THEN unbonding[v][q] ELSE 0])))
  BY <1>1 DEF DrainOldest
<1> HIDE DEF N
<1>5. ASSUME NEW f \in [1 .. N -> Nat], NEW g \in [1 .. N -> Nat],
             \A r \in 1 .. N : g[r] = Minus(f[r], Minus(amount,
                        Total([q \in 1 .. N |-> IF q < r THEN f[q] ELSE 0])))
      PROVE  Total(g) = Minus(Total(f), amount)
  BY <1>1, <1>5, TotalDrain, Zenon
<1>6. Total(DrainOldest(unbonding[v], amount)) = Minus(UnbondingTotal(v), amount)
  BY <1>2, <1>3, <1>4, <1>5, Zenon DEF UnbondingTotal
<1>7. UnbondingTotal(v) \in Nat
  BY SlashType
<1> QED BY <1>6, <1>7 DEF Minus

\* A slash burns no more than the pool holds, and so no more than the supply.
LEMMA SlashWithinSupply ==
    ASSUME Funds, NEW v \in Users, NEW index \in OffenceIndices, Slash(v, index)
    PROVE  SlashAmount(v) <= total_supply
<1>1. /\ balances \in [Accounts -> Nat] /\ STAKING_POOL_ACCOUNT \in Accounts
      /\ fee_pot \in Nat
  BY PoolsApart DEF Funds, TypeOK
<1>2. balances[STAKING_POOL_ACCOUNT] <= Total(balances) /\ Total(balances) \in Nat
  BY <1>1, FiniteDomains, TotalBound, TotalType
<1>3. SlashAmount(v) <= balances[STAKING_POOL_ACCOUNT] /\ SlashAmount(v) \in Nat
  BY <1>1, SlashType DEF Slash, Funds
<1>4. Total(balances) + fee_pot = total_supply
  BY DEF Funds, SupplyConserved
<1> QED BY <1>1, <1>2, <1>3, <1>4

LEMMA SlashFunds ==
    ASSUME Funds, NEW v \in Users, NEW index \in OffenceIndices, Slash(v, index)
    PROVE  Funds'
<1> USE PoolsApart
<1> DEFINE slashed == SlashAmount(v)
           bonded == Least(slashed, stake[v])
<1>1. TypeOK /\ TypeOK' /\ VestingFresh
  BY SlashStepType DEF Funds
<1>2. slashed \in Nat /\ slashed <= stake[v] + UnbondingTotal(v) /\ UnbondingTotal(v) \in Nat
      /\ stake[v] \in Nat
  BY <1>1, SlashType DEF SlashableBase, TypeOK
<1>3. /\ bonded \in Nat /\ bonded <= stake[v]
      /\ slashed - bonded \in Nat /\ slashed - bonded <= UnbondingTotal(v)
  BY <1>2 DEF Least
<1>4. /\ balances' = [balances EXCEPT ![STAKING_POOL_ACCOUNT] = @ - slashed]
      /\ balances[STAKING_POOL_ACCOUNT] >= slashed
      /\ total_supply' = Minus(total_supply, slashed)
      /\ stake' = [stake EXCEPT ![v] = @ - bonded]
      /\ unbonding' = [unbonding EXCEPT ![v] = DrainOldest(@, slashed - bonded)]
      /\ UNCHANGED <<fee_pot, vesting, nonces>>
  BY DEF Slash
<1>5. slashed <= total_supply /\ total_supply \in Nat /\ fee_pot \in Nat
  BY SlashWithinSupply DEF Funds, TypeOK
<1>6. Total(DrainOldest(unbonding[v], slashed - bonded)) = UnbondingTotal(v) - (slashed - bonded)
  BY <1>1, <1>3, SlashDrains
<1> HIDE DEF slashed, bonded
<1>7. /\ balances'[STAKING_POOL_ACCOUNT] = balances[STAKING_POOL_ACCOUNT] - slashed
      /\ \A a \in Accounts \ {STAKING_POOL_ACCOUNT} : balances'[a] = balances[a]
      /\ stake'[v] = stake[v] - bonded
      /\ \A u \in Users \ {v} : stake'[u] = stake[u]
      /\ unbonding'[v] = DrainOldest(unbonding[v], slashed - bonded)
      /\ \A u \in Users \ {v} : unbonding'[u] = unbonding[u]
  BY <1>1, <1>4 DEF TypeOK
<1>8. /\ balances \in [Accounts -> Nat] /\ balances' \in [Accounts -> Nat]
      /\ stake \in [Users -> Nat] /\ stake' \in [Users -> Nat]
  BY <1>1 DEF TypeOK
<1>9. total_supply' = total_supply - slashed
  BY <1>2, <1>4, <1>5 DEF Minus
<1>10. SupplyConserved'
  <2>1. ASSUME NEW f \in [Accounts -> Nat], NEW g \in [Accounts -> Nat], NEW a \in Accounts,
               \A b \in Accounts \ {a} : g[b] = f[b]
        PROVE  Total(g) = Total(f) - f[a] + g[a] /\ Total(f) \in Nat
    BY <2>1, FiniteDomains, TotalOneChange, TotalType
  <2>2. Total(balances') = Total(balances) - slashed
    <3>1. Total(balances') = Total(balances) - balances[STAKING_POOL_ACCOUNT]
                                + balances'[STAKING_POOL_ACCOUNT]
          /\ Total(balances) \in Nat
      BY <1>7, <1>8, <2>1
    <3>2. balances[STAKING_POOL_ACCOUNT] \in Nat
      BY <1>8
    <3> QED BY <3>1, <3>2, <1>2, <1>7
  <2>3. Total(balances) \in Nat
    BY <1>8, FiniteDomains, TotalType
  <2> QED BY <2>2, <2>3, <1>2, <1>4, <1>5, <1>9 DEF Funds, SupplyConserved
<1>11. Bonded' = Bonded - bonded
  <2>1. ASSUME NEW f \in [Users -> Nat], NEW g \in [Users -> Nat], NEW a \in Users,
               \A b \in Users \ {a} : g[b] = f[b]
        PROVE  Total(g) = Total(f) - f[a] + g[a] /\ Total(f) \in Nat
    BY <2>1, FiniteDomains, TotalOneChange, TotalType
  <2>2. Total(stake') = Total(stake) - stake[v] + stake'[v] /\ Total(stake) \in Nat
    BY <1>7, <1>8, <2>1
  <2> QED BY <2>2, <1>2, <1>3, <1>7 DEF Bonded
<1>12. Unbonding' = Unbonding - (slashed - bonded)
  <2>1. Unbonding' = Unbonding - UnbondingTotal(v) + Total(unbonding'[v])
    BY <1>1, <1>7, UnbondingOneChange
  <2>2. Unbonding \in Nat
    BY <1>1, OwedType
  <2> QED BY <2>1, <2>2, <1>2, <1>3, <1>6, <1>7
<1>13. VestingFresh' /\ LockedAll' = LockedAll
  BY <1>1, <1>4, OwedUnchanged DEF VestingFresh
<1>14. Bonded \in Nat /\ Unbonding \in Nat /\ StakingPoolSolvent /\ VestingPoolSolvent
  BY <1>1, OwedType DEF Funds
<1>15. StakingPoolSolvent' /\ VestingPoolSolvent'
  BY <1>2, <1>3, <1>7, <1>11, <1>12, <1>13, <1>14, SolventDef, SolventDefNext
<1> QED BY <1>1, <1>10, <1>13, <1>15 DEF Funds

-----------------------------------------------------------------------------
(* end_block                                                               *)

\* What matures leaves the unbonding stake, all of it and nothing else.
LEMMA MaturedSplit ==
    ASSUME TypeOK, TypeOK', EndBlock, NEW u \in Users
    PROVE  UnbondingTotal(u) = Matured(u) + UnbondingTotal(u)'
<1>1. ASSUME NEW f, NEW g, NEW h,
             f = unbonding[u],
             g = [r \in ReleaseHeights |-> IF r <= Height THEN unbonding[u][r] ELSE 0],
             h = unbonding'[u]
      PROVE  Total(f) = Total(g) + Total(h)
  <2>1. /\ f \in [ReleaseHeights -> Nat] /\ g \in [ReleaseHeights -> Nat]
        /\ h \in [ReleaseHeights -> Nat]
    BY <1>1 DEF TypeOK
  <2>2. h = [r \in ReleaseHeights |-> IF r <= Height THEN 0 ELSE unbonding[u][r]]
    BY <1>1 DEF EndBlock
  <2>3. \A r \in ReleaseHeights : f[r] = g[r] + h[r]
    BY <1>1, <2>1, <2>2
  <2>4. Adds(ReleaseHeights, g, h, f)
    BY <2>1, <2>3 DEF Adds
  <2> QED BY <2>4, FiniteDomains, TotalAdds
<1> QED BY <1>1 DEF UnbondingTotal, Matured

\* What an entry releases leaves its locked part.
LEMMA ReleaseSplit ==
    ASSUME NEW e \in VestingEntry, e.released <= e.total, Height \in Nat
    PROVE  /\ e.total - e.released =
                NewlyVested(e) + (AfterRelease(e).total - AfterRelease(e).released)
           /\ AfterRelease(e).released <= AfterRelease(e).total
           /\ NewlyVested(e) \in Nat
<1>1. VestedAt(e, Height) \in 0 .. e.total
  BY VestedAtType
<1>2. e.total \in Nat /\ e.released \in Nat
  BY DEF VestingEntry
<1>3. NewlyVested(e) \in Nat /\ e.released + NewlyVested(e) <= e.total
  BY <1>1, <1>2 DEF NewlyVested, Minus
<1> DEFINE paid == e.released + NewlyVested(e)
<1>4. CASE paid < e.total
  <2>1. AfterRelease(e) = [e EXCEPT !.released = paid]
    BY <1>4 DEF AfterRelease
  <2> HIDE DEF paid
  <2>2. AfterRelease(e).total = e.total /\ AfterRelease(e).released = paid
    BY <2>1 DEF VestingEntry
  <2> QED BY <2>2, <1>2, <1>3, <1>4 DEF paid
<1>5. CASE ~(paid < e.total)
  <2>1. AfterRelease(e) = NoVesting
    BY <1>5 DEF AfterRelease
  <2> QED BY <2>1, <1>2, <1>3, <1>5 DEF NoVesting
<1> QED BY <1>4, <1>5

\* What vests to u leaves what is locked for u, all of it and nothing else.
LEMMA VestedSplit ==
    ASSUME TypeOK, VestingFresh, EndBlock, NEW u \in Users
    PROVE  Locked(u) = VestedFor(u) + Locked(u)'
<1>1. ASSUME NEW id \in VestIds
      PROVE  /\ vesting[u][id] \in VestingEntry
             /\ vesting[u][id].released <= vesting[u][id].total
             /\ vesting'[u][id] = AfterRelease(vesting[u][id])
  BY DEF TypeOK, VestingFresh, EndBlock
<1>2. ASSUME NEW f, NEW g, NEW h,
             f = [id \in VestIds |-> vesting[u][id].total - vesting[u][id].released],
             g = [id \in VestIds |-> NewlyVested(vesting[u][id])],
             h = [id \in VestIds |-> vesting'[u][id].total - vesting'[u][id].released]
      PROVE  Total(f) = Total(g) + Total(h)
  <2>1. ASSUME NEW id \in VestIds
        PROVE  f[id] \in Nat /\ g[id] \in Nat /\ h[id] \in Nat /\ f[id] = g[id] + h[id]
    <3>1. Height \in Nat
      BY HeightType
    <3>2. /\ vesting[u][id].total \in Nat /\ vesting[u][id].released \in Nat
          /\ AfterRelease(vesting[u][id]) \in VestingEntry
      BY <1>1, <3>1, AfterReleaseType DEF VestingEntry
    <3>3. AfterRelease(vesting[u][id]).total \in Nat /\ AfterRelease(vesting[u][id]).released \in Nat
      BY <3>2 DEF VestingEntry
    <3>4. /\ vesting[u][id].total - vesting[u][id].released =
                NewlyVested(vesting[u][id]) +
                  (AfterRelease(vesting[u][id]).total - AfterRelease(vesting[u][id]).released)
          /\ AfterRelease(vesting[u][id]).released <= AfterRelease(vesting[u][id]).total
          /\ NewlyVested(vesting[u][id]) \in Nat
      BY <1>1, <3>1, ReleaseSplit
    <3> QED BY <1>1, <1>2, <3>2, <3>3, <3>4
  <2>2. f \in [VestIds -> Nat] /\ g \in [VestIds -> Nat] /\ h \in [VestIds -> Nat]
    BY <1>2, <2>1
  <2>3. Adds(VestIds, g, h, f)
    BY <2>1, <2>2 DEF Adds
  <2> QED BY <2>3, FiniteDomains, TotalAdds
<1> QED BY <1>2 DEF Locked, VestedFor

\* Two amounts per account add up to the sum of their totals.
LEMMA AccountsPlus ==
    ASSUME NEW f \in [Accounts -> Nat], NEW g \in [Accounts -> Nat],
           NEW h \in [Accounts -> Nat], \A a \in Accounts : h[a] = f[a] + g[a]
    PROVE  Total(h) = Total(f) + Total(g)
<1>1. Adds(Accounts, f, g, h)
  BY DEF Adds
<1> QED BY <1>1, FiniteDomains, TotalAdds

\* What all accounts receive together, when the pools receive nothing.
LEMMA UsersTotal ==
    ASSUME NEW f \in [Accounts -> Nat], NEW g \in [Users -> Nat],
           \A u \in Users : f[u] = g[u],
           f[STAKING_POOL_ACCOUNT] = 0, f[VESTING_POOL_ACCOUNT] = 0
    PROVE  Total(f) = Total(g)
<1> DEFINE S == Users \cup {STAKING_POOL_ACCOUNT}
<1>1. /\ STAKING_POOL_ACCOUNT \notin Users
      /\ VESTING_POOL_ACCOUNT \notin S
      /\ Accounts = S \cup {VESTING_POOL_ACCOUNT}
      /\ IsFiniteSet(Users) /\ IsFiniteSet(S)
  BY AccountsAssumption, FS_AddElement DEF Accounts
<1>2. PICK m : m \in [S -> Nat] /\ \A a \in S : m[a] = f[a]
  <2> DEFINE part == [a \in S |-> f[a]]
  <2>1. part \in [S -> Nat] /\ \A a \in S : part[a] = f[a]
    BY <1>1
  <2> HIDE DEF part
  <2> QED BY <2>1
<1>3. Total(m) = Total(g) + m[STAKING_POOL_ACCOUNT]
  <2>1. \A u \in Users : m[u] = g[u]
    BY <1>2
  <2> QED BY <1>1, <1>2, <2>1, TotalExtend
<1>4. Total(f) = Total(m) + f[VESTING_POOL_ACCOUNT]
  <2> HIDE DEF S
  <2>1. f \in [S \cup {VESTING_POOL_ACCOUNT} -> Nat]
    BY <1>1
  <2>2. \A a \in S : f[a] = m[a]
    BY <1>2
  <2> QED BY <1>1, <1>2, <2>1, <2>2, TotalExtend
<1>5. Total(g) \in Nat /\ m[STAKING_POOL_ACCOUNT] = 0
  BY <1>1, <1>2, TotalType
<1> QED BY <1>3, <1>4, <1>5

\* What end_block takes out of the pools.
MaturedAll == Total([u \in Users |-> Matured(u)])
VestedAll == Total([u \in Users |-> VestedFor(u)])

LEMMA PoolsSplit ==
    ASSUME Funds, TypeOK', VestingFresh', EndBlock
    PROVE  /\ MaturedAll \in Nat /\ VestedAll \in Nat
           /\ Unbonding = MaturedAll + Unbonding'
           /\ LockedAll = VestedAll + LockedAll'
<1>1. TypeOK /\ VestingFresh
  BY DEF Funds
<1>2. ASSUME NEW f \in [Users -> Nat], NEW g \in [Users -> Nat], NEW h \in [Users -> Nat],
             \A u \in Users : f[u] = g[u] + h[u]
      PROVE  Total(f) = Total(g) + Total(h) /\ Total(g) \in Nat
  <2>1. Total(f) = Total(g) + Total(h)
    <3>1. Adds(Users, g, h, f)
      BY <1>2 DEF Adds
    <3> QED BY <3>1, FiniteDomains, TotalAdds
  <2>2. Total(g) \in Nat
    BY FiniteDomains, TotalType
  <2> QED BY <2>1, <2>2
<1>3. Unbonding = MaturedAll + Unbonding' /\ MaturedAll \in Nat
  <2>1. ASSUME NEW f, NEW g, NEW h,
               f = [u \in Users |-> UnbondingTotal(u)],
               g = [u \in Users |-> Matured(u)],
               h = [u \in Users |-> UnbondingTotal(u)']
        PROVE  Total(f) = Total(g) + Total(h) /\ Total(g) \in Nat
    <3>1. \A u \in Users : /\ UnbondingTotal(u) \in Nat /\ Matured(u) \in Nat
                           /\ UnbondingTotal(u) = Matured(u) + UnbondingTotal(u)'
      BY <1>1, MaturedSplit, SlashType, PayoutType
    <3>2. \A u \in Users : UnbondingTotal(u)' \in Nat
      BY FiniteDomains, TotalType DEF TypeOK, UnbondingTotal
    <3>3. f \in [Users -> Nat] /\ g \in [Users -> Nat] /\ h \in [Users -> Nat]
      BY <2>1, <3>1, <3>2
    <3>4. \A u \in Users : f[u] = g[u] + h[u]
      BY <2>1, <3>1
    <3> QED BY <3>3, <3>4, <1>2
  <2>2. Unbonding' = Total([u \in Users |-> UnbondingTotal(u)'])
    BY DEF Unbonding
  <2> QED BY <2>1, <2>2 DEF Unbonding, MaturedAll
<1>4. LockedAll = VestedAll + LockedAll' /\ VestedAll \in Nat
  <2>1. ASSUME NEW f, NEW g, NEW h,
               f = [u \in Users |-> Locked(u)],
               g = [u \in Users |-> VestedFor(u)],
               h = [u \in Users |-> Locked(u)']
        PROVE  Total(f) = Total(g) + Total(h) /\ Total(g) \in Nat
    <3>1. \A u \in Users : /\ Locked(u) \in Nat /\ VestedFor(u) \in Nat
                           /\ Locked(u) = VestedFor(u) + Locked(u)'
      BY <1>1, VestedSplit, OwedType, PayoutType
    <3>2. ASSUME NEW u \in Users PROVE Locked(u)' \in Nat
      <4> DEFINE open == [id \in VestIds |-> vesting'[u][id].total - vesting'[u][id].released]
      <4>1. open \in [VestIds -> Nat]
        BY DEF VestingFresh, TypeOK, VestingEntry
      <4> HIDE DEF open
      <4>2. Total(open) \in Nat
        BY <4>1, FiniteDomains, TotalType
      <4> QED BY <4>2 DEF Locked, open
    <3>3. f \in [Users -> Nat] /\ g \in [Users -> Nat] /\ h \in [Users -> Nat]
      BY <2>1, <3>1, <3>2
    <3>4. \A u \in Users : f[u] = g[u] + h[u]
      BY <2>1, <3>1
    <3> QED BY <3>3, <3>4, <1>2
  <2>2. LockedAll' = Total([u \in Users |-> Locked(u)'])
    BY DEF LockedAll
  <2> QED BY <2>1, <2>2 DEF LockedAll, VestedAll
<1> QED BY <1>3, <1>4

\* Together the users receive what matured, what vested and the fees.
LEMMA PayoutTotal ==
    ASSUME TypeOK, Executing
    PROVE  Total([u \in Users |-> Payout(u)]) = MaturedAll + VestedAll + fee_pot
<1>1. ASSUME NEW f \in [Users -> Nat], NEW g \in [Users -> Nat], NEW h \in [Users -> Nat],
             \A u \in Users : h[u] = f[u] + g[u]
      PROVE  Total(h) = Total(f) + Total(g)
  <2>1. Adds(Users, f, g, h)
    BY <1>1 DEF Adds
  <2> QED BY <2>1, FiniteDomains, TotalAdds
<1>2. fee_pot \in Nat /\ producer \in Users
  BY HeightType DEF TypeOK
<1>3. ASSUME NEW m, NEW w, NEW mw, NEW fees, NEW all,
             m = [u \in Users |-> Matured(u)],
             w = [u \in Users |-> VestedFor(u)],
             mw = [u \in Users |-> Matured(u) + VestedFor(u)],
             fees = [u \in Users |-> IF u = producer THEN fee_pot ELSE 0],
             all = [u \in Users |-> Payout(u)]
      PROVE  Total(all) = Total(m) + Total(w) + fee_pot
  <2>1. \A u \in Users : Matured(u) \in Nat /\ VestedFor(u) \in Nat /\ Payout(u) \in Nat
    BY PayoutType
  <2>2. /\ m \in [Users -> Nat] /\ w \in [Users -> Nat] /\ mw \in [Users -> Nat]
        /\ fees \in [Users -> Nat] /\ all \in [Users -> Nat]
    BY <1>2, <1>3, <2>1
  <2>3. /\ \A u \in Users : mw[u] = m[u] + w[u]
        /\ \A u \in Users : all[u] = mw[u] + fees[u]
    BY <1>3, <2>1 DEF Payout
  <2>4. fees[producer] = fee_pot /\ \A u \in Users \ {producer} : fees[u] = 0
    BY <1>2, <1>3
  <2>5. Total(fees) = fee_pot
    BY <1>2, <2>2, <2>4, TotalSingle
  <2>6. Total(mw) = Total(m) + Total(w)
    BY <2>2, <2>3, <1>1
  <2>7. Total(all) = Total(mw) + Total(fees)
    BY <2>2, <2>3, <1>1
  <2> QED BY <2>5, <2>6, <2>7
<1> QED BY <1>3 DEF MaturedAll, VestedAll

LEMMA EndBlockFunds ==
    ASSUME Funds, EndBlock
    PROVE  Funds'
<1> USE PoolsApart
<1>1. TypeOK /\ TypeOK' /\ VestingFresh
  BY EndBlockType DEF Funds
<1>2. VestingFresh'
  <2>1. Height \in Nat
    BY <1>1, HeightType
  <2>2. ASSUME NEW u \in Users, NEW id \in VestIds
        PROVE  /\ vesting'[u][id].released <= vesting'[u][id].total
               /\ id[2] > nonces'[id[1]] => vesting'[u][id] = NoVesting
    <3>1. /\ vesting[u][id] \in VestingEntry
          /\ vesting[u][id].released <= vesting[u][id].total
          /\ vesting'[u][id] = AfterRelease(vesting[u][id])
          /\ id[2] > nonces[id[1]] => vesting[u][id] = NoVesting
          /\ nonces' = nonces
      BY <1>1 DEF TypeOK, VestingFresh, EndBlock
    <3>2. AfterRelease(NoVesting) = NoVesting
      <4>1. VestedAt(NoVesting, Height) = 0
        BY <2>1 DEF VestedAt, NoVesting
      <4>2. NewlyVested(NoVesting) = 0
        BY <4>1 DEF NewlyVested, Minus, NoVesting
      <4> QED BY <4>2 DEF AfterRelease, NoVesting
    <3> QED BY <2>1, <3>1, <3>2, ReleaseSplit
  <2> QED BY <2>2 DEF VestingFresh
<1>3. /\ MaturedAll \in Nat /\ VestedAll \in Nat
      /\ Unbonding = MaturedAll + Unbonding'
      /\ LockedAll = VestedAll + LockedAll'
  BY <1>1, <1>2, PoolsSplit
<1>4. /\ Bonded \in Nat /\ Unbonding \in Nat /\ LockedAll \in Nat
      /\ StakingPoolSolvent /\ VestingPoolSolvent
  BY <1>1, OwedType DEF Funds
<1>5. Unbonding' \in Nat /\ LockedAll' \in Nat /\ Bonded' = Bonded
  <2>1. Unbonding' \in Nat /\ LockedAll' \in Nat
    <3>1. ASSUME NEW f \in [Users -> Nat] PROVE Total(f) \in Nat
      BY FiniteDomains, TotalType
    <3>2. \A u \in Users : UnbondingTotal(u)' \in Nat
      BY <1>1, FiniteDomains, TotalType DEF TypeOK, UnbondingTotal
    <3>3. ASSUME NEW u \in Users PROVE Locked(u)' \in Nat
      <4> DEFINE open == [id \in VestIds |-> vesting'[u][id].total - vesting'[u][id].released]
      <4>1. open \in [VestIds -> Nat]
        BY <1>1, <1>2 DEF VestingFresh, TypeOK, VestingEntry
      <4> HIDE DEF open
      <4>2. Total(open) \in Nat
        BY <4>1, FiniteDomains, TotalType
      <4> QED BY <4>2 DEF Locked, open
    <3> QED BY <3>1, <3>2, <3>3 DEF Unbonding, LockedAll
  <2> QED BY <2>1, OwedUnchanged DEF EndBlock
<1>6. /\ balances[STAKING_POOL_ACCOUNT] = Bonded + Unbonding
      /\ balances[VESTING_POOL_ACCOUNT] = LockedAll
  BY <1>4, SolventDef
<1>7. balances' = [a \in Accounts |->
          CASE a = STAKING_POOL_ACCOUNT -> DebitOrSkip(balances[a], MaturedAll)
            [] a = VESTING_POOL_ACCOUNT -> DebitOrSkip(balances[a], VestedAll)
            [] OTHER -> balances[a] + Payout(a)]
  BY DEF EndBlock, MaturedAll, VestedAll
<1>8. /\ balances'[STAKING_POOL_ACCOUNT] = balances[STAKING_POOL_ACCOUNT] - MaturedAll
      /\ balances'[VESTING_POOL_ACCOUNT] = balances[VESTING_POOL_ACCOUNT] - VestedAll
      /\ \A u \in Users : balances'[u] = balances[u] + Payout(u)
  <2>1. balances'[STAKING_POOL_ACCOUNT] = DebitOrSkip(balances[STAKING_POOL_ACCOUNT], MaturedAll)
    BY <1>7
  <2>2. balances'[VESTING_POOL_ACCOUNT] = DebitOrSkip(balances[VESTING_POOL_ACCOUNT], VestedAll)
    BY <1>7
  <2>3. \A u \in Users : balances'[u] = balances[u] + Payout(u)
    BY <1>7
  <2>4. balances[STAKING_POOL_ACCOUNT] >= MaturedAll
    <3>1. ASSUME NEW b \in Nat, NEW n \in Nat, NEW m \in Nat PROVE b + (m + n) >= m
      OBVIOUS
    <3> QED BY <3>1, <1>3, <1>4, <1>5, <1>6
  <2>5. balances[VESTING_POOL_ACCOUNT] >= VestedAll
    <3>1. ASSUME NEW n \in Nat, NEW m \in Nat PROVE m + n >= m
      OBVIOUS
    <3> QED BY <3>1, <1>3, <1>5, <1>6
  <2> QED BY <2>1, <2>2, <2>3, <2>4, <2>5 DEF DebitOrSkip
<1>9. StakingPoolSolvent' /\ VestingPoolSolvent'
  <2>1. ASSUME NEW n \in Nat, NEW m \in Nat PROVE (m + n) - m = n
    OBVIOUS
  <2>2. ASSUME NEW b \in Nat, NEW n \in Nat, NEW m \in Nat PROVE (b + (m + n)) - m = b + n
    OBVIOUS
  <2>3. balances'[STAKING_POOL_ACCOUNT] = Bonded' + Unbonding'
    <3>1. balances'[STAKING_POOL_ACCOUNT] = (Bonded + (MaturedAll + Unbonding')) - MaturedAll
      BY <1>3, <1>6, <1>8
    <3> QED BY <3>1, <2>2, <1>3, <1>4, <1>5
  <2>4. balances'[VESTING_POOL_ACCOUNT] = LockedAll'
    <3>1. balances'[VESTING_POOL_ACCOUNT] = (VestedAll + LockedAll') - VestedAll
      BY <1>3, <1>6, <1>8
    <3> QED BY <3>1, <2>1, <1>3, <1>5
  <2> QED BY <2>3, <2>4, SolventDefNext
<1>10. Total(balances') = Total(balances) + fee_pot
  <2>1. ASSUME NEW paid, NEW owed, NEW sum, NEW out1, NEW out2,
               paid = [a \in Accounts |-> IF a \in Users THEN Payout(a) ELSE 0],
               out1 = [a \in Accounts |-> IF a = STAKING_POOL_ACCOUNT THEN MaturedAll ELSE 0],
               out2 = [a \in Accounts |-> IF a = VESTING_POOL_ACCOUNT THEN VestedAll ELSE 0],
               owed = [a \in Accounts |-> (IF a = STAKING_POOL_ACCOUNT THEN MaturedAll ELSE 0)
                                          + (IF a = VESTING_POOL_ACCOUNT THEN VestedAll ELSE 0)],
               sum = [a \in Accounts |-> balances[a] + (IF a \in Users THEN Payout(a) ELSE 0)]
        PROVE  Total(balances') = Total(balances) + fee_pot
    <3>1. ASSUME NEW f \in [Accounts -> Nat], NEW g \in [Accounts -> Nat],
                 NEW h \in [Accounts -> Nat], \A a \in Accounts : h[a] = f[a] + g[a]
          PROVE  Total(h) = Total(f) + Total(g)
      BY <3>1, AccountsPlus
    <3>2. /\ balances \in [Accounts -> Nat] /\ balances' \in [Accounts -> Nat]
          /\ \A u \in Users : Payout(u) \in Nat
      BY <1>1, PayoutType DEF TypeOK
    <3>3. /\ paid \in [Accounts -> Nat] /\ out1 \in [Accounts -> Nat] /\ out2 \in [Accounts -> Nat]
      BY <1>3, <2>1, <3>2
    <3>4. owed \in [Accounts -> Nat] /\ \A a \in Accounts : owed[a] = out1[a] + out2[a]
      BY <2>1, <3>3
    <3>5. sum \in [Accounts -> Nat] /\ \A a \in Accounts : sum[a] = balances[a] + paid[a]
      BY <2>1, <3>2, <3>3
    <3>6. \A a \in Accounts : sum[a] = balances'[a] + owed[a]
      <4> SUFFICES ASSUME NEW a \in Accounts PROVE sum[a] = balances'[a] + owed[a]
        OBVIOUS
      <4>1. balances[a] \in Nat
        BY <3>2
      <4>2. CASE a = STAKING_POOL_ACCOUNT
        BY <4>1, <4>2, <2>1, <3>4, <3>5, <1>3, <1>8
      <4>3. CASE a = VESTING_POOL_ACCOUNT
        BY <4>1, <4>3, <2>1, <3>4, <3>5, <1>3, <1>8
      <4>4. CASE a \in Users
        BY <4>1, <4>4, <2>1, <3>2, <3>4, <3>5, <1>8
      <4> QED BY <4>2, <4>3, <4>4 DEF Accounts
    <3>7. Total(sum) = Total(balances) + Total(paid)
      BY <3>1, <3>2, <3>3, <3>5
    <3>8. Total(sum) = Total(balances') + Total(owed)
      BY <3>1, <3>2, <3>4, <3>5, <3>6
    <3>9. Total(owed) = Total(out1) + Total(out2)
      BY <3>1, <3>3, <3>4
    <3>10. Total(out1) = MaturedAll /\ Total(out2) = VestedAll
      <4>1. out1[STAKING_POOL_ACCOUNT] = MaturedAll
            /\ \A a \in Accounts \ {STAKING_POOL_ACCOUNT} : out1[a] = 0
        BY <2>1
      <4>2. out2[VESTING_POOL_ACCOUNT] = VestedAll
            /\ \A a \in Accounts \ {VESTING_POOL_ACCOUNT} : out2[a] = 0
        BY <2>1
      <4>3. ASSUME NEW f \in [Accounts -> Nat], NEW b \in Accounts,
                   \A a \in Accounts \ {b} : f[a] = 0
            PROVE  Total(f) = f[b]
        BY <4>3, TotalSingle
      <4> QED BY <3>3, <4>1, <4>2, <4>3
    <3>11. Total(paid) = MaturedAll + VestedAll + fee_pot
      <4>1. ASSUME NEW p, p = [u \in Users |-> Payout(u)] PROVE Total(paid) = Total(p)
        <5>1. p \in [Users -> Nat] /\ \A u \in Users : paid[u] = p[u]
          BY <2>1, <3>2, <4>1
        <5>2. paid[STAKING_POOL_ACCOUNT] = 0 /\ paid[VESTING_POOL_ACCOUNT] = 0
          BY <2>1
        <5> QED BY <3>3, <5>1, <5>2, UsersTotal
      <4>2. Executing
        BY DEF EndBlock
      <4> QED BY <4>1, <4>2, <1>1, PayoutTotal
    <3>12. Total(balances) \in Nat /\ Total(balances') \in Nat /\ fee_pot \in Nat
      BY <1>1, <3>2, FiniteDomains, TotalType DEF TypeOK
    <3>13. Total(sum) = Total(balances) + (MaturedAll + VestedAll + fee_pot)
      BY <3>7, <3>11
    <3>14. Total(sum) = Total(balances') + (MaturedAll + VestedAll)
      BY <3>8, <3>9, <3>10
    <3> QED BY <3>12, <3>13, <3>14, <1>3
  <2> QED BY <2>1
<1>11. SupplyConserved'
  <2>1. fee_pot' = 0 /\ total_supply' = total_supply
    BY DEF EndBlock, supply
  <2>2. Total(balances) \in Nat /\ fee_pot \in Nat
    BY <1>1, FiniteDomains, TotalType DEF TypeOK
  <2> QED BY <2>1, <2>2, <1>10 DEF Funds, SupplyConserved
<1> QED BY <1>1, <1>2, <1>9, <1>11 DEF Funds

\* Every step keeps the invariant.
LEMMA NextFunds ==
    ASSUME Funds, [Next]_vars
    PROVE  Funds'
<1>1. ASSUME NEW v \in Users, BeginBlock(v) PROVE Funds'
  BY <1>1, BeginBlockFunds
<1>2. ASSUME NEW from \in Users, NEW to \in Users, NEW amount \in Amounts,
             NEW nonce \in Nonces, Transfer(from, to, amount, nonce)
      PROVE  Funds'
  BY <1>2, TransferFunds
<1>3. ASSUME NEW from \in Users, NEW amount \in Amounts, NEW nonce \in Nonces,
             Stake(from, amount, nonce)
      PROVE  Funds'
  BY <1>3, StakeFunds
<1>4. ASSUME NEW from \in Users, NEW amount \in Amounts, NEW nonce \in Nonces,
             Withdraw(from, amount, nonce)
      PROVE  Funds'
  BY <1>4, WithdrawFunds
<1>5. ASSUME NEW from \in Users, NEW to \in Users, NEW amount \in Amounts,
             NEW s \in Schedules, NEW nonce \in Nonces, Vest(from, to, amount, s, nonce)
      PROVE  Funds'
  BY <1>5, VestFunds
<1>6. CASE Reward
  BY <1>6, RewardFunds
<1>7. ASSUME NEW v \in Users, NEW index \in OffenceIndices, Slash(v, index) PROVE Funds'
  BY <1>7, SlashFunds
<1>8. CASE EndBlock
  BY <1>8, EndBlockFunds
<1>9. CASE UNCHANGED vars
  <2>1. TypeOK'
    BY <1>9, NextType DEF Funds
  <2>2. SupplyConserved' /\ VestingFresh'
    BY <1>9 DEF Funds, SupplyConserved, VestingFresh, vars, supply
  <2>3. StakingPoolSolvent' /\ VestingPoolSolvent'
    BY <1>9, SolventDef, SolventDefNext, OwedUnchanged DEF Funds, vars, staking
  <2> QED BY <2>1, <2>2, <2>3 DEF Funds
<1>10. ASSUME NEW from \in Users, NEW id \in CredentialIds, NEW nonce \in Nonces,
              Issue(from, id, nonce) \/ Revoke(from, id, nonce)
       PROVE  Funds'
  BY <1>10, CredentialFunds
<1> QED BY <1>1, <1>2, <1>3, <1>4, <1>5, <1>6, <1>7, <1>8, <1>9, <1>10 DEF Next

\* The balance laws of apply_verified and end_block hold together: the two pools
\* can pay whatever falls due, and nothing is created or lost.
THEOREM FundsInvariant == Spec => []Funds
<1>1. Init => Funds
  BY InitFunds
<1>2. Funds /\ [Next]_vars => Funds'
  BY NextFunds
<1> QED BY <1>1, <1>2, PTL DEF Spec

\* No transaction, slash, release or block boundary creates or loses HKM: in
\* every state of the block execution accounts and fee pot make up the supply.
THEOREM SupplyIsConserved == Spec => []SupplyConserved
<1>1. Funds => SupplyConserved
  BY DEF Funds
<1> QED BY <1>1, FundsInvariant, PTL

\* The staking pool always covers all bonds and pending withdrawals exactly:
\* the pool debit whose error end_block ignores never fails.
THEOREM StakingPoolIsSolvent == Spec => []StakingPoolSolvent
<1>1. Funds => StakingPoolSolvent
  BY DEF Funds
<1> QED BY <1>1, FundsInvariant, PTL

\* The vesting pool always covers what its open entries still release, exactly:
\* the second ignored debit of end_block never fails either.
THEOREM VestingPoolIsSolvent == Spec => []VestingPoolSolvent
<1>1. Funds => VestingPoolSolvent
  BY DEF Funds
<1> QED BY <1>1, FundsInvariant, PTL

\* Both together: whatever end_block still has to pay is in a pool.
THEOREM PoolsAreSolvent == Spec => []PoolsSolvent
<1>1. Funds => PoolsSolvent
  BY DEF Funds, PoolsSolvent
<1> QED BY <1>1, FundsInvariant, PTL

-----------------------------------------------------------------------------
(* The emission schedule                                                   *)

\* The schedule up to a height, one reward more.
LEMMA EmittedNext ==
    ASSUME NEW h \in Nat, h < MaxHeight
    PROVE  /\ Emitted(h + 1) = Emitted(h) + BlockReward(h + 1)
           /\ Emitted(h) \in Nat
<1>1. MaxHeight \in Nat /\ \A i \in 0 .. MaxHeight : BlockReward(i) \in Nat
  BY HeightsAssumption
<1>2. IsFiniteSet(1 .. h)
  BY FS_Interval
<1>3. ASSUME NEW S, S = 1 .. h, NEW x, x = h + 1, NEW f, NEW g,
             f = [i \in 1 .. h |-> BlockReward(i)],
             g = [i \in 1 .. h + 1 |-> BlockReward(i)]
      PROVE  Total(g) = Total(f) + BlockReward(x) /\ Total(f) \in Nat
  <2>1. S \cup {x} = 1 .. h + 1 /\ x \notin S
    BY <1>3
  <2>2. f \in [S -> Nat]
    BY <1>1, <1>3
  <2>3. g \in [S \cup {x} -> Nat] /\ g[x] = BlockReward(x)
    <3>1. g \in [1 .. h + 1 -> Nat] /\ g[x] = BlockReward(x)
      BY <1>1, <1>3
    <3> QED BY <2>1, <3>1
  <2>4. \A i \in S : g[i] = f[i]
    BY <1>3
  <2>5. IsFiniteSet(S)
    BY <1>2, <1>3
  <2>6. Total(g) = Total(f) + g[x]
    <3>1. ASSUME NEW D, IsFiniteSet(D), NEW y, y \notin D,
                 NEW k \in [D -> Nat], NEW l \in [D \cup {y} -> Nat], \A a \in D : l[a] = k[a]
          PROVE  Total(l) = Total(k) + l[y]
      BY <3>1, TotalExtend
    <3>2. x \notin S /\ g \in [S \cup {x} -> Nat]
      BY <2>1, <2>3
    <3> QED BY <3>1, <3>2, <2>2, <2>4, <2>5
  <2>7. Total(f) \in Nat
    BY <2>2, <2>5, TotalType
  <2> QED BY <2>3, <2>6, <2>7
<1> QED BY <1>3 DEF Emitted

\* Only a block being executed holds a reward that is not yet in Emitted.
OnSchedule == Funds /\ SupplyOnSchedule /\ (rewarded => Executing)

LEMMA InitOnSchedule == Init => OnSchedule
<1> SUFFICES ASSUME Init PROVE OnSchedule
  OBVIOUS
<1>1. height = 0 /\ rewarded = FALSE /\ total_supply = InitialSupply /\ burned = 0
  BY DEF Init
<1>2. Emitted(0) = 0
  <2>1. ASSUME NEW S, S = 1 .. 0, NEW f, f = [i \in 1 .. 0 |-> BlockReward(i)]
        PROVE  Total(f) = 0
    <3>1. f \in [S -> Nat] /\ \A i \in S : f[i] = 0
      BY <2>1
    <3> QED BY <3>1, TotalZero
  <2> QED BY <2>1 DEF Emitted
<1> QED BY <1>1, <1>2, InitFunds, AmountsAssumption DEF OnSchedule, SupplyOnSchedule

LEMMA NextOnSchedule ==
    ASSUME OnSchedule, [Next]_vars
    PROVE  OnSchedule'
<1>1. /\ total_supply \in Nat /\ burned \in Nat /\ height \in Nat /\ rewarded \in BOOLEAN
      /\ Funds /\ SupplyOnSchedule /\ TypeOK
  BY HeightsAssumption DEF OnSchedule, Funds, TypeOK
<1>2. Funds'
  BY <1>1, NextFunds
<1>3. ASSUME UNCHANGED <<height, rewarded, total_supply, burned>>
      PROVE  SupplyOnSchedule'
  BY <1>1, <1>3 DEF SupplyOnSchedule, Emitted, Height
<1>4. ASSUME NEW v \in Users, BeginBlock(v) PROVE OnSchedule'
  <2>1. /\ ~rewarded /\ rewarded' = FALSE /\ UNCHANGED <<height, total_supply, burned>>
    BY <1>4 DEF BeginBlock, supply, OnSchedule
  <2> QED BY <1>1, <1>2, <1>3, <2>1 DEF OnSchedule
<1>5. ASSUME Reward PROVE OnSchedule'
  <2>1. /\ ~rewarded /\ rewarded' = TRUE /\ UNCHANGED <<height, producer, burned>> /\ Executing
        /\ total_supply' = total_supply + BlockReward(Height)
    BY <1>5 DEF Reward
  <2>2. BlockReward(Height) \in Nat /\ height < MaxHeight
    BY <1>1, <2>1, HeightType DEF TypeOK
  <2>3. Emitted(height) \in Nat
    BY <1>1, <2>2, EmittedNext
  <2>4. total_supply + burned = InitialSupply + Emitted(height) + 0
    BY <1>1, <2>1 DEF SupplyOnSchedule
  <2>5. Emitted(height)' = Emitted(height) /\ Height' = Height
    BY <2>1 DEF Emitted, Height
  <2>6. total_supply' + burned' = InitialSupply + Emitted(height) + BlockReward(Height)
    BY <1>1, <2>1, <2>2, <2>3, <2>4, AmountsAssumption
  <2>7. SupplyOnSchedule'
    BY <2>1, <2>5, <2>6 DEF SupplyOnSchedule, Height, Emitted
  <2> QED BY <1>2, <2>1, <2>7 DEF OnSchedule, Executing
<1>6. ASSUME NEW v \in Users, NEW index \in OffenceIndices, Slash(v, index)
      PROVE  OnSchedule'
  <2>1. /\ UNCHANGED <<height, producer, rewarded>>
        /\ total_supply' = Minus(total_supply, SlashAmount(v))
        /\ burned' = burned + SlashAmount(v)
    BY <1>6 DEF Slash, chain
  <2>2. SlashAmount(v) \in Nat /\ SlashAmount(v) <= total_supply
    BY <1>1, <1>6, SlashType, SlashWithinSupply
  <2>3. total_supply' + burned' = total_supply + burned
    BY <1>1, <2>1, <2>2 DEF Minus
  <2>4. SupplyOnSchedule'
    BY <1>1, <2>1, <2>3 DEF SupplyOnSchedule, Emitted, Height
  <2> QED BY <1>2, <2>1, <2>4 DEF OnSchedule, Executing
<1>7. ASSUME EndBlock PROVE OnSchedule'
  <2>1. /\ rewarded /\ Executing /\ height' = height + 1 /\ rewarded' = FALSE
        /\ UNCHANGED <<total_supply, burned>>
    BY <1>7 DEF EndBlock, Height, supply
  <2>2. BlockReward(height + 1) \in Nat /\ height < MaxHeight
    BY <1>1, <2>1, HeightType DEF TypeOK, Height
  <2>3. Emitted(height + 1) = Emitted(height) + BlockReward(height + 1) /\ Emitted(height) \in Nat
    BY <1>1, <2>2, EmittedNext
  <2>4. total_supply + burned = InitialSupply + Emitted(height) + BlockReward(height + 1)
    BY <1>1, <2>1 DEF SupplyOnSchedule, Height
  <2>5. Emitted(height)' = Emitted(height + 1)
    BY <2>1 DEF Emitted
  <2>6. total_supply' + burned' = InitialSupply + Emitted(height)' + 0
    BY <2>1, <2>2, <2>3, <2>4, <2>5, AmountsAssumption
  <2>7. SupplyOnSchedule'
    BY <2>1, <2>6 DEF SupplyOnSchedule
  <2> QED BY <1>2, <2>1, <2>7 DEF OnSchedule
<1>8. ASSUME UNCHANGED <<height, producer, rewarded, total_supply, burned>> PROVE OnSchedule'
  BY <1>2, <1>3, <1>8 DEF OnSchedule, Executing
<1> QED
  BY <1>4, <1>5, <1>6, <1>7, <1>8
  DEF Next, Transfer, Stake, Withdraw, Vest, Issue, Revoke, chain, supply, vars

\* Nothing mints outside the emission schedule and nothing burns outside
\* slashing: supply plus burned is genesis plus the scheduled rewards.
THEOREM SupplyFollowsSchedule == Spec => []SupplyOnSchedule
<1>1. Init => OnSchedule
  BY InitOnSchedule
<1>2. OnSchedule /\ [Next]_vars => OnSchedule'
  BY NextOnSchedule
<1>3. OnSchedule => SupplyOnSchedule
  BY DEF OnSchedule
<1> QED BY <1>1, <1>2, <1>3, PTL DEF Spec

-----------------------------------------------------------------------------
(* What the ledger promises to each account: an offender cannot leave       *)
(* before the slash, every exit ends, vesting follows its schedule, and     *)
(* nobody loses to somebody else's step.  All of it rests on Funds: a pool  *)
(* that could not pay would break each of these promises at once.           *)

\* Matured unbonding is gone, and whoever has stake at risk is registered, in
\* the middle of a block too.
Settled ==
    /\ \A v \in Users, r \in ReleaseHeights : r <= height => unbonding[v][r] = 0
    /\ \A v \in Users : SlashableBase(v) > 0 => v \in stakers

\* Nobody is registered without stake at risk.
Backed == \A v \in stakers : SlashableBase(v) > 0

\* The unbonding of v that a proof of an offence at index i still finds: what was
\* withdrawn at i or later.  What was withdrawn before may mature first.
StillUnbonding(v, i) ==
    [r \in ReleaseHeights |-> IF r >= i + UNBONDING_BLOCKS THEN unbonding[v][r] ELSE 0]
AtRisk(v, i) == stake[v] + Total(StillUnbonding(v, i))

\* While its proof is accepted, an offence is covered without the unbonding that
\* was already running when it was committed.
Covered ==
    \A o \in offence :
        /\ o.index <= Height
        /\ WithinSlashingWindow(o.index) => AtRisk(o.validator, o.index) >= o.exposed

\* An open entry has released what its schedule grants at the last closed block.
OnTime ==
    \A u \in Users, id \in VestIds :
        vesting[u][id].total > 0 =>
            /\ height < vesting[u][id].end
            /\ vesting[u][id].start < vesting[u][id].end
            /\ vesting[u][id].released = VestedAt(vesting[u][id], height)

-----------------------------------------------------------------------------
(* What each step does to the stake an account has at risk                 *)

\* Bonded and unbonding stake of an account whose entries do not change.
LEMMA BaseUnchanged ==
    ASSUME NEW u \in Users, stake'[u] = stake[u], unbonding'[u] = unbonding[u]
    PROVE  SlashableBase(u)' = SlashableBase(u)
BY DEF SlashableBase, UnbondingTotal

LEMMA StakeBase ==
    ASSUME TypeOK, NEW from \in Users, NEW amount \in Amounts,
           NEW nonce \in Nonces, Stake(from, amount, nonce)
    PROVE  /\ stake'[from] = stake[from] + amount
           /\ SlashableBase(from)' = SlashableBase(from) + amount
           /\ \A u \in Users \ {from} : /\ SlashableBase(u)' = SlashableBase(u)
                                        /\ stake'[u] = stake[u]
<1>1. /\ stake'[from] = stake[from] + amount
      /\ \A u \in Users \ {from} : stake'[u] = stake[u]
      /\ unbonding' = unbonding
  BY DEF Stake, TypeOK
<1>2. amount \in Nat /\ stake[from] \in Nat /\ UnbondingTotal(from) \in Nat
  BY BoundsType, SlashType DEF TypeOK
<1>3. UnbondingTotal(from)' = UnbondingTotal(from)
  BY <1>1 DEF UnbondingTotal
<1>4. SlashableBase(from)' = SlashableBase(from) + amount
  BY <1>1, <1>2, <1>3 DEF SlashableBase
<1> QED BY <1>1, <1>4, BaseUnchanged

\* Where the withdrawn amount goes.
LEMMA WithdrawEntries ==
    ASSUME TypeOK, NEW from \in Users, NEW amount \in Amounts,
           NEW nonce \in Nonces, Withdraw(from, amount, nonce)
    PROVE  /\ amount \in Nat /\ ReleaseHeight \in ReleaseHeights
           /\ stake'[from] = stake[from] - amount /\ stake[from] >= amount
           /\ unbonding'[from][ReleaseHeight] = unbonding[from][ReleaseHeight] + amount
           /\ \A r \in ReleaseHeights \ {ReleaseHeight} : unbonding'[from][r] = unbonding[from][r]
           /\ \A u \in Users \ {from} : stake'[u] = stake[u] /\ unbonding'[u] = unbonding[u]
<1>1. amount \in Nat
  BY BoundsType
<1>2. ReleaseHeight \in ReleaseHeights
  BY HeightType DEF Withdraw
<1>3. /\ stake' = [stake EXCEPT ![from] = @ - amount]
      /\ stake[from] >= amount
      /\ unbonding' = [unbonding EXCEPT ![from][ReleaseHeight] = @ + amount]
      /\ stake \in [Users -> Nat] /\ unbonding \in [Users -> [ReleaseHeights -> Nat]]
  BY DEF Withdraw, TypeOK
<1> HIDE DEF ReleaseHeight
<1>4. /\ stake'[from] = stake[from] - amount
      /\ \A u \in Users \ {from} : stake'[u] = stake[u] /\ unbonding'[u] = unbonding[u]
  BY <1>3
<1>5. /\ unbonding'[from][ReleaseHeight] = unbonding[from][ReleaseHeight] + amount
      /\ \A r \in ReleaseHeights \ {ReleaseHeight} : unbonding'[from][r] = unbonding[from][r]
  BY <1>2, <1>3
<1> QED BY <1>1, <1>2, <1>3, <1>4, <1>5

\* A withdrawal takes nothing out of a slash's reach.
LEMMA WithdrawBase ==
    ASSUME TypeOK, TypeOK', NEW from \in Users, NEW amount \in Amounts,
           NEW nonce \in Nonces, Withdraw(from, amount, nonce)
    PROVE  \A u \in Users : SlashableBase(u)' = SlashableBase(u)
<1>1. /\ amount \in Nat /\ ReleaseHeight \in ReleaseHeights
      /\ stake'[from] = stake[from] - amount
      /\ unbonding'[from][ReleaseHeight] = unbonding[from][ReleaseHeight] + amount
      /\ \A r \in ReleaseHeights \ {ReleaseHeight} : unbonding'[from][r] = unbonding[from][r]
      /\ \A u \in Users \ {from} : stake'[u] = stake[u] /\ unbonding'[u] = unbonding[u]
  BY WithdrawEntries
<1>2. /\ unbonding[from] \in [ReleaseHeights -> Nat] /\ unbonding'[from] \in [ReleaseHeights -> Nat]
      /\ stake[from] \in Nat
  BY DEF TypeOK
<1>3. Total(unbonding'[from]) = Total(unbonding[from]) + amount
  <2>1. ASSUME NEW f \in [ReleaseHeights -> Nat], NEW g \in [ReleaseHeights -> Nat],
               NEW r \in ReleaseHeights, g[r] = f[r] + amount,
               \A q \in ReleaseHeights \ {r} : g[q] = f[q]
        PROVE  Total(g) = Total(f) + amount
    <3>1. Total(g) = Total(f) - f[r] + g[r]
      BY <2>1, FiniteDomains, TotalOneChange, Zenon
    <3>2. Total(f) \in Nat /\ f[r] \in Nat
      BY FiniteDomains, TotalType
    <3> QED BY <2>1, <3>1, <3>2, <1>1
  <2> QED BY <1>1, <1>2, <2>1
<1>4. Total(unbonding[from]) \in Nat
  BY <1>2, FiniteDomains, TotalType
<1>5. SlashableBase(from)' = SlashableBase(from)
  BY <1>1, <1>2, <1>3, <1>4 DEF SlashableBase, UnbondingTotal
<1> QED BY <1>1, <1>5, BaseUnchanged

\* The entries a drain leaves are no larger than they were.
LEMMA DrainShrinks ==
    ASSUME NEW entries \in [ReleaseHeights -> Nat], NEW amount \in Nat, NEW r \in ReleaseHeights
    PROVE  DrainOldest(entries, amount)[r] <= entries[r]
<1> DEFINE older == Total([q \in ReleaseHeights |-> IF q < r THEN entries[q] ELSE 0])
<1>1. older \in Nat
  <2> DEFINE f == [q \in ReleaseHeights |-> IF q < r THEN entries[q] ELSE 0]
  <2>1. f \in [ReleaseHeights -> Nat]
    OBVIOUS
  <2> HIDE DEF f
  <2>2. Total(f) \in Nat
    BY <2>1, FiniteDomains, TotalType
  <2> QED BY <2>2 DEF f
<1>2. DrainOldest(entries, amount)[r] = Minus(entries[r], Minus(amount, older))
  BY DEF DrainOldest
<1> HIDE DEF older
<1>3. Minus(amount, older) \in Nat
  BY <1>1 DEF Minus
<1>4. ASSUME NEW a \in Nat, NEW b \in Nat PROVE Minus(a, b) <= a
  BY DEF Minus
<1>5. entries[r] \in Nat
  OBVIOUS
<1> QED BY <1>2, <1>3, <1>4, <1>5

\* A slash takes its amount out of what is at risk, bond first, never all of it.
LEMMA SlashBase ==
    ASSUME TypeOK, NEW v \in Users, NEW index \in OffenceIndices, Slash(v, index)
    PROVE  /\ SlashAmount(v) \in Nat /\ SlashAmount(v) < SlashableBase(v)
           /\ SlashableBase(v)' = SlashableBase(v) - SlashAmount(v)
           /\ \A u \in Users \ {v} : /\ SlashableBase(u)' = SlashableBase(u)
                                     /\ stake'[u] = stake[u] /\ unbonding'[u] = unbonding[u]
           /\ \A r \in ReleaseHeights : unbonding'[v][r] <= unbonding[v][r]
           /\ stake'[v] \in Nat /\ stake'[v] <= stake[v]
<1> DEFINE slashed == SlashAmount(v)
           bonded == Least(slashed, stake[v])
<1>1. /\ slashed \in Nat /\ slashed <= SlashableBase(v) /\ SlashableBase(v) \in Nat
      /\ UnbondingTotal(v) \in Nat /\ stake[v] \in Nat
      /\ SlashableBase(v) = stake[v] + UnbondingTotal(v)
  BY SlashType DEF SlashableBase, TypeOK
<1>2. slashed > 0
  BY DEF Slash
<1>3. slashed < SlashableBase(v)
  <2>1. ASSUME NEW b \in Nat, NEW p \in 1 .. 99, (b * p) \div 100 > 0
        PROVE  (b * p) \div 100 < b
    <3>1. b * p \in Nat
      OBVIOUS
    <3>2. b > 0
      <4>1. CASE b = 0
        <5>1. b * p = 0
          BY <4>1
        <5> QED BY <5>1, <2>1
      <4> QED BY <4>1
    <3>3. b * p <= b * 99
      OBVIOUS
    <3> QED BY <3>1, <3>2, <3>3
  <2> QED BY <1>1, <1>2, <2>1, AmountsAssumption DEF SlashAmount
<1>4. /\ bonded \in Nat /\ bonded <= stake[v] /\ bonded <= slashed
      /\ slashed - bonded \in Nat /\ slashed - bonded <= UnbondingTotal(v)
  BY <1>1 DEF Least
<1>5. /\ stake' = [stake EXCEPT ![v] = @ - bonded]
      /\ unbonding' = [unbonding EXCEPT ![v] = DrainOldest(@, slashed - bonded)]
  BY DEF Slash
<1>6. Total(DrainOldest(unbonding[v], slashed - bonded)) = UnbondingTotal(v) - (slashed - bonded)
  BY <1>4, SlashDrains
<1>7. unbonding[v] \in [ReleaseHeights -> Nat]
  BY DEF TypeOK
<1>8. \A r \in ReleaseHeights : DrainOldest(unbonding[v], slashed - bonded)[r] <= unbonding[v][r]
  BY <1>4, <1>7, DrainShrinks
<1> HIDE DEF slashed, bonded
<1>9. /\ stake'[v] = stake[v] - bonded
      /\ unbonding'[v] = DrainOldest(unbonding[v], slashed - bonded)
      /\ \A u \in Users \ {v} : stake'[u] = stake[u] /\ unbonding'[u] = unbonding[u]
  BY <1>5 DEF TypeOK
<1>10. stake'[v] \in Nat /\ stake'[v] <= stake[v]
  BY <1>1, <1>4, <1>9
<1>11. SlashableBase(v)' = SlashableBase(v) - slashed
  <2>1. UnbondingTotal(v)' = UnbondingTotal(v) - (slashed - bonded)
    BY <1>6, <1>9 DEF UnbondingTotal
  <2>2. SlashableBase(v)' = (stake[v] - bonded) + (UnbondingTotal(v) - (slashed - bonded))
    BY <1>9, <2>1 DEF SlashableBase
  <2> QED BY <2>2, <1>1, <1>4
<1>12. slashed = SlashAmount(v)
  BY DEF slashed
<1> QED BY <1>1, <1>3, <1>8, <1>9, <1>10, <1>11, <1>12, BaseUnchanged

\* What matures is no longer at risk, and nothing else leaves.
LEMMA EndBlockBase ==
    ASSUME TypeOK, TypeOK', EndBlock, NEW u \in Users
    PROVE  /\ SlashableBase(u) = Matured(u) + SlashableBase(u)'
           /\ Matured(u) \in Nat /\ stake'[u] = stake[u] /\ stake[u] \in Nat
           /\ UnbondingTotal(u) = Matured(u) + UnbondingTotal(u)'
           /\ UnbondingTotal(u) \in Nat /\ UnbondingTotal(u)' \in Nat
<1>1. stake'[u] = stake[u] /\ stake[u] \in Nat
  BY DEF EndBlock, TypeOK
<1>2. UnbondingTotal(u) = Matured(u) + UnbondingTotal(u)' /\ Matured(u) \in Nat
      /\ UnbondingTotal(u) \in Nat
  BY MaturedSplit, PayoutType, SlashType
<1>3. UnbondingTotal(u)' \in Nat
  BY FiniteDomains, TotalType DEF TypeOK, UnbondingTotal
<1>4. SlashableBase(u)' = stake[u] + UnbondingTotal(u)'
  BY <1>1 DEF SlashableBase
<1> QED BY <1>1, <1>2, <1>3, <1>4 DEF SlashableBase

-----------------------------------------------------------------------------
(* Every exit ends, and every validator has something to lose              *)

\* Steps that touch no stake.
LEMMA IdleSettled ==
    ASSUME Settled, UNCHANGED <<height, staking>>
    PROVE  Settled' /\ (Backed => Backed')
<1>1. /\ height' = height /\ stakers' = stakers /\ stake' = stake /\ unbonding' = unbonding
  BY DEF staking
<1>2. \A u \in Users : SlashableBase(u)' = SlashableBase(u)
  BY <1>1, BaseUnchanged
<1>3. ASSUME Backed, NEW u \in stakers' PROVE SlashableBase(u)' > 0
  BY <1>1, <1>3 DEF Backed, SlashableBase, UnbondingTotal
<1> QED BY <1>1, <1>2, <1>3 DEF Settled, Backed

LEMMA NextSettled ==
    ASSUME TypeOK, TypeOK', Settled, [Next]_vars
    PROVE  Settled' /\ (Backed => Backed')
<1> USE DEF Settled, Backed
<1>0. /\ height \in Nat /\ height' \in Nat /\ stakers \subseteq Users /\ stakers' \subseteq Users
      /\ \A u \in Users : SlashableBase(u) \in Nat
      /\ \A u \in Users, r \in ReleaseHeights :
            unbonding[u][r] \in Nat /\ unbonding'[u][r] \in Nat
  BY SlashType, HeightsAssumption DEF TypeOK
<1>1. ASSUME NEW from \in Users, NEW amount \in Amounts, NEW nonce \in Nonces,
             Stake(from, amount, nonce)
      PROVE  Settled' /\ (Backed => Backed')
  <2>1. /\ SlashableBase(from)' = SlashableBase(from) + amount
        /\ \A u \in Users \ {from} : SlashableBase(u)' = SlashableBase(u)
    BY <1>1, StakeBase
  <2>2. stakers' = stakers \cup {from} /\ height' = height /\ unbonding' = unbonding
    BY <1>1 DEF Stake, chain
  <2>3. amount \in Nat \ {0} /\ SlashableBase(from)' > 0
    <3>1. amount \in Nat \ {0}
      BY AmountsAssumption
    <3> QED BY <3>1, <2>1, <1>0
  <2>4. Settled'
    BY <2>1, <2>2
  <2>5. ASSUME Backed PROVE Backed'
    BY <2>1, <2>2, <2>3, <2>5, <1>0
  <2> QED BY <2>4, <2>5
<1>2. ASSUME NEW from \in Users, NEW amount \in Amounts, NEW nonce \in Nonces,
             Withdraw(from, amount, nonce)
      PROVE  Settled' /\ (Backed => Backed')
  <2>1. /\ \A r \in ReleaseHeights \ {ReleaseHeight} : unbonding'[from][r] = unbonding[from][r]
        /\ \A u \in Users \ {from} : unbonding'[u] = unbonding[u]
    BY <1>2, WithdrawEntries
  <2>2. \A u \in Users : SlashableBase(u)' = SlashableBase(u)
    BY <1>2, WithdrawBase
  <2>3. stakers' = stakers /\ height' = height
    BY <1>2 DEF Withdraw, chain
  <2>4. ReleaseHeight > height
    BY <1>0, HeightsAssumption DEF ReleaseHeight, Height
  <2>5. ReleaseHeight \in Nat
    BY <1>0, HeightsAssumption DEF ReleaseHeight, Height
  <2>6. ASSUME NEW u \in Users, NEW r \in ReleaseHeights, r <= height
        PROVE  unbonding'[u][r] = 0
    <3>1. r # ReleaseHeight
      BY <2>4, <2>5, <2>6, <1>0
    <3> QED BY <3>1, <2>1, <2>6
  <2>7. Settled'
    BY <2>2, <2>3, <2>6
  <2>8. ASSUME Backed PROVE Backed'
    BY <2>2, <2>3, <2>8, <1>0
  <2> QED BY <2>7, <2>8
<1>3. ASSUME NEW v \in Users, NEW index \in OffenceIndices, Slash(v, index)
      PROVE  Settled' /\ (Backed => Backed')
  <2>1. /\ SlashAmount(v) \in Nat /\ SlashAmount(v) < SlashableBase(v)
        /\ SlashableBase(v)' = SlashableBase(v) - SlashAmount(v)
        /\ \A u \in Users \ {v} : /\ SlashableBase(u)' = SlashableBase(u)
                                  /\ unbonding'[u] = unbonding[u]
        /\ \A r \in ReleaseHeights : unbonding'[v][r] <= unbonding[v][r]
    BY <1>3, SlashBase
  <2>2. stakers' = stakers /\ height' = height /\ v \in stakers
    BY <1>3 DEF Slash, chain
  <2>3. SlashableBase(v)' > 0
    BY <2>1, <1>0
  <2>4. ASSUME NEW u \in Users, NEW r \in ReleaseHeights, r <= height
        PROVE  unbonding'[u][r] = 0
    BY <2>1, <2>4, <1>0
  <2>5. Settled'
    BY <2>1, <2>2, <2>4
  <2>6. ASSUME Backed PROVE Backed'
    BY <2>1, <2>2, <2>3, <2>6, <1>0
  <2> QED BY <2>5, <2>6
<1>4. ASSUME EndBlock PROVE Settled' /\ (Backed => Backed')
  <2>1. ASSUME NEW u \in Users
        PROVE  /\ SlashableBase(u) = Matured(u) + SlashableBase(u)'
               /\ SlashableBase(u)' = stake[u] + UnbondingTotal(u)'
               /\ Matured(u) \in Nat /\ stake'[u] = stake[u] /\ stake[u] \in Nat
               /\ UnbondingTotal(u) = Matured(u) + UnbondingTotal(u)'
               /\ UnbondingTotal(u) \in Nat /\ UnbondingTotal(u)' \in Nat
    BY <1>4, EndBlockBase DEF SlashableBase
  <2>2. stakers' = {v \in stakers : ~Exited(v)} /\ height' = Height
    BY <1>4 DEF EndBlock
  <2>3. \A u \in Users, r \in ReleaseHeights : r <= Height => unbonding'[u][r] = 0
    BY <1>4 DEF EndBlock
  <2>4. ASSUME NEW u \in Users, SlashableBase(u)' > 0 PROVE u \in stakers'
    <3>1. SlashableBase(u) > 0
      BY <2>1, <2>4
    <3>2. ~Exited(u)
      BY <2>1, <2>4 DEF Exited
    <3> QED BY <3>1, <3>2, <2>2
  <2>5. Settled'
    BY <2>2, <2>3, <2>4
  <2>6. ASSUME Backed, NEW u \in stakers' PROVE SlashableBase(u)' > 0
    <3>1. u \in Users /\ SlashableBase(u) > 0 /\ ~Exited(u)
      BY <2>2, <2>6, <1>0
    <3> QED BY <3>1, <2>1 DEF Exited
  <2> QED BY <2>5, <2>6
<1>5. ASSUME UNCHANGED <<height, staking>> PROVE Settled' /\ (Backed => Backed')
  BY <1>5, IdleSettled
<1> QED
  BY <1>1, <1>2, <1>3, <1>4, <1>5
  DEF Next, BeginBlock, Transfer, Vest, Issue, Revoke, Reward, chain, vars

LEMMA InitSettled ==
    ASSUME Init
    PROVE  /\ Settled
           /\ Least(GENESIS_VALIDATOR_STAKE, InitialSupply) > 0 => Backed
<1> DEFINE bonded == Least(GENESIS_VALIDATOR_STAKE, InitialSupply)
<1>1. /\ stakers = {Treasury} /\ Treasury \in Users
      /\ stake[Treasury] = bonded /\ bonded \in Nat
      /\ \A u \in Users \ {Treasury} : stake[u] = 0
      /\ \A u \in Users, r \in ReleaseHeights : unbonding[u][r] = 0
      /\ TypeOK
  BY InitType, AccountsAssumption, AmountsAssumption DEF Init, Least
<1> HIDE DEF bonded
<1>2. \A u \in Users : UnbondingTotal(u) = 0
  BY <1>1, TotalZero DEF UnbondingTotal, TypeOK
<1>3. \A u \in Users \ {Treasury} : SlashableBase(u) = 0
  BY <1>1, <1>2 DEF SlashableBase
<1>4. SlashableBase(Treasury) = bonded
  BY <1>1, <1>2 DEF SlashableBase
<1> QED BY <1>1, <1>3, <1>4 DEF Settled, Backed, bonded

LEMMA SettledInvariant == Spec => [](Funds /\ Settled)
<1>1. Init => Funds /\ Settled
  BY InitFunds, InitSettled
<1>2. (Funds /\ Settled) /\ [Next]_vars => (Funds /\ Settled)'
  <2> SUFFICES ASSUME Funds, Settled, [Next]_vars PROVE Funds' /\ Settled'
    OBVIOUS
  <2>1. Funds' /\ TypeOK /\ TypeOK'
    BY NextFunds DEF Funds
  <2> QED BY <2>1, NextSettled
<1> QED BY <1>1, <1>2, PTL DEF Spec

\* Every withdrawal is paid when it matures and no registration outlives its
\* stake, as long as genesis registers a validator that has stake at all.
THEOREM ExitsAreSettled ==
    Least(GENESIS_VALIDATOR_STAKE, InitialSupply) > 0 /\ Spec => []ExitsSettled
<1> DEFINE Sound == Funds /\ Settled /\ Backed
<1>1. Least(GENESIS_VALIDATOR_STAKE, InitialSupply) > 0 /\ Init => Sound
  BY InitFunds, InitSettled
<1>2. Sound /\ [Next]_vars => Sound'
  <2> SUFFICES ASSUME Funds, Settled, Backed, [Next]_vars PROVE Funds' /\ Settled' /\ Backed'
    OBVIOUS
  <2>1. Funds' /\ TypeOK /\ TypeOK'
    BY NextFunds DEF Funds
  <2> QED BY <2>1, NextSettled
<1>3. Sound => ExitsSettled
  BY DEF Settled, Backed, ExitsSettled
<1> QED BY <1>1, <1>2, <1>3, PTL DEF Spec

-----------------------------------------------------------------------------
(* An offender cannot leave before the slash                               *)

LEMMA AtRiskType ==
    ASSUME TypeOK, NEW v \in Users, NEW i \in Nat
    PROVE  /\ StillUnbonding(v, i) \in [ReleaseHeights -> Nat]
           /\ Total(StillUnbonding(v, i)) \in Nat
           /\ AtRisk(v, i) \in Nat
           /\ AtRisk(v, i) <= SlashableBase(v)
<1>1. StillUnbonding(v, i) \in [ReleaseHeights -> Nat] /\ unbonding[v] \in [ReleaseHeights -> Nat]
  BY DEF StillUnbonding, TypeOK
<1>2. \A r \in ReleaseHeights : StillUnbonding(v, i)[r] <= unbonding[v][r]
  BY <1>1 DEF StillUnbonding
<1>3. ASSUME NEW f \in [ReleaseHeights -> Nat] PROVE Total(f) \in Nat
  BY FiniteDomains, TotalType
<1>4. Total(StillUnbonding(v, i)) <= Total(unbonding[v])
  BY <1>1, <1>2, FiniteDomains, TotalMonotone
<1>5. stake[v] \in Nat
  BY DEF TypeOK
<1> QED BY <1>1, <1>3, <1>4, <1>5 DEF AtRisk, SlashableBase, UnbondingTotal

\* The same in the state after a step.
LEMMA AtRiskTypeNext ==
    ASSUME TypeOK', NEW v \in Users, NEW i \in Nat
    PROVE  /\ StillUnbonding(v, i)' \in [ReleaseHeights -> Nat]
           /\ Total(StillUnbonding(v, i)') \in Nat
           /\ stake'[v] \in Nat
           /\ AtRisk(v, i)' = stake'[v] + Total(StillUnbonding(v, i)')
           /\ AtRisk(v, i)' \in Nat
<1>1. StillUnbonding(v, i)' \in [ReleaseHeights -> Nat]
  BY DEF StillUnbonding, TypeOK
<1>2. ASSUME NEW f \in [ReleaseHeights -> Nat] PROVE Total(f) \in Nat
  BY FiniteDomains, TotalType
<1>3. stake'[v] \in Nat
  BY DEF TypeOK
<1>4. AtRisk(v, i)' = stake'[v] + Total(StillUnbonding(v, i)')
  BY DEF AtRisk
<1>5. Total(StillUnbonding(v, i)') \in Nat
  BY <1>1, <1>2
<1> QED BY <1>1, <1>3, <1>4, <1>5

LEMMA AtRiskUnchanged ==
    ASSUME NEW v \in Users, NEW i \in Nat, stake'[v] = stake[v], unbonding'[v] = unbonding[v]
    PROVE  AtRisk(v, i)' = AtRisk(v, i)
BY DEF AtRisk, StillUnbonding

\* What is withdrawn at or after the offence stays at risk.
LEMMA WithdrawAtRisk ==
    ASSUME TypeOK, TypeOK', NEW from \in Users, NEW amount \in Amounts,
           NEW nonce \in Nonces, Withdraw(from, amount, nonce),
           NEW v \in Users, NEW i \in Nat, i <= Height
    PROVE  AtRisk(v, i)' = AtRisk(v, i)
<1>1. /\ amount \in Nat /\ ReleaseHeight \in ReleaseHeights
      /\ stake'[from] = stake[from] - amount /\ stake[from] >= amount
      /\ unbonding'[from][ReleaseHeight] = unbonding[from][ReleaseHeight] + amount
      /\ \A r \in ReleaseHeights \ {ReleaseHeight} : unbonding'[from][r] = unbonding[from][r]
      /\ \A u \in Users \ {from} : stake'[u] = stake[u] /\ unbonding'[u] = unbonding[u]
  BY WithdrawEntries
<1>2. ReleaseHeight >= i + UNBONDING_BLOCKS
  BY HeightType, HeightsAssumption DEF ReleaseHeight
<1>3. CASE v # from
  BY <1>1, <1>3, AtRiskUnchanged
<1>4. CASE v = from
  <2>1. ASSUME NEW f \in [ReleaseHeights -> Nat], NEW g \in [ReleaseHeights -> Nat],
               NEW r \in ReleaseHeights, g[r] = f[r] + amount,
               \A q \in ReleaseHeights \ {r} : g[q] = f[q]
        PROVE  Total(g) = Total(f) + amount
    <3>1. Total(g) = Total(f) - f[r] + g[r]
      BY <2>1, FiniteDomains, TotalOneChange, Zenon
    <3>2. Total(f) \in Nat /\ f[r] \in Nat
      BY FiniteDomains, TotalType
    <3> QED BY <2>1, <3>1, <3>2, <1>1
  <2>2. ASSUME NEW f, NEW g, f = StillUnbonding(v, i), g = StillUnbonding(v, i)'
        PROVE  Total(g) = Total(f) + amount
    <3>1. f \in [ReleaseHeights -> Nat] /\ g \in [ReleaseHeights -> Nat]
      BY <2>2, AtRiskType, AtRiskTypeNext
    <3>2. g[ReleaseHeight] = f[ReleaseHeight] + amount
      BY <2>2, <1>1, <1>2, <1>4 DEF StillUnbonding
    <3>3. \A q \in ReleaseHeights \ {ReleaseHeight} : g[q] = f[q]
      BY <2>2, <1>1, <1>4 DEF StillUnbonding
    <3> QED BY <3>1, <3>2, <3>3, <1>1, <2>1
  <2>3. Total(StillUnbonding(v, i)') = Total(StillUnbonding(v, i)) + amount
    BY <2>2
  <2>4. Total(StillUnbonding(v, i)) \in Nat /\ stake[v] \in Nat
    BY AtRiskType DEF TypeOK
  <2>5. AtRisk(v, i)' = (stake[v] - amount) + (Total(StillUnbonding(v, i)) + amount)
    BY <2>3, <1>1, <1>4, AtRiskTypeNext
  <2> QED BY <2>4, <2>5, <1>1 DEF AtRisk
<1> QED BY <1>3, <1>4

\* A slash lowers what is at risk by no more than it takes: the oldest
\* unbonding, which the proof may miss, goes first.
LEMMA SlashAtRisk ==
    ASSUME TypeOK, TypeOK', NEW v \in Users, NEW index \in OffenceIndices, Slash(v, index),
           NEW i \in Nat
    PROVE  AtRisk(v, i)' + SlashAmount(v) >= AtRisk(v, i)
<1> DEFINE older == [r \in ReleaseHeights |->
                        IF r >= i + UNBONDING_BLOCKS THEN 0 ELSE unbonding[v][r]]
           olderNext == [r \in ReleaseHeights |->
                        IF r >= i + UNBONDING_BLOCKS THEN 0 ELSE unbonding'[v][r]]
<1>1. /\ SlashAmount(v) \in Nat
      /\ SlashableBase(v)' = SlashableBase(v) - SlashAmount(v)
      /\ \A r \in ReleaseHeights : unbonding'[v][r] <= unbonding[v][r]
  BY SlashBase
<1>2. unbonding[v] \in [ReleaseHeights -> Nat] /\ unbonding'[v] \in [ReleaseHeights -> Nat]
  BY DEF TypeOK
<1>3. older \in [ReleaseHeights -> Nat] /\ olderNext \in [ReleaseHeights -> Nat]
  BY <1>2
<1>4. /\ StillUnbonding(v, i) \in [ReleaseHeights -> Nat]
      /\ StillUnbonding(v, i)' \in [ReleaseHeights -> Nat]
  BY AtRiskType, AtRiskTypeNext
<1>5. \A r \in ReleaseHeights : /\ unbonding[v][r] = older[r] + StillUnbonding(v, i)[r]
                                /\ unbonding'[v][r] = olderNext[r] + StillUnbonding(v, i)'[r]
                                /\ olderNext[r] <= older[r]
  BY <1>1, <1>2 DEF StillUnbonding
<1> HIDE DEF older, olderNext
<1>6. ASSUME NEW f \in [ReleaseHeights -> Nat], NEW g \in [ReleaseHeights -> Nat],
             NEW h \in [ReleaseHeights -> Nat], \A r \in ReleaseHeights : h[r] = f[r] + g[r]
      PROVE  Total(h) = Total(f) + Total(g)
  BY <1>6, FiniteDomains, TotalPlus
<1>7. Total(unbonding[v]) = Total(older) + Total(StillUnbonding(v, i))
  <2>1. \A r \in ReleaseHeights : unbonding[v][r] = older[r] + StillUnbonding(v, i)[r]
    BY <1>5
  <2> QED BY <2>1, <1>2, <1>3, <1>4, <1>6, Zenon
<1>8. Total(unbonding'[v]) = Total(olderNext) + Total(StillUnbonding(v, i)')
  BY <1>2, <1>3, <1>4, <1>5, <1>6
<1>9. Total(olderNext) <= Total(older)
  BY <1>3, <1>5, FiniteDomains, TotalMonotone
<1>10. /\ Total(older) \in Nat /\ Total(olderNext) \in Nat
       /\ Total(StillUnbonding(v, i)) \in Nat /\ Total(StillUnbonding(v, i)') \in Nat
       /\ stake[v] \in Nat /\ stake'[v] \in Nat
  <2>1. ASSUME NEW f \in [ReleaseHeights -> Nat] PROVE Total(f) \in Nat
    BY FiniteDomains, TotalType
  <2> QED BY <2>1, <1>3, <1>4 DEF TypeOK
<1>11. SlashableBase(v) = stake[v] + (Total(older) + Total(StillUnbonding(v, i)))
  BY <1>7 DEF SlashableBase, UnbondingTotal
<1>12. SlashableBase(v)' = stake'[v] + (Total(olderNext) + Total(StillUnbonding(v, i)'))
  BY <1>8 DEF SlashableBase, UnbondingTotal
<1>13. AtRisk(v, i)' = stake'[v] + Total(StillUnbonding(v, i)')
  BY AtRiskTypeNext
<1>14. AtRisk(v, i) = stake[v] + Total(StillUnbonding(v, i))
  BY DEF AtRisk
<1> QED BY <1>1, <1>9, <1>10, <1>11, <1>12, <1>13, <1>14

LEMMA NextCovered ==
    ASSUME TypeOK, TypeOK', Covered, [Next]_vars
    PROVE  Covered'
<1>0. /\ Height \in Nat /\ Height = height + 1 /\ height \in Nat
      /\ \A o \in offence : /\ o.validator \in Users /\ o.index \in Nat /\ o.exposed \in Nat
                            /\ o.index <= Height
                            /\ WithinSlashingWindow(o.index) =>
                                  AtRisk(o.validator, o.index) >= o.exposed
  BY HeightType DEF TypeOK, Covered, Height
\* Enough for every step but Slash: what is at risk does not shrink.
<1>1. ASSUME height' >= height, height' \in Nat, offence' = offence,
             \A o \in offence : WithinSlashingWindow(o.index)' =>
                AtRisk(o.validator, o.index)' >= AtRisk(o.validator, o.index)
      PROVE  Covered'
  <2> SUFFICES ASSUME NEW o \in offence
               PROVE  /\ o.index <= Height'
                      /\ WithinSlashingWindow(o.index)' =>
                            AtRisk(o.validator, o.index)' >= o.exposed
    BY <1>1 DEF Covered
  <2>1. Height' = height' + 1 /\ o.index <= Height'
    BY <1>0, <1>1 DEF Height
  <2>2. ASSUME WithinSlashingWindow(o.index)'
        PROVE  AtRisk(o.validator, o.index)' >= o.exposed
    <3>1. o.index + SLASHING_WINDOW_BLOCKS >= Height'
      BY <2>2 DEF WithinSlashingWindow
    <3>2. WithinSlashingWindow(o.index)
      BY <3>1, <2>1, <1>0, <1>1, HeightsAssumption DEF WithinSlashingWindow
    <3>3. AtRisk(o.validator, o.index) >= o.exposed /\ AtRisk(o.validator, o.index) \in Nat
      BY <3>2, <1>0, AtRiskType
    <3>4. AtRisk(o.validator, o.index)' >= AtRisk(o.validator, o.index)
      BY <2>2, <1>1
    <3>5. AtRisk(o.validator, o.index)' \in Nat
      BY <1>0, AtRiskTypeNext
    <3> QED BY <3>3, <3>4, <3>5, <1>0
  <2> QED BY <2>1, <2>2
<1>2. ASSUME UNCHANGED <<height, stake, unbonding, offence>> PROVE Covered'
  <2>1. \A o \in offence : AtRisk(o.validator, o.index)' = AtRisk(o.validator, o.index)
                            /\ AtRisk(o.validator, o.index) \in Nat
    BY <1>0, <1>2, AtRiskUnchanged, AtRiskType
  <2> QED BY <2>1, <1>0, <1>1, <1>2
<1>3. ASSUME NEW v \in Users, BeginBlock(v) PROVE Covered'
  <2>1. UNCHANGED <<height, stake, unbonding>>
    BY <1>3 DEF BeginBlock, staking
  <2>2. CASE UNCHANGED offence
    BY <2>1, <2>2, <1>2
  <2>3. CASE offence' = {[validator |-> v, index |-> Height, exposed |-> stake[v]]}
    <3>1. PICK i \in Nat : i = Height /\ Height' = i
      BY <2>1, <1>0 DEF Height
    <3>2. AtRisk(v, i)' >= stake[v]
      <4>1. stake[v] \in Nat /\ Total(StillUnbonding(v, i)) \in Nat
        BY <3>1, AtRiskType DEF TypeOK
      <4>2. AtRisk(v, i) >= stake[v]
        BY <4>1 DEF AtRisk
      <4>3. AtRisk(v, i)' = AtRisk(v, i)
        BY <2>1, <3>1, AtRiskUnchanged
      <4> QED BY <4>2, <4>3
    <3>3. ASSUME NEW o \in offence'
          PROVE  /\ o.index <= Height'
                 /\ WithinSlashingWindow(o.index)' => AtRisk(o.validator, o.index)' >= o.exposed
      <4>1. o.validator = v /\ o.index = i /\ o.exposed = stake[v]
        BY <2>3, <3>1
      <4>2. AtRisk(o.validator, o.index)' >= o.exposed
        BY <3>2, <4>1
      <4> QED BY <3>1, <4>1, <4>2
    <3> QED BY <3>3 DEF Covered
  <2> QED BY <2>2, <2>3, <1>3 DEF BeginBlock
<1>4. ASSUME NEW from \in Users, NEW amount \in Amounts, NEW nonce \in Nonces,
             Stake(from, amount, nonce)
      PROVE  Covered'
  <2>1. height' = height /\ offence' = offence /\ unbonding' = unbonding
    BY <1>4 DEF Stake, chain
  <2>2. /\ stake'[from] = stake[from] + amount /\ amount \in Nat
        /\ \A u \in Users \ {from} : stake'[u] = stake[u]
    BY <1>4, StakeBase, BoundsType
  <2>3. ASSUME NEW v \in Users, NEW i \in Nat PROVE AtRisk(v, i)' >= AtRisk(v, i)
    <3>1. StillUnbonding(v, i)' = StillUnbonding(v, i)
      BY <2>1 DEF StillUnbonding
    <3>2. /\ AtRisk(v, i)' = stake'[v] + Total(StillUnbonding(v, i))
          /\ AtRisk(v, i) = stake[v] + Total(StillUnbonding(v, i))
      BY <3>1 DEF AtRisk
    <3>3. Total(StillUnbonding(v, i)) \in Nat /\ stake[v] \in Nat /\ stake'[v] \in Nat
      BY AtRiskType DEF TypeOK
    <3>4. stake'[v] >= stake[v]
      <4>1. CASE v = from
        BY <4>1, <2>2, <3>3
      <4>2. CASE v # from
        BY <4>2, <2>2, <3>3
      <4> QED BY <4>1, <4>2
    <3> QED BY <3>2, <3>3, <3>4
  <2> QED BY <2>1, <2>3, <1>0, <1>1
<1>5. ASSUME NEW from \in Users, NEW amount \in Amounts, NEW nonce \in Nonces,
             Withdraw(from, amount, nonce)
      PROVE  Covered'
  <2>1. height' = height /\ offence' = offence
    BY <1>5 DEF Withdraw, chain
  <2>2. \A o \in offence : AtRisk(o.validator, o.index)' = AtRisk(o.validator, o.index)
                            /\ AtRisk(o.validator, o.index) \in Nat
    BY <1>0, <1>5, WithdrawAtRisk, AtRiskType
  <2> QED BY <2>1, <2>2, <1>0, <1>1
<1>6. ASSUME NEW v \in Users, NEW index \in OffenceIndices, Slash(v, index)
      PROVE  Covered'
  <2>1. /\ height' = height
        /\ offence' = {[o EXCEPT !.exposed =
                           IF o.validator = v THEN Minus(@, SlashAmount(v)) ELSE @] : o \in offence}
    BY <1>6 DEF Slash, chain
  <2>2. /\ SlashAmount(v) \in Nat
        /\ \A u \in Users \ {v} : stake'[u] = stake[u] /\ unbonding'[u] = unbonding[u]
    BY <1>6, SlashBase
  <2>3. offence \subseteq [validator : Users, index : Nat, exposed : Nat]
    BY DEF TypeOK
  <2>4. SUFFICES ASSUME NEW p \in offence'
                 PROVE  /\ p.index <= Height'
                        /\ WithinSlashingWindow(p.index)' =>
                              AtRisk(p.validator, p.index)' >= p.exposed
    BY DEF Covered
  <2>5. PICK o \in offence :
           /\ p.validator = o.validator /\ p.index = o.index
           /\ p.exposed = IF o.validator = v THEN Minus(o.exposed, SlashAmount(v)) ELSE o.exposed
    <3> HIDE DEF SlashAmount
    <3> QED BY <2>1, <2>3
  <2>6. Height' = Height /\ (WithinSlashingWindow(p.index)' => WithinSlashingWindow(o.index))
    BY <2>1, <2>5 DEF Height, WithinSlashingWindow
  <2>7. /\ AtRisk(o.validator, o.index) \in Nat /\ AtRisk(o.validator, o.index)' \in Nat
        /\ o.validator \in Users /\ o.index \in Nat /\ o.exposed \in Nat
    <3>1. o.validator \in Users /\ o.index \in Nat /\ o.exposed \in Nat
      BY <1>0
    <3> QED BY <3>1, AtRiskType, AtRiskTypeNext
  <2>8. ASSUME WithinSlashingWindow(p.index)' PROVE AtRisk(o.validator, o.index)' >= p.exposed
    <3>1. AtRisk(o.validator, o.index) >= o.exposed
      BY <2>6, <2>8, <1>0
    <3>2. CASE o.validator = v
      <4>1. AtRisk(v, o.index)' + SlashAmount(v) >= AtRisk(v, o.index)
        BY <1>6, <2>7, SlashAtRisk
      <4>2. p.exposed = Minus(o.exposed, SlashAmount(v))
        BY <2>5, <3>2
      <4>3. ASSUME NEW a \in Nat, NEW b \in Nat, NEW e \in Nat, NEW n \in Nat,
                   b + n >= a, a >= e
            PROVE  b >= Minus(e, n)
        BY <4>3 DEF Minus
      <4> QED BY <3>1, <3>2, <4>1, <4>2, <4>3, <2>2, <2>7
    <3>3. CASE o.validator # v
      <4>1. AtRisk(o.validator, o.index)' = AtRisk(o.validator, o.index)
        BY <3>3, <2>2, <2>7, AtRiskUnchanged
      <4> QED BY <3>1, <3>3, <4>1, <2>5
    <3> QED BY <3>2, <3>3
  <2> QED BY <2>5, <2>6, <2>8, <1>0
<1>7. ASSUME EndBlock PROVE Covered'
  <2>1. height' = Height /\ offence' = offence /\ stake' = stake
        /\ unbonding' = [u \in Users |-> [r \in ReleaseHeights |->
                           IF r <= Height THEN 0 ELSE unbonding[u][r]]]
    BY <1>7 DEF EndBlock
  <2>2. ASSUME NEW o \in offence, WithinSlashingWindow(o.index)'
        PROVE  AtRisk(o.validator, o.index)' = AtRisk(o.validator, o.index)
    <3>1. o.index + UNBONDING_BLOCKS > Height
      BY <2>1, <2>2, <1>0, HeightsAssumption DEF WithinSlashingWindow, Height
    <3>2. o.validator \in Users /\ o.index \in Nat /\ o.index + UNBONDING_BLOCKS \in Nat
      BY <1>0, HeightsAssumption
    <3>3. ASSUME NEW r \in ReleaseHeights, r >= o.index + UNBONDING_BLOCKS
          PROVE  unbonding'[o.validator][r] = unbonding[o.validator][r]
      <4>1. r \in Nat
        BY HeightsAssumption DEF ReleaseHeights
      <4>2. ~(r <= Height)
        BY <4>1, <3>1, <3>2, <3>3, <1>0
      <4> QED BY <4>2, <2>1, <3>2
    <3>4. StillUnbonding(o.validator, o.index)' = StillUnbonding(o.validator, o.index)
      BY <3>3 DEF StillUnbonding
    <3> QED BY <3>4, <2>1 DEF AtRisk
  <2>3. \A o \in offence : AtRisk(o.validator, o.index) \in Nat
    BY <1>0, AtRiskType
  <2> QED BY <2>1, <2>2, <2>3, <1>0, <1>1
<1> QED
  BY <1>2, <1>3, <1>4, <1>5, <1>6, <1>7
  DEF Next, Transfer, Vest, Issue, Revoke, Reward, chain, staking, vars

\* Withdrawing, re-staking, releases and slashes for other offences cannot put
\* the stake behind an offence out of the reach of its proof: the unbonding
\* period is at least the slashing window, and a slash drains the oldest first.
THEOREM OffencesStayPunishable == Spec => []OffenceStaysPunishable
<1> DEFINE Sound == (Funds /\ Settled) /\ Covered
<1>1. Init => Covered
  BY DEF Init, Covered
<1>2. Sound /\ [Next]_vars => Covered'
  <2> SUFFICES ASSUME Funds, Covered, [Next]_vars PROVE Covered'
    OBVIOUS
  <2>1. TypeOK /\ TypeOK'
    BY NextFunds DEF Funds
  <2> QED BY <2>1, NextCovered
<1>3. Sound => OffenceStaysPunishable
  <2> SUFFICES ASSUME Funds, Settled, Covered, NEW o \in offence,
                      WithinSlashingWindow(o.index), o.exposed > 0
               PROVE  o.validator \in stakers /\ SlashableBase(o.validator) >= o.exposed
    BY DEF OffenceStaysPunishable
  <2>1. TypeOK /\ o.validator \in Users /\ o.index \in Nat /\ o.exposed \in Nat
    BY DEF Funds, TypeOK
  <2>2. AtRisk(o.validator, o.index) >= o.exposed
    BY DEF Covered
  <2>3. /\ AtRisk(o.validator, o.index) <= SlashableBase(o.validator)
        /\ AtRisk(o.validator, o.index) \in Nat /\ SlashableBase(o.validator) \in Nat
    BY <2>1, AtRiskType, SlashType
  <2>4. SlashableBase(o.validator) >= o.exposed /\ SlashableBase(o.validator) > 0
    BY <2>1, <2>2, <2>3
  <2> QED BY <2>1, <2>4 DEF Settled
<1> QED BY <1>1, <1>2, <1>3, SettledInvariant, PTL DEF Spec

-----------------------------------------------------------------------------
(* Vesting follows its schedule                                            *)

\* A schedule never takes back what it granted.
LEMMA VestedAtGrows ==
    ASSUME NEW e \in VestingEntry, e.start < e.end, NEW h \in Nat
    PROVE  VestedAt(e, h) <= VestedAt(e, h + 1)
<1>1. /\ e.total \in Nat /\ e.start \in Nat /\ e.cliff \in Nat /\ e.end \in Nat
      /\ e.start <= e.cliff /\ e.cliff <= e.end
  BY DEF VestingEntry
<1>2. VestedAt(e, h) \in 0 .. e.total /\ VestedAt(e, h + 1) \in 0 .. e.total
  BY VestedAtType
<1>3. CASE h < e.cliff \/ h + 1 >= e.end
  BY <1>1, <1>2, <1>3 DEF VestedAt
<1>4. CASE h >= e.cliff /\ h + 1 < e.end
  <2>1. PICK t \in Nat, x \in Nat, d \in Nat \ {0} :
           /\ t = e.total /\ x = h - e.start /\ d = e.end - e.start /\ h + 1 - e.start = x + 1
    BY <1>1, <1>4
  <2>2. VestedAt(e, h) = (t * x) \div d /\ VestedAt(e, h + 1) = (t * (x + 1)) \div d
    BY <1>1, <1>4, <2>1 DEF VestedAt
  <2>3. t * x \in Nat /\ t * (x + 1) \in Nat /\ t * x <= t * (x + 1)
    OBVIOUS
  <2> QED BY <2>2, <2>3, QuotientMonotone
<1> QED BY <1>1, <1>3, <1>4

\* VestedAt reads only the schedule of an entry.
LEMMA VestedAtSchedule ==
    ASSUME NEW e, NEW f, e.total = f.total, e.start = f.start, e.cliff = f.cliff,
           e.end = f.end, NEW h
    PROVE  VestedAt(e, h) = VestedAt(f, h)
BY DEF VestedAt

\* end_block brings an entry that was on time at the last height up to this one.
LEMMA ReleaseOnTime ==
    ASSUME NEW e \in VestingEntry, height \in Nat, e.start < e.end,
           e.released = VestedAt(e, height), AfterRelease(e).total > 0
    PROVE  /\ Height < AfterRelease(e).end
           /\ AfterRelease(e).start < AfterRelease(e).end
           /\ AfterRelease(e).released = VestedAt(AfterRelease(e), Height)
<1>1. /\ e.total \in Nat /\ e.released \in Nat /\ e.start \in Nat /\ e.end \in Nat
      /\ e.cliff \in Nat /\ e.cliff <= e.end
      /\ Height = height + 1 /\ Height \in Nat
  BY DEF VestingEntry, Height
<1>2. VestedAt(e, Height) \in 0 .. e.total /\ VestedAt(e, height) <= VestedAt(e, Height)
  BY <1>1, VestedAtType, VestedAtGrows
<1>3. e.released + NewlyVested(e) = VestedAt(e, Height)
  BY <1>1, <1>2 DEF NewlyVested, Minus
<1>4. VestedAt(e, Height) < e.total /\ AfterRelease(e) = [e EXCEPT !.released = VestedAt(e, Height)]
  <2>1. CASE VestedAt(e, Height) < e.total
    BY <1>3, <2>1 DEF AfterRelease
  <2>2. CASE ~(VestedAt(e, Height) < e.total)
    BY <1>3, <2>2 DEF AfterRelease, NoVesting
  <2> QED BY <2>1, <2>2
<1>5. PICK f : f = AfterRelease(e)
  OBVIOUS
<1>6. /\ f.total = e.total /\ f.start = e.start /\ f.cliff = e.cliff /\ f.end = e.end
      /\ f.released = VestedAt(e, Height)
  <2>1. PICK n : n = VestedAt(e, Height)
    OBVIOUS
  <2>2. f = [e EXCEPT !.released = n]
    BY <1>4, <1>5, <2>1
  <2> QED BY <2>1, <2>2 DEF VestingEntry
<1>7. VestedAt(f, Height) = VestedAt(e, Height)
  BY <1>6, VestedAtSchedule
<1>8. Height < e.end
  <2>1. ASSUME Height >= e.end PROVE VestedAt(e, Height) = e.total
    BY <1>1, <2>1 DEF VestedAt
  <2> QED BY <1>1, <1>2, <1>4, <2>1
<1> QED BY <1>5, <1>6, <1>7, <1>8

LEMMA NextOnTime ==
    ASSUME TypeOK, OnTime, [Next]_vars
    PROVE  OnTime'
<1>0. /\ height \in Nat /\ Height = height + 1
      /\ vesting \in [Users -> [VestIds -> VestingEntry]]
      /\ NoVesting.total = 0
  BY HeightsAssumption DEF TypeOK, Height, NoVesting
<1>1. ASSUME NEW from \in Users, NEW to \in Users, NEW amount \in Amounts,
             NEW s \in Schedules, NEW nonce \in Nonces, Vest(from, to, amount, s, nonce)
      PROVE  OnTime'
  <2> DEFINE e == [total |-> amount, released |-> 0, start |-> Height,
                   cliff |-> Height + s[1], end |-> Height + s[2]]
  <2>1. /\ height' = height
        /\ vesting' = [vesting EXCEPT ![to][<<from, nonce>>] = e]
    BY <1>1 DEF Vest, chain
  <2>2. s[1] \in Nat /\ s[2] \in Nat \ {0}
    BY HeightsAssumption
  <2>3. height < e.end /\ e.start < e.end /\ e.released = VestedAt(e, height)
    BY <2>2, <1>0 DEF VestedAt
  <2> HIDE DEF e
  <2>4. ASSUME NEW u \in Users, NEW id \in VestIds
        PROVE  vesting'[u][id] = vesting[u][id] \/ vesting'[u][id] = e
    BY <2>1, <1>0
  <2>5. ASSUME NEW u \in Users, NEW id \in VestIds, vesting'[u][id].total > 0
        PROVE  /\ height < vesting'[u][id].end
               /\ vesting'[u][id].start < vesting'[u][id].end
               /\ vesting'[u][id].released = VestedAt(vesting'[u][id], height)
    <3>1. CASE vesting'[u][id] = vesting[u][id]
      BY <2>5, <3>1 DEF OnTime
    <3>2. CASE vesting'[u][id] = e
      BY <2>3, <3>2
    <3> QED BY <2>4, <3>1, <3>2
  <2> QED BY <2>1, <2>5 DEF OnTime, VestedAt
<1>2. ASSUME EndBlock PROVE OnTime'
  <2>1. /\ height' = Height
        /\ \A u \in Users, id \in VestIds : vesting'[u][id] = AfterRelease(vesting[u][id])
    BY <1>2 DEF EndBlock
  <2>2. ASSUME NEW e \in VestingEntry, ~(e.total > 0)
        PROVE  ~(AfterRelease(e).total > 0)
    <3>1. e.total = 0
      BY <2>2 DEF VestingEntry
    <3>2. e.released \in Nat /\ NewlyVested(e) \in Nat
      <4>1. Height \in Nat /\ e.released \in Nat
        BY <1>0 DEF VestingEntry
      <4>2. VestedAt(e, Height) \in Nat
        BY <3>1, <4>1, VestedAtType
      <4> QED BY <4>1, <4>2 DEF NewlyVested, Minus
    <3> QED BY <3>1, <3>2, <1>0 DEF AfterRelease
  <2>3. ASSUME NEW u \in Users, NEW id \in VestIds, vesting'[u][id].total > 0
        PROVE  /\ Height < vesting'[u][id].end
               /\ vesting'[u][id].start < vesting'[u][id].end
               /\ vesting'[u][id].released = VestedAt(vesting'[u][id], Height)
    <3>1. PICK e \in VestingEntry : e = vesting[u][id]
      BY <1>0
    <3>2. vesting'[u][id] = AfterRelease(e)
      BY <2>1, <3>1
    <3>3. e.total > 0
      BY <2>2, <2>3, <3>2
    <3>4. e.start < e.end /\ e.released = VestedAt(e, height)
      BY <3>1, <3>3 DEF OnTime
    <3> QED BY <2>3, <3>2, <3>4, <1>0, ReleaseOnTime
  <2>4. ASSUME NEW u \in Users, NEW id \in VestIds
        PROVE  VestedAt(vesting[u][id], height)' = VestedAt(vesting'[u][id], Height)
    BY <2>1 DEF VestedAt
  <2> QED BY <2>1, <2>3, <2>4 DEF OnTime
<1>3. ASSUME UNCHANGED <<height, vesting>> PROVE OnTime'
  BY <1>3 DEF OnTime, VestedAt
<1> QED
  BY <1>1, <1>2, <1>3
  DEF Next, BeginBlock, Transfer, Stake, Withdraw, Slash, Issue, Revoke, Reward, chain, vars

\* Between blocks every open entry has released exactly its share, rounded down,
\* nothing before the cliff, and an entry paid in full is gone.
THEOREM VestingIsOnSchedule == Spec => []VestingOnSchedule
<1> DEFINE Sound == Funds /\ OnTime
<1>1. Init => OnTime
  BY DEF Init, OnTime, NoVesting
<1>2. Sound /\ [Next]_vars => OnTime'
  BY NextOnTime DEF Funds
<1>3. Sound => VestingOnSchedule
  <2> SUFFICES ASSUME Funds, OnTime, NEW u \in Users, NEW id \in VestIds,
                      NEW e, e = vesting[u][id], e.total > 0
               PROVE  /\ height < e.end
                      /\ height < e.cliff => e.released = 0
                      /\ height >= e.cliff =>
                            /\ e.released * (e.end - e.start) <= e.total * (height - e.start)
                            /\ e.total * (height - e.start) < (e.released + 1) * (e.end - e.start)
    BY DEF VestingOnSchedule
  <2>1. e \in VestingEntry /\ height \in Nat
    BY HeightsAssumption DEF Funds, TypeOK
  <2>2. height < e.end /\ e.start < e.end /\ e.released = VestedAt(e, height)
    BY DEF OnTime
  <2>3. /\ e.total \in Nat /\ e.start \in Nat /\ e.cliff \in Nat /\ e.end \in Nat
        /\ e.start <= e.cliff /\ e.released \in Nat
    BY <2>1 DEF VestingEntry
  <2>4. height < e.cliff => e.released = 0
    BY <2>2 DEF VestedAt
  <2>5. ASSUME height >= e.cliff
        PROVE  /\ e.released * (e.end - e.start) <= e.total * (height - e.start)
               /\ e.total * (height - e.start) < (e.released + 1) * (e.end - e.start)
    <3>1. PICK x \in Nat, d \in Nat \ {0} : x = height - e.start /\ d = e.end - e.start
      BY <2>1, <2>2, <2>3, <2>5
    <3>2. e.released = (e.total * x) \div d
      BY <2>1, <2>2, <2>3, <2>5, <3>1 DEF VestedAt
    <3>3. e.total * x \in Nat
      BY <2>3
    <3> QED BY <3>1, <3>2, <3>3, QuotientBounds
  <2> QED BY <2>2, <2>4, <2>5
<1> QED BY <1>1, <1>2, <1>3, FundsInvariant, PTL DEF Spec

-----------------------------------------------------------------------------
(* Nobody loses to a step of somebody else                                 *)

\* What a step may do to the wealth of u.
FairTo(u) ==
    \/ Wealth(u)' >= Wealth(u)
    \/ \E i \in OffenceIndices : <<u, i>> \in slashed_offenses' \ slashed_offenses
    \/ /\ nonces'[u] = nonces[u] + 1
       /\ \E amount \in Amounts : Wealth(u)' >= Wealth(u) - amount - base_fee

\* What a step may do to a credential.
Kept(c) ==
    \/ c \in credentials'
    \/ /\ nonces'[c.issuer] = nonces[c.issuer] + 1
       /\ [c EXCEPT !.revoked = TRUE] \in credentials'

OwnersOnly == (\A u \in Users : FairTo(u)) /\ (\A c \in credentials : Kept(c))

\* The parts of an account's wealth, before and after a step.
LEMMA WealthParts ==
    ASSUME Funds, Funds', NEW u \in Users
    PROVE  /\ balances[u] \in Nat /\ SlashableBase(u) \in Nat /\ Locked(u) \in Nat
           /\ balances'[u] \in Nat /\ SlashableBase(u)' \in Nat /\ Locked(u)' \in Nat
           /\ Wealth(u) = balances[u] + SlashableBase(u) + Locked(u)
           /\ Wealth(u)' = balances'[u] + SlashableBase(u)' + Locked(u)'
<1>1. TypeOK /\ TypeOK' /\ VestingFresh /\ VestingFresh' /\ u \in Accounts
  BY PoolsApart DEF Funds
<1>2. balances[u] \in Nat /\ balances'[u] \in Nat /\ stake'[u] \in Nat
  BY <1>1 DEF TypeOK
<1>3. SlashableBase(u) \in Nat /\ Locked(u) \in Nat
  BY <1>1, SlashType, OwedType
<1>4. SlashableBase(u)' \in Nat
  <2>1. UnbondingTotal(u)' \in Nat
    BY <1>1, FiniteDomains, TotalType DEF TypeOK, UnbondingTotal
  <2>2. SlashableBase(u)' = stake'[u] + UnbondingTotal(u)'
    BY DEF SlashableBase
  <2> QED BY <2>1, <2>2, <1>2
<1>5. Locked(u)' \in Nat
  <2> DEFINE open == [id \in VestIds |-> vesting'[u][id].total - vesting'[u][id].released]
  <2>1. open \in [VestIds -> Nat]
    BY <1>1 DEF VestingFresh, TypeOK, VestingEntry
  <2> HIDE DEF open
  <2>2. Total(open) \in Nat
    BY <2>1, FiniteDomains, TotalType
  <2> QED BY <2>2 DEF Locked, open
<1>6. Wealth(u) = balances[u] + SlashableBase(u) + Locked(u)
  BY DEF Wealth
<1>7. Wealth(u)' = balances'[u] + SlashableBase(u)' + Locked(u)'
  BY DEF Wealth
<1> QED BY <1>2, <1>3, <1>4, <1>5, <1>6, <1>7

\* A step that lowers no part is fair.
LEMMA FairGain ==
    ASSUME Funds, Funds', NEW u \in Users, balances'[u] >= balances[u],
           SlashableBase(u)' >= SlashableBase(u), Locked(u)' >= Locked(u)
    PROVE  FairTo(u)
<1>1. ASSUME NEW a \in Nat, NEW b \in Nat, NEW c \in Nat,
             NEW d \in Nat, NEW e \in Nat, NEW f \in Nat, d >= a, e >= b, f >= c
      PROVE  d + e + f >= a + b + c
  BY <1>1
<1>2. balances'[u] + SlashableBase(u)' + Locked(u)' >= balances[u] + SlashableBase(u) + Locked(u)
  BY <1>1, WealthParts
<1> QED BY <1>2, WealthParts DEF FairTo

\* A transaction of `from` that debits one amount and one fee, and lowers nothing else.
LEMMA FairTransaction ==
    ASSUME Funds, Funds', NEW from \in Users, NEW amount \in Amounts, NEW nonce \in Nonces,
           ConsumeNonce(from, nonce),
           balances'[from] >= balances[from] - amount - base_fee,
           \A u \in Users \ {from} : balances'[u] >= balances[u],
           \A u \in Users : SlashableBase(u)' >= SlashableBase(u) /\ Locked(u)' >= Locked(u)
    PROVE  \A u \in Users : FairTo(u)
<1>1. \A u \in Users \ {from} : FairTo(u)
  BY FairGain
<1>2. FairTo(from)
  <2>1. nonces'[from] = nonces[from] + 1
    BY DEF ConsumeNonce, Funds, TypeOK
  <2>2. amount \in Nat /\ base_fee \in Nat
    BY BoundsType DEF Funds, TypeOK
  <2>3. ASSUME NEW a \in Nat, NEW b \in Nat, NEW c \in Nat, NEW n \in Nat, NEW m \in Nat,
               NEW d \in Nat, NEW e \in Nat, NEW f \in Nat, d >= a - n - m, e >= b, f >= c
        PROVE  d + e + f >= (a + b + c) - n - m
    BY <2>3
  <2>4. balances'[from] + SlashableBase(from)' + Locked(from)' >=
            (balances[from] + SlashableBase(from) + Locked(from)) - amount - base_fee
    <3>1. /\ SlashableBase(from)' >= SlashableBase(from) /\ Locked(from)' >= Locked(from)
          /\ balances'[from] >= balances[from] - amount - base_fee
      OBVIOUS
    <3> QED BY <2>2, <2>3, <3>1, WealthParts
  <2>5. Wealth(from)' >= Wealth(from) - amount - base_fee
    BY <2>4, WealthParts
  <2> QED BY <2>1, <2>5 DEF FairTo
<1> QED BY <1>1, <1>2

\* The two ends of a payment.
LEMMA PayEnds ==
    ASSUME TypeOK, NEW from \in Users, NEW to \in Accounts, NEW amount \in Nat,
           CanPay(from, amount), Pay(from, to, amount)
    PROVE  /\ balances'[from] >= balances[from] - amount - base_fee
           /\ \A a \in Accounts \ {from} : balances'[a] >= balances[a]
<1>1. from \in Accounts /\ base_fee \in Nat /\ balances \in [Accounts -> Nat]
  BY DEF Accounts, TypeOK
<1>2. balances[from] \in Nat /\ balances[from] >= amount + base_fee
  BY <1>1 DEF CanPay
<1>3. PICK debited :
         /\ debited = [balances EXCEPT ![from] = @ - (amount + base_fee)]
         /\ balances' = [debited EXCEPT ![to] = @ + amount]
  BY DEF Pay
<1>4. /\ debited \in [Accounts -> Nat]
      /\ debited[from] = balances[from] - (amount + base_fee)
      /\ \A a \in Accounts \ {from} : debited[a] = balances[a]
  BY <1>1, <1>2, <1>3
<1>5. /\ balances'[to] = debited[to] + amount
      /\ \A a \in Accounts \ {to} : balances'[a] = debited[a]
  BY <1>3, <1>4
<1>6. \A a \in Accounts : balances'[a] >= debited[a] /\ debited[a] \in Nat
  BY <1>4, <1>5
<1>7. balances'[from] \in Int
  BY <1>1, <1>4, <1>5
<1> QED BY <1>1, <1>2, <1>4, <1>6, <1>7

LEMMA PartsUnchanged ==
    ASSUME NEW u \in Users
    PROVE  /\ UNCHANGED <<stake, unbonding>> => SlashableBase(u)' = SlashableBase(u)
           /\ UNCHANGED vesting => Locked(u)' = Locked(u)
BY DEF SlashableBase, UnbondingTotal, Locked

\* Locking an amount lowers what nobody had locked: its place was empty.
LEMMA VestLocked ==
    ASSUME Funds, Funds', NEW from \in Users, NEW to \in Users, NEW amount \in Amounts,
           NEW s \in Schedules, NEW nonce \in Nonces, Vest(from, to, amount, s, nonce)
    PROVE  \A u \in Users : Locked(u)' >= Locked(u)
<1> DEFINE new == [total |-> amount, released |-> 0, start |-> Height,
                   cliff |-> Height + s[1], end |-> Height + s[2]]
           id == <<from, nonce>>
<1>1. /\ vesting' = [vesting EXCEPT ![to][id] = new]
      /\ nonce = nonces[from] + 1
      /\ id \in VestIds /\ id[1] = from /\ id[2] = nonce
      /\ TypeOK /\ TypeOK' /\ VestingFresh /\ VestingFresh'
  BY DEF Vest, ConsumeNonce, Funds, VestIds, Nonces
<1>2. nonces[from] \in Nat /\ amount \in Nat
  BY <1>1, BoundsType DEF TypeOK
<1>3. vesting[to][id] = NoVesting
  BY <1>1, <1>2 DEF VestingFresh
<1>4. new.total - new.released = amount
  BY <1>2
<1> HIDE DEF new, id
<1>5. /\ vesting'[to][id] = new
      /\ \A u \in Users, i \in VestIds : u # to \/ i # id => vesting'[u][i] = vesting[u][i]
  BY <1>1 DEF TypeOK
<1>6. ASSUME NEW u \in Users PROVE Locked(u)' >= Locked(u)
  <2>1. ASSUME NEW f, NEW g,
               f = [i \in VestIds |-> vesting[u][i].total - vesting[u][i].released],
               g = [i \in VestIds |-> vesting'[u][i].total - vesting'[u][i].released]
        PROVE  Total(g) >= Total(f)
    <3>1. f \in [VestIds -> Nat] /\ g \in [VestIds -> Nat]
      BY <2>1, <1>1 DEF VestingFresh, TypeOK, VestingEntry
    <3>2. ASSUME NEW i \in VestIds PROVE f[i] <= g[i]
      <4>1. CASE u = to /\ i = id
        <5>1. f[i] = 0 /\ g[i] = amount
          BY <2>1, <4>1, <1>3, <1>4, <1>5 DEF NoVesting
        <5> QED BY <5>1, <1>2
      <4>2. CASE u # to \/ i # id
        <5>1. f[i] = g[i] /\ f[i] \in Nat
          BY <2>1, <3>1, <4>2, <1>5
        <5> QED BY <5>1
      <4> QED BY <4>1, <4>2
    <3>3. Total(f) <= Total(g)
      BY <3>1, <3>2, FiniteDomains, TotalMonotone
    <3>4. Total(f) \in Nat /\ Total(g) \in Nat
      BY <3>1, FiniteDomains, TotalType
    <3> QED BY <3>3, <3>4
  <2> QED BY <2>1 DEF Locked
<1> QED BY <1>6

\* What end_block takes out of the locked parts of an account it pays out to it.
LEMMA EndBlockFair ==
    ASSUME Funds, Funds', EndBlock, NEW u \in Users
    PROVE  FairTo(u)
<1>1. TypeOK /\ TypeOK' /\ VestingFresh /\ fee_pot \in Nat
  BY DEF Funds, TypeOK
<1>2. balances'[u] = balances[u] + Payout(u)
  BY PoolsApart DEF EndBlock
<1>3. SlashableBase(u) = Matured(u) + SlashableBase(u)' /\ Matured(u) \in Nat
  BY <1>1, EndBlockBase
<1>4. Locked(u) = VestedFor(u) + Locked(u)' /\ VestedFor(u) \in Nat
  BY <1>1, VestedSplit, PayoutType
<1>5. Payout(u) >= Matured(u) + VestedFor(u) /\ Payout(u) \in Nat
  BY <1>1, <1>3, <1>4 DEF Payout
<1>6. ASSUME NEW a \in Nat, NEW p \in Nat, NEW m \in Nat, NEW w \in Nat,
             NEW b \in Nat, NEW l \in Nat, p >= m + w
      PROVE  (a + p) + b + l >= a + (m + b) + (w + l)
  BY <1>6
<1>7. (balances[u] + Payout(u)) + SlashableBase(u)' + Locked(u)' >=
          balances[u] + (Matured(u) + SlashableBase(u)') + (VestedFor(u) + Locked(u)')
  BY <1>3, <1>4, <1>5, <1>6, WealthParts
<1>8. Wealth(u)' = (balances[u] + Payout(u)) + SlashableBase(u)' + Locked(u)'
  BY <1>2, WealthParts
<1>9. Wealth(u) = balances[u] + (Matured(u) + SlashableBase(u)') + (VestedFor(u) + Locked(u)')
  BY <1>3, <1>4, WealthParts
<1> QED BY <1>7, <1>8, <1>9 DEF FairTo

\* Only a revocation by the issuer touches a credential.
LEMMA RevokeKeeps ==
    ASSUME TypeOK, NEW from \in Users, NEW id \in CredentialIds, NEW nonce \in Nonces,
           Revoke(from, id, nonce), NEW c \in credentials
    PROVE  Kept(c)
<1>1. PICK r \in credentials :
         /\ r.id = id /\ r.issuer = from
         /\ credentials' = (credentials \ {r}) \cup {[r EXCEPT !.revoked = TRUE]}
  BY DEF Revoke
<1>2. nonces'[from] = nonces[from] + 1
  BY DEF Revoke, ConsumeNonce, TypeOK
<1>3. CASE c = r
  BY <1>1, <1>2, <1>3 DEF Kept
<1>4. CASE c # r
  BY <1>1, <1>4 DEF Kept
<1> QED BY <1>3, <1>4

LEMMA StepFair ==
    ASSUME Funds, Funds', Next
    PROVE  \A u \in Users : FairTo(u)
<1> USE PoolsApart
<1>0. /\ TypeOK /\ TypeOK'
      /\ \A u \in Users : /\ balances[u] \in Nat /\ balances'[u] \in Nat
                          /\ SlashableBase(u) \in Nat /\ SlashableBase(u)' \in Nat
                          /\ Locked(u) \in Nat /\ Locked(u)' \in Nat
  BY WealthParts DEF Funds
<1>1. ASSUME UNCHANGED <<balances, stake, unbonding, vesting>> PROVE \A u \in Users : FairTo(u)
  <2> SUFFICES ASSUME NEW u \in Users PROVE FairTo(u)
    OBVIOUS
  <2>1. balances'[u] = balances[u] /\ SlashableBase(u)' = SlashableBase(u) /\ Locked(u)' = Locked(u)
    BY <1>1, PartsUnchanged
  <2>2. /\ balances'[u] >= balances[u] /\ SlashableBase(u)' >= SlashableBase(u)
        /\ Locked(u)' >= Locked(u)
    BY <2>1, <1>0
  <2> QED BY <2>2, FairGain
<1>2. ASSUME NEW from \in Users, NEW to \in Users, NEW amount \in Amounts,
             NEW nonce \in Nonces, Transfer(from, to, amount, nonce)
      PROVE  \A u \in Users : FairTo(u)
  <2>1. amount \in Nat /\ CanPay(from, amount) /\ Pay(from, to, amount)
        /\ ConsumeNonce(from, nonce) /\ UNCHANGED <<stake, unbonding, vesting>>
    BY <1>2, BoundsType DEF Transfer, staking
  <2>2. /\ balances'[from] >= balances[from] - amount - base_fee
        /\ \A u \in Users \ {from} : balances'[u] >= balances[u]
    BY <2>1, <1>0, PayEnds
  <2>3. \A u \in Users : SlashableBase(u)' >= SlashableBase(u) /\ Locked(u)' >= Locked(u)
    BY <2>1, <1>0, PartsUnchanged
  <2> QED BY <2>1, <2>2, <2>3, FairTransaction
<1>3. ASSUME NEW from \in Users, NEW amount \in Amounts, NEW nonce \in Nonces,
             Stake(from, amount, nonce)
      PROVE  \A u \in Users : FairTo(u)
  <2>1. amount \in Nat /\ CanPay(from, amount) /\ Pay(from, STAKING_POOL_ACCOUNT, amount)
        /\ ConsumeNonce(from, nonce) /\ UNCHANGED vesting
    BY <1>3, BoundsType DEF Stake
  <2>2. /\ balances'[from] >= balances[from] - amount - base_fee
        /\ \A u \in Users \ {from} : balances'[u] >= balances[u]
    BY <2>1, <1>0, PayEnds
  <2>3. /\ SlashableBase(from)' = SlashableBase(from) + amount
        /\ \A u \in Users \ {from} : SlashableBase(u)' = SlashableBase(u)
    BY <1>0, <1>3, StakeBase
  <2>4. ASSUME NEW u \in Users
        PROVE  SlashableBase(u)' >= SlashableBase(u) /\ Locked(u)' >= Locked(u)
    <3>1. CASE u = from
      BY <3>1, <2>1, <2>3, <1>0, PartsUnchanged
    <3>2. CASE u # from
      BY <3>2, <2>1, <2>3, <1>0, PartsUnchanged
    <3> QED BY <3>1, <3>2
  <2> QED BY <2>1, <2>2, <2>4, FairTransaction
<1>4. ASSUME NEW from \in Users, NEW amount \in Amounts, NEW nonce \in Nonces,
             Withdraw(from, amount, nonce)
      PROVE  \A u \in Users : FairTo(u)
  <2>1. amount \in Nat /\ base_fee \in Nat /\ balances' = [balances EXCEPT ![from] = @ - base_fee]
        /\ ConsumeNonce(from, nonce) /\ UNCHANGED vesting
    BY <1>0, <1>4, BoundsType DEF Withdraw, TypeOK
  <2>2. /\ balances'[from] = balances[from] - base_fee
        /\ \A u \in Users \ {from} : balances'[u] = balances[u]
    BY <2>1, <1>0 DEF TypeOK
  <2>3. /\ balances'[from] >= balances[from] - amount - base_fee
        /\ \A u \in Users \ {from} : balances'[u] >= balances[u]
    BY <2>1, <2>2, <1>0
  <2>4. \A u \in Users : SlashableBase(u)' = SlashableBase(u)
    BY <1>0, <1>4, WithdrawBase
  <2>5. \A u \in Users : SlashableBase(u)' >= SlashableBase(u) /\ Locked(u)' >= Locked(u)
    BY <2>1, <2>4, <1>0, PartsUnchanged
  <2> QED BY <2>1, <2>3, <2>5, FairTransaction
<1>5. ASSUME NEW from \in Users, NEW to \in Users, NEW amount \in Amounts,
             NEW s \in Schedules, NEW nonce \in Nonces, Vest(from, to, amount, s, nonce)
      PROVE  \A u \in Users : FairTo(u)
  <2>1. amount \in Nat /\ CanPay(from, amount) /\ Pay(from, VESTING_POOL_ACCOUNT, amount)
        /\ ConsumeNonce(from, nonce) /\ UNCHANGED <<stake, unbonding>>
    BY <1>5, BoundsType DEF Vest, staking
  <2>2. /\ balances'[from] >= balances[from] - amount - base_fee
        /\ \A u \in Users \ {from} : balances'[u] >= balances[u]
    BY <2>1, <1>0, PayEnds
  <2>3. \A u \in Users : Locked(u)' >= Locked(u)
    BY <1>5, VestLocked
  <2>4. \A u \in Users : SlashableBase(u)' >= SlashableBase(u) /\ Locked(u)' >= Locked(u)
    BY <2>1, <2>3, <1>0, PartsUnchanged
  <2> QED BY <2>1, <2>2, <2>4, FairTransaction
<1>6. ASSUME Reward PROVE \A u \in Users : FairTo(u)
  <2> SUFFICES ASSUME NEW u \in Users PROVE FairTo(u)
    OBVIOUS
  <2>1. /\ balances' = [balances EXCEPT ![producer] = @ + BlockReward(Height)]
        /\ UNCHANGED <<stake, unbonding, vesting>>
        /\ BlockReward(Height) \in Nat
    BY <1>0, <1>6, HeightType DEF Reward, staking
  <2>2. balances'[u] >= balances[u]
    <3> DEFINE reward == BlockReward(Height)
    <3>1. reward \in Nat /\ balances' = [balances EXCEPT ![producer] = @ + reward]
      BY <2>1
    <3> HIDE DEF reward
    <3>2. CASE u = producer
      BY <3>1, <3>2, <1>0 DEF TypeOK
    <3>3. CASE u # producer
      BY <3>1, <3>3, <1>0 DEF TypeOK
    <3> QED BY <3>2, <3>3
  <2>3. SlashableBase(u)' >= SlashableBase(u) /\ Locked(u)' >= Locked(u)
    BY <2>1, <1>0, PartsUnchanged
  <2> QED BY <2>2, <2>3, FairGain
<1>7. ASSUME NEW v \in Users, NEW index \in OffenceIndices, Slash(v, index)
      PROVE  \A u \in Users : FairTo(u)
  <2>1. FairTo(v)
    BY <1>7 DEF Slash, FairTo
  <2>2. ASSUME NEW u \in Users \ {v} PROVE FairTo(u)
    <3>1. SlashableBase(u)' = SlashableBase(u)
      BY <1>0, <1>7, SlashBase
    <3>2. balances'[u] = balances[u] /\ vesting' = vesting
      BY <1>0, <1>7 DEF Slash, TypeOK
    <3>3. /\ balances'[u] >= balances[u] /\ SlashableBase(u)' >= SlashableBase(u)
          /\ Locked(u)' >= Locked(u)
      BY <3>1, <3>2, <1>0, PartsUnchanged
    <3> QED BY <3>3, FairGain
  <2> QED BY <2>1, <2>2
<1>8. ASSUME EndBlock PROVE \A u \in Users : FairTo(u)
  BY <1>8, EndBlockFair
<1> QED
  BY <1>1, <1>2, <1>3, <1>4, <1>5, <1>6, <1>7, <1>8
  DEF Next, BeginBlock, Issue, Revoke, staking

LEMMA StepKeeps ==
    ASSUME TypeOK, Next, NEW c \in credentials
    PROVE  Kept(c)
<1>1. ASSUME NEW from \in Users, NEW id \in CredentialIds, NEW nonce \in Nonces,
             Revoke(from, id, nonce)
      PROVE  Kept(c)
  BY <1>1, RevokeKeeps
<1>2. ASSUME credentials \subseteq credentials' PROVE Kept(c)
  BY <1>2 DEF Kept
<1> QED
  BY <1>1, <1>2
  DEF Next, BeginBlock, Transfer, Stake, Withdraw, Vest, Reward, Slash, EndBlock, Issue

\* Whatever the interleaving of transactions, slashes and block boundaries, an
\* account gets poorer only by its own transaction, at most by one amount and one
\* fee, or by a slash for its own offence; a credential changes only when its
\* issuer revokes it.
THEOREM OnlyOwnersLose == Spec => OnlyOwnersAct
<1>1. Funds /\ Funds' /\ [Next]_vars => [OwnersOnly]_vars
  BY StepFair, StepKeeps DEF OwnersOnly, Funds
<1> QED BY <1>1, FundsInvariant, PTL DEF Spec, OnlyOwnersAct, OwnersOnly, FairTo, Kept
=============================================================================
