----------------------------- MODULE ChainState -----------------------------
(***************************************************************************)
(* The replicated ledger: src/src/blockchain/state.rs, executed the way    *)
(* Blockchain::validate_block_at executes a block that is accepted.        *)
(*                                                                         *)
(* A behaviour is a chain.  BeginBlock opens a block for a validator with  *)
(* stake in the parent state, one action applies one transaction, and      *)
(* EndBlock closes the block once it carries its reward.  A transaction or *)
(* a block the code rejects changes nothing (validate_block_at works on a  *)
(* clone of the parent state), so rejection is an action that is disabled. *)
(*                                                                         *)
(* Abstractions.  Keys, signatures, chain id and address syntax are        *)
(* checked by the code before any state is read and are taken as valid.    *)
(* An address owns one key, so the registered-key checks hold.  Native     *)
(* tokens and AMM pools are in module Exchange.                            *)
(***************************************************************************)
EXTENDS Coins, Fees

CONSTANTS
    Users,                    \* addresses that can hold HKM and send transactions
    Treasury,                 \* the account genesis funds and registers
    NoProducer,               \* "no block is being executed"
    STAKING_POOL_ACCOUNT,
    VESTING_POOL_ACCOUNT,
    Allowlist,                \* validator_allowlist; {} is permissionless staking
    InitialSupply,
    GENESIS_VALIDATOR_STAKE,
    MIN_VALIDATOR_STAKE,
    SLASH_PERCENT,
    UNBONDING_BLOCKS,
    SLASHING_WINDOW_BLOCKS,
    BlockReward(_),           \* emission schedule, see Emission
    MAX_U64,                  \* largest u64
    Amounts,                  \* bound: amounts a transaction may carry
    CredentialIds,            \* bound: credentials that may be issued
    Schedules,                \* bound: <<cliff, duration>> of Vest transactions
    MaxNonce,                 \* bound: transactions per sender
    MaxHeight                 \* bound: height of the chain

Accounts == Users \cup {STAKING_POOL_ACCOUNT, VESTING_POOL_ACCOUNT}

ASSUME AccountsAssumption ==
    /\ IsFiniteSet(Users)
    /\ Treasury \in Users
    /\ NoProducer \notin Users
    /\ STAKING_POOL_ACCOUNT \notin Users
    /\ VESTING_POOL_ACCOUNT \notin Users
    /\ STAKING_POOL_ACCOUNT # VESTING_POOL_ACCOUNT
    /\ Allowlist \subseteq Users

ASSUME AmountsAssumption ==
    /\ InitialSupply \in Nat
    /\ GENESIS_VALIDATOR_STAKE \in Nat
    /\ MIN_VALIDATOR_STAKE \in Nat \ {0}
    /\ SLASH_PERCENT \in 1 .. 99
    /\ MAX_U64 \in Nat
    /\ Amounts \subseteq Nat \ {0}

ASSUME HeightsAssumption ==
    /\ UNBONDING_BLOCKS \in Nat \ {0}
    /\ SLASHING_WINDOW_BLOCKS \in Nat
    /\ SLASHING_WINDOW_BLOCKS <= UNBONDING_BLOCKS
    /\ MaxNonce \in Nat
    /\ MaxHeight \in Nat
    /\ \A s \in Schedules : s \in Nat \X (Nat \ {0}) /\ s[1] <= s[2]
    /\ \A h \in 0 .. MaxHeight : BlockReward(h) \in Nat

\* Heights at which a withdrawal made on this chain can mature.
ReleaseHeights == 1 .. MaxHeight + UNBONDING_BLOCKS

\* Indices an equivocation proof may name: any, whether reached yet or not.
OffenceIndices == 0 .. MaxHeight + 1

\* A Vest transaction is identified by its sender and nonce.
VestIds == Users \X (1 .. MaxNonce)

\* VestingEntry of the source; total = 0 marks an unused place.
VestingEntry ==
    {e \in [total : Nat, released : Nat, start : Nat, cliff : Nat, end : Nat] :
        e.start <= e.cliff /\ e.cliff <= e.end}
NoVesting == [total |-> 0, released |-> 0, start |-> 0, cliff |-> 0, end |-> 0]

VARIABLES
    height,            \* height of the last complete block
    producer,          \* validator of the block being executed, or NoProducer
    rewarded,          \* the block being executed already holds its reward
    balances,          \* [Accounts -> Nat]
    nonces,            \* [Users -> Nat]
    stakers,           \* registered validators
    stake,             \* [Users -> Nat], bonded stake, 0 when not registered
    unbonding,         \* [Users -> [ReleaseHeights -> Nat]]
    vesting,           \* [Users -> [VestIds -> VestingEntry]], by recipient
    slashed_offenses,  \* {<<validator, index>>} already punished
    credentials,       \* records of the issued credentials
    base_fee, fee_pot, total_supply, burned,
    fee_txs,           \* observer: fee-paying transactions of this block
    offence            \* observer: one equivocation and the stake behind it

chain == <<height, producer, rewarded>>
staking == <<stakers, stake, unbonding>>
supply == <<total_supply, burned>>
vars == <<chain, balances, nonces, staking, vesting, slashed_offenses, credentials,
          base_fee, fee_pot, supply, fee_txs, offence>>

-----------------------------------------------------------------------------
(* Helpers of ChainState                                                   *)

\* Height of the block being executed, or of the next one.
Height == height + 1

Executing == producer # NoProducer

\* unbonding_total
UnbondingTotal(v) == Total(unbonding[v])

\* What a slash of v can reach: bonded and unbonding stake.
SlashableBase(v) == stake[v] + UnbondingTotal(v)

\* Mutant of VestedAt: the cliff does not gate the release.
VestedAt_NoCliff(e, h) ==
    IF h >= e.end THEN e.total ELSE (e.total * (h - e.start)) \div (e.end - e.start)

\* VestingEntry::vested_at
VestedAt(e, h) ==
    IF h < e.cliff THEN 0
    ELSE IF h >= e.end THEN e.total
    ELSE (e.total * (h - e.start)) \div (e.end - e.start)

\* consume_nonce: n is the nonce the transaction carries.
ConsumeNonce(from, n) ==
    /\ n = nonces[from] + 1
    /\ nonces' = [nonces EXCEPT ![from] = n]

\* Mutant of CanPay: amount + fee wraps instead of being refused.
CanPay_Wraps(from, amount) ==
    balances[from] >= (amount + base_fee) % (MAX_U64 + 1)

\* total_debit and debit: the sender can pay the amount and the fee.
CanPay(from, amount) ==
    /\ amount + base_fee <= MAX_U64
    /\ balances[from] >= amount + base_fee

\* Mutant of Pay: the fee is collected but never debited.
Pay_FeeNotDebited(from, to, amount) ==
    LET debited == [balances EXCEPT ![from] = @ - amount]
    IN  balances' = [debited EXCEPT ![to] = @ + amount]

\* debit of amount + fee from `from`, try_credit of amount to `to`.
Pay(from, to, amount) ==
    LET debited == [balances EXCEPT ![from] = @ - (amount + base_fee)]
    IN  /\ debited[to] + amount <= MAX_U64
        /\ balances' = [debited EXCEPT ![to] = @ + amount]

\* collect_fee, and the observer's count of fees taken.  The saturating
\* additions of the source (fee_pot, burned, total_supply, credit) are plain
\* here: SupplyConserved and SupplyOnSchedule keep every sum below the supply.
CollectFee ==
    /\ fee_pot' = fee_pot + base_fee
    /\ fee_txs' = fee_txs + 1

-----------------------------------------------------------------------------
(* Genesis and the block boundaries                                        *)

Init ==
    LET bonded == Least(GENESIS_VALIDATOR_STAKE, InitialSupply)
    IN  /\ height = 0 /\ producer = NoProducer /\ rewarded = FALSE
        /\ balances = [a \in Accounts |->
                          CASE a = Treasury -> InitialSupply - bonded
                            [] a = STAKING_POOL_ACCOUNT -> bonded
                            [] OTHER -> 0]
        /\ nonces = [u \in Users |-> 0]
        /\ stakers = {Treasury}
        /\ stake = [u \in Users |-> IF u = Treasury THEN bonded ELSE 0]
        /\ unbonding = [u \in Users |-> [r \in ReleaseHeights |-> 0]]
        /\ vesting = [u \in Users |-> [id \in VestIds |-> NoVesting]]
        /\ slashed_offenses = {}
        /\ credentials = {}
        /\ base_fee = TX_FEE /\ fee_pot = 0
        /\ total_supply = InitialSupply /\ burned = 0
        /\ fee_txs = 0
        /\ offence = {}

\* A block for a member of the parent's validator_set (stake > 0).  The
\* observer may choose to remember that v signs a second block at this index,
\* with the stake that made v eligible; it follows at most one offence.
BeginBlock(v) ==
    /\ ~Executing /\ height < MaxHeight
    /\ v \in stakers /\ stake[v] > 0
    /\ producer' = v /\ rewarded' = FALSE
    /\ \/ UNCHANGED offence
       \/ /\ offence = {}
          /\ offence' = {[validator |-> v, index |-> Height, exposed |-> stake[v]]}
    /\ UNCHANGED <<height, balances, nonces, staking, vesting,
                   slashed_offenses, credentials, base_fee, fee_pot, supply, fee_txs>>

\* What end_block pays out of the two pools at the height being closed.
Matured(v) ==
    Total([r \in ReleaseHeights |-> IF r <= Height THEN unbonding[v][r] ELSE 0])
NewlyVested(e) == Minus(VestedAt(e, Height), e.released)
VestedFor(u) == Total([id \in VestIds |-> NewlyVested(vesting[u][id])])

\* An entry after end_block: completed entries are dropped.
AfterRelease(e) ==
    LET paid == e.released + NewlyVested(e)
    IN  IF paid < e.total THEN [e EXCEPT !.released = paid] ELSE NoVesting

\* debit of a pool whose error end_block ignores.
DebitOrSkip(balance, amount) == IF balance >= amount THEN balance - amount ELSE balance

\* Mutant of Payout: the producer collects what others withdrew.
Payout_ToProducer(a) ==
    VestedFor(a) + IF a = producer THEN fee_pot + Total([u \in Users |-> Matured(u)]) ELSE 0

\* What end_block credits to an account: its own releases, and to the producer
\* of the block the fees.
Payout(a) ==
    Matured(a) + VestedFor(a) + IF a = producer THEN fee_pot ELSE 0

\* Mutant of Exited: a validator with an empty bond leaves although part of its
\* stake is still unbonding.
Exited_TooSoon(v) == UnbondingTotal(v) > 0 /\ stake[v] = 0 /\ Matured(v) > 0

\* Validators end_block removes: nothing bonded, the last unbonding matured.
Exited(v) ==
    UnbondingTotal(v) > 0 /\ stake[v] = 0 /\ UnbondingTotal(v) = Matured(v)

\* Mutant of FeePayers: divides by the floor, not by what was charged.
FeePayers_ByFloor == fee_pot \div TX_FEE

\* How many transactions paid, as end_block infers it.
FeePayers == fee_pot \div base_fee

\* end_block: matured unbonding and newly vested amounts leave the pools, exited
\* validators leave the set, the base fee moves, the producer gets the fees.  The
\* code debits a pool account by account, which comes to one debit of a pool that
\* holds what it owes (PoolsSolvent).
EndBlock ==
    /\ Executing /\ rewarded
    /\ unbonding' = [u \in Users |-> [r \in ReleaseHeights |->
                        IF r <= Height THEN 0 ELSE unbonding[u][r]]]
    /\ stakers' = {v \in stakers : ~Exited(v)}
    /\ vesting' = [u \in Users |-> [id \in VestIds |-> AfterRelease(vesting[u][id])]]
    /\ balances' = [a \in Accounts |->
          CASE a = STAKING_POOL_ACCOUNT ->
                 DebitOrSkip(balances[a], Total([u \in Users |-> Matured(u)]))
            [] a = VESTING_POOL_ACCOUNT ->
                 DebitOrSkip(balances[a], Total([u \in Users |-> VestedFor(u)]))
            [] OTHER -> balances[a] + Payout(a)]
    /\ base_fee' = next_base_fee(base_fee, FeePayers)
    /\ fee_pot' = 0
    /\ height' = Height /\ producer' = NoProducer /\ rewarded' = FALSE
    /\ fee_txs' = 0
    /\ UNCHANGED <<nonces, stake, slashed_offenses, credentials, supply, offence>>

-----------------------------------------------------------------------------
(* Transactions (apply_verified)                                           *)

Transfer(from, to, amount, nonce) ==
    /\ Executing
    /\ ConsumeNonce(from, nonce)
    /\ CanPay(from, amount)
    /\ Pay(from, to, amount)
    /\ CollectFee
    /\ UNCHANGED <<chain, staking, vesting, slashed_offenses, credentials,
                   base_fee, supply, offence>>

MayRegister(from) == Allowlist = {} \/ from \in stakers \/ from \in Allowlist

Stake(from, amount, nonce) ==
    /\ Executing
    /\ MayRegister(from)
    /\ stake[from] + amount >= MIN_VALIDATOR_STAKE
    /\ ConsumeNonce(from, nonce)
    /\ CanPay(from, amount)
    /\ Pay(from, STAKING_POOL_ACCOUNT, amount)
    /\ CollectFee
    /\ stakers' = stakers \cup {from}
    /\ stake' = [stake EXCEPT ![from] = @ + amount]
    /\ UNCHANGED <<chain, unbonding, vesting, slashed_offenses, credentials,
                   base_fee, supply, offence>>

\* A withdrawal exits fully or leaves the floor bonded.
LeavesFloor(remaining) == remaining = 0 \/ remaining >= MIN_VALIDATOR_STAKE

\* Mutant of ReleaseHeight: one block too early.
ReleaseHeight_Early == Height + UNBONDING_BLOCKS - 1

\* Height at which a withdrawal in this block is released.
ReleaseHeight == Height + UNBONDING_BLOCKS

Withdraw(from, amount, nonce) ==
    /\ Executing
    /\ from \in stakers
    /\ stake[from] >= amount
    /\ LeavesFloor(stake[from] - amount)
    /\ ConsumeNonce(from, nonce)
    /\ CanPay(from, 0)
    /\ balances' = [balances EXCEPT ![from] = @ - base_fee]
    /\ CollectFee
    /\ stake' = [stake EXCEPT ![from] = @ - amount]
    /\ unbonding' = [unbonding EXCEPT ![from][ReleaseHeight] = @ + amount]
    /\ UNCHANGED <<chain, stakers, vesting, slashed_offenses, credentials,
                   base_fee, supply, offence>>

Vest(from, to, amount, schedule, nonce) ==
    /\ Executing
    /\ ConsumeNonce(from, nonce)
    /\ CanPay(from, amount)
    /\ Pay(from, VESTING_POOL_ACCOUNT, amount)
    /\ CollectFee
    /\ vesting' = [vesting EXCEPT ![to][<<from, nonce>>] =
                      [total |-> amount, released |-> 0, start |-> Height,
                       cliff |-> Height + schedule[1], end |-> Height + schedule[2]]]
    /\ UNCHANGED <<chain, staking, slashed_offenses, credentials,
                   base_fee, supply, offence>>

\* Mutant of Reward: the block may carry a second one.
Reward_Twice ==
    /\ Executing
    /\ rewarded' = TRUE
    /\ balances' = [balances EXCEPT ![producer] = @ + BlockReward(Height)]
    /\ total_supply' = total_supply + BlockReward(Height)
    /\ UNCHANGED <<height, producer, nonces, staking, vesting, slashed_offenses,
                   credentials, base_fee, fee_pot, burned, fee_txs, offence>>

\* The one reward of the block: its amount is the schedule's, its recipient the
\* block's validator (verify_for_block and validate_block_at).
Reward ==
    /\ Executing /\ ~rewarded
    /\ rewarded' = TRUE
    /\ balances' = [balances EXCEPT ![producer] = @ + BlockReward(Height)]
    /\ total_supply' = total_supply + BlockReward(Height)
    /\ UNCHANGED <<height, producer, nonces, staking, vesting, slashed_offenses,
                   credentials, base_fee, fee_pot, burned, fee_txs, offence>>

\* Mutant of DrainOldest: every entry loses the full amount.
DrainOldest_EachEntry(entries, amount) ==
    [r \in ReleaseHeights |-> Minus(entries[r], amount)]

\* Deduct `amount` from unbonding entries, oldest release first.
DrainOldest(entries, amount) ==
    [r \in ReleaseHeights |->
        LET older == Total([q \in ReleaseHeights |-> IF q < r THEN entries[q] ELSE 0])
        IN  Minus(entries[r], Minus(amount, older))]

\* saturating_mul, which a supply like the default one never brings to its limit.
SlashAmount(v) == (SlashableBase(v) * SLASH_PERCENT) \div 100

WithinSlashingWindow(index) == index + SLASHING_WINDOW_BLOCKS >= Height

\* Punish v for signing two blocks at `index`: bonded stake first, then the
\* oldest unbonding.  The observer writes off what the slash took.
Slash(v, index) ==
    LET slashed == SlashAmount(v)
        bonded == Least(slashed, stake[v])
    IN  /\ Executing
        /\ WithinSlashingWindow(index)
        /\ v \in stakers
        /\ <<v, index>> \notin slashed_offenses
        /\ slashed > 0
        /\ balances[STAKING_POOL_ACCOUNT] >= slashed
        /\ balances' = [balances EXCEPT ![STAKING_POOL_ACCOUNT] = @ - slashed]
        /\ burned' = burned + slashed
        /\ total_supply' = Minus(total_supply, slashed)
        /\ stake' = [stake EXCEPT ![v] = @ - bonded]
        /\ unbonding' = [unbonding EXCEPT ![v] = DrainOldest(@, slashed - bonded)]
        /\ slashed_offenses' = slashed_offenses \cup {<<v, index>>}
        /\ offence' = {[o EXCEPT !.exposed = IF o.validator = v THEN Minus(@, slashed) ELSE @]
                          : o \in offence}
        /\ UNCHANGED <<chain, nonces, stakers, vesting, credentials, base_fee, fee_pot, fee_txs>>

\* Credentials are free: a nonce is all they cost.  (A Certificate transaction
\* without an action changes nothing.)
Issue(from, id, nonce) ==
    /\ Executing
    /\ ConsumeNonce(from, nonce)
    /\ \A c \in credentials : c.id # id
    /\ credentials' = credentials \cup {[id |-> id, issuer |-> from, revoked |-> FALSE]}
    /\ UNCHANGED <<chain, balances, staking, vesting, slashed_offenses, base_fee, fee_pot,
                   supply, fee_txs, offence>>

\* Mutant of Revoke: anybody revokes.
Revoke_Anyone(from, id, nonce) ==
    /\ Executing
    /\ ConsumeNonce(from, nonce)
    /\ \E c \in credentials :
          /\ c.id = id
          /\ credentials' = (credentials \ {c}) \cup {[c EXCEPT !.revoked = TRUE]}
    /\ UNCHANGED <<chain, balances, staking, vesting, slashed_offenses, base_fee, fee_pot,
                   supply, fee_txs, offence>>

Revoke(from, id, nonce) ==
    /\ Executing
    /\ ConsumeNonce(from, nonce)
    /\ \E c \in credentials :
          /\ c.id = id /\ c.issuer = from
          /\ credentials' = (credentials \ {c}) \cup {[c EXCEPT !.revoked = TRUE]}
    /\ UNCHANGED <<chain, balances, staking, vesting, slashed_offenses, base_fee, fee_pot,
                   supply, fee_txs, offence>>

Nonces == 1 .. MaxNonce

Next ==
    \/ \E v \in Users : BeginBlock(v)
    \/ \E from, to \in Users, amount \in Amounts, nonce \in Nonces :
          Transfer(from, to, amount, nonce)
    \/ \E from \in Users, amount \in Amounts, nonce \in Nonces :
          \/ Stake(from, amount, nonce)
          \/ Withdraw(from, amount, nonce)
    \/ \E from, to \in Users, amount \in Amounts, s \in Schedules, nonce \in Nonces :
          Vest(from, to, amount, s, nonce)
    \/ \E from \in Users, id \in CredentialIds, nonce \in Nonces :
          Issue(from, id, nonce) \/ Revoke(from, id, nonce)
    \/ Reward
    \/ \E v \in Users, index \in OffenceIndices : Slash(v, index)
    \/ EndBlock

Spec == Init /\ [][Next]_vars

-----------------------------------------------------------------------------
(* Properties                                                              *)

\* Type correctness.  In particular no balance, stake or pot ever goes below
\* zero, which u64 arithmetic in state.rs could not represent.
TypeOK ==
    /\ height \in 0 .. MaxHeight
    /\ producer \in Users \cup {NoProducer}
    /\ Executing => height < MaxHeight
    /\ rewarded \in BOOLEAN
    /\ balances \in [Accounts -> Nat]
    /\ nonces \in [Users -> Nat]
    /\ stakers \subseteq Users
    /\ stake \in [Users -> Nat]
    /\ unbonding \in [Users -> [ReleaseHeights -> Nat]]
    /\ vesting \in [Users -> [VestIds -> VestingEntry]]
    /\ slashed_offenses \subseteq Users \X OffenceIndices
    /\ credentials \subseteq [id : CredentialIds, issuer : Users, revoked : BOOLEAN]
    /\ base_fee \in Nat \ {0}
    /\ fee_pot \in Nat
    /\ total_supply \in Nat
    /\ burned \in Nat
    /\ fee_txs \in Nat
    /\ offence \subseteq [validator : Users, index : Nat, exposed : Nat]

\* Every unit of the supply is in an account or in the fee pot, in the middle
\* of a block too: no transaction and no end_block creates or loses HKM.
SupplyConserved == Total(balances) + fee_pot = total_supply

\* The staking pool holds exactly what is bonded or unbonding, so every exit can
\* be paid and the ignored debit error of end_block never happens.
StakingPoolSolvent ==
    balances[STAKING_POOL_ACCOUNT] =
        Total(stake) + Total([v \in Users |-> UnbondingTotal(v)])

\* Not yet released part of the entries vesting towards u.
Locked(u) == Total([id \in VestIds |-> vesting[u][id].total - vesting[u][id].released])

\* The vesting pool holds exactly what the open entries still have to release.
VestingPoolSolvent ==
    balances[VESTING_POOL_ACCOUNT] = Total([u \in Users |-> Locked(u)])

\* No obligation of the ledger is ever uncovered: what end_block releases, the
\* pools can pay, whatever was withdrawn, slashed and vested before.
PoolsSolvent == StakingPoolSolvent /\ VestingPoolSolvent

\* Rewards scheduled up to height h.
Emitted(h) == Total([i \in 1 .. h |-> BlockReward(i)])

\* The supply is genesis plus the emission schedule minus what slashing burned:
\* the single-reward rule and the burn accounting leave no other way to mint.
SupplyOnSchedule ==
    total_supply + burned =
        InitialSupply + Emitted(height) + IF rewarded THEN BlockReward(Height) ELSE 0

\* state.rs:119-121, "misbehaving stake can never exit before a slash": while a
\* proof of an offence is still accepted, the offender is registered and what
\* is bonded or unbonding covers the stake that made it eligible, less what
\* slashing took since.  Withdrawals, releases, re-staking cannot lower it.
OffenceStaysPunishable ==
    \A o \in offence :
        WithinSlashingWindow(o.index) /\ o.exposed > 0 =>
            /\ o.validator \in stakers
            /\ SlashableBase(o.validator) >= o.exposed

\* end_block infers the number of fee-paying transactions from the pot; the
\* inference is exact, so the congestion signal is the real one.
FeeCountExact == FeePayers = fee_txs /\ fee_pot % base_fee = 0

\* The ledger keeps the promise of the fee market: whatever else a block does,
\* every paid fee counts as one and the base fee moves only when a block closes,
\* by how many paid; and rounding never leaves the fee stuck.
Market == INSTANCE FeeMarket WITH paying <- fee_txs
ImplementsFeeMarket == Market!Spec /\ Market!FeeFollowsDemand

\* Between blocks no matured unbonding is left, and the registered validators
\* are exactly those with bonded or unbonding stake: no empty registration that
\* never goes away, no unbonding stake without a validator a slash could name.
ExitsSettled ==
    ~Executing =>
        /\ \A v \in Users, r \in ReleaseHeights : r <= height => unbonding[v][r] = 0
        /\ \A v \in Users : v \in stakers <=> SlashableBase(v) > 0

\* Between blocks every vesting entry has released what its schedule grants at
\* this height, nothing before the cliff, and is gone once it is paid in full.
VestingOnSchedule ==
    ~Executing =>
        \A u \in Users, id \in VestIds :
            LET e == vesting[u][id]
            IN  e.total > 0 =>
                    /\ height < e.end
                    /\ height < e.cliff => e.released = 0
                    /\ height >= e.cliff =>
                          /\ e.released * (e.end - e.start) <= e.total * (height - e.start)
                          /\ e.total * (height - e.start) < (e.released + 1) * (e.end - e.start)

\* All HKM that belongs to u, liquid or locked.
Wealth(u) == balances[u] + SlashableBase(u) + Locked(u)

\* Nobody loses HKM to a step of somebody else: only a transaction of the owner
\* (its nonce moves) or a slash of the owner lowers what the owner has, and the
\* owner's own transaction by no more than one amount and one fee.  Credentials
\* stay what they were issued as, until their issuer revokes them for good.
OnlyOwnersAct ==
    [][/\ \A u \in Users :
              \/ Wealth(u)' >= Wealth(u)
              \/ \E i \in OffenceIndices : <<u, i>> \in slashed_offenses' \ slashed_offenses
              \/ /\ nonces'[u] = nonces[u] + 1
                 /\ \E amount \in Amounts : Wealth(u)' >= Wealth(u) - amount - base_fee
       /\ \A c \in credentials :
              \/ c \in credentials'
              \/ /\ nonces'[c.issuer] = nonces[c.issuer] + 1
                 /\ [c EXCEPT !.revoked = TRUE] \in credentials']_vars
=============================================================================
