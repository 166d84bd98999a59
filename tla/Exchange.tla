------------------------------ MODULE Exchange ------------------------------
(***************************************************************************)
(* Native tokens and the constant-product pools between HKM and a token    *)
(* (src/src/blockchain/state.rs).  Signatures, slippage bounds and token   *)
(* metadata only refuse transactions and are left out; so is the end of a  *)
(* block, which empties the fee pot (ChainState).                          *)
(***************************************************************************)
EXTENDS Coins

CONSTANTS
    Users,
    AMM_POOL_ACCOUNT,
    Endowment,           \* HKM of every user at the start
    BaseFee,             \* base_fee, here constant
    MINIMUM_LIQUIDITY,
    SWAP_FEE_BPS,
    AMM_FEE_DENOM,
    MAX_U64,
    Amounts,             \* bound: amounts that transactions name
    MaxTokens,           \* bound: tokens created
    MaxNonce             \* bound: transactions of a user

ASSUME ExchangeAssumption ==
    /\ IsFiniteSet(Users)
    /\ AMM_POOL_ACCOUNT \notin Users
    /\ {Endowment, BaseFee, SWAP_FEE_BPS, MAX_U64, MaxTokens, MaxNonce} \subseteq Nat
    /\ MINIMUM_LIQUIDITY \in Nat \ {0}
    /\ AMM_FEE_DENOM \in Nat /\ SWAP_FEE_BPS < AMM_FEE_DENOM
    /\ Amounts \subseteq 1 .. MAX_U64
    /\ Endowment * Cardinality(Users) <= MAX_U64

Accounts == Users \cup {AMM_POOL_ACCOUNT}

\* derive_token_id: a hash of creator and nonce.
TokenIds == Users \X (1 .. MaxNonce)

VARIABLES
    hkm,        \* balances: [Accounts -> Nat]
    fee_pot,
    nonces,     \* [Users -> Nat]
    tokens,     \* total_supply of every token created
    held,       \* token_balances: token -> [Accounts -> Nat]
    pools,      \* token -> reserves and shares
    lp_shares   \* token -> [Users -> Nat]

money == <<hkm, fee_pot, nonces>>
vars == <<money, tokens, held, pools, lp_shares>>

-----------------------------------------------------------------------------

\* `as u64` of a u128: the high half is dropped.
AsU64(n) == n % (MAX_U64 + 1)

\* One step of Newton's iteration for the root of n.
Closer(n, x) == (x + n \div x) \div 2

\* The loop of isqrt_u128 from x on: it stops when a step no longer descends.
Newton(n) ==
    LET from[x \in Nat \ {0}] == IF Closer(n, x) < x THEN from[Closer(n, x)] ELSE x
    IN  from

\* isqrt_u128
Isqrt(n) ==
    IF n < 2 THEN n
    ELSE LET y == (n + 1) \div 2 IN IF y < n THEN Newton(n)[y] ELSE n

\* BTreeMap::insert
With(f, t, v) == [x \in DOMAIN f \cup {t} |-> IF x = t THEN v ELSE f[x]]

\* Mutant of Spend: the fee is not counted when the balance is checked.
Spend_FeeUnchecked(from, to, amount) ==
    /\ nonces[from] < MaxNonce
    /\ amount <= hkm[from]
    /\ nonces' = [nonces EXCEPT ![from] = @ + 1]
    /\ fee_pot' = Least(fee_pot + BaseFee, MAX_U64)
    /\ hkm' = [hkm EXCEPT ![from] = @ - amount - BaseFee, ![to] = @ + amount]

\* from spends `amount` HKM and the fee; to gets the amount.
Spend(from, to, amount) ==
    /\ nonces[from] < MaxNonce
    /\ amount + BaseFee <= MAX_U64
    /\ amount + BaseFee <= hkm[from]
    /\ nonces' = [nonces EXCEPT ![from] = @ + 1]
    /\ fee_pot' = Least(fee_pot + BaseFee, MAX_U64)
    /\ hkm' = [hkm EXCEPT ![from] = @ - amount - BaseFee, ![to] = @ + amount]

\* from pays the fee and receives `amount` HKM out of the pools.
Receive(from, amount) ==
    /\ nonces[from] < MaxNonce
    /\ BaseFee <= hkm[from]
    /\ nonces' = [nonces EXCEPT ![from] = @ + 1]
    /\ fee_pot' = Least(fee_pot + BaseFee, MAX_U64)
    /\ hkm' = [hkm EXCEPT ![from] = @ - BaseFee + amount, ![AMM_POOL_ACCOUNT] = @ - amount]

\* debit_token and try_credit_token
Move(t, from, to, amount) ==
    /\ amount <= held[t][from]
    /\ held' = [held EXCEPT ![t][from] = @ - amount, ![t][to] = @ + amount]

-----------------------------------------------------------------------------
(* Tokens                                                                  *)

TokenCreate(from, amount) ==
    LET t == <<from, nonces[from] + 1>>
    IN  /\ Cardinality(DOMAIN tokens) < MaxTokens
        /\ t \notin DOMAIN tokens
        /\ Spend(from, from, 0)
        /\ tokens' = With(tokens, t, amount)
        /\ held' = With(held, t, [a \in Accounts |-> IF a = from THEN amount ELSE 0])
        /\ UNCHANGED <<pools, lp_shares>>

\* Mutant of Recipients: any name is payable, as if is_valid_address were
\* not asked.
Recipients_Anyone == Accounts

\* is_valid_address: the pool account is no address.
Recipients == Users

TokenTransfer(from, t, to, amount) ==
    /\ to \in Recipients
    /\ Spend(from, from, 0)
    /\ Move(t, from, to, amount)
    /\ UNCHANGED <<tokens, pools, lp_shares>>

TokenBurn(from, t, amount) ==
    /\ amount <= held[t][from]
    /\ Spend(from, from, 0)
    /\ held' = [held EXCEPT ![t][from] = @ - amount]
    /\ tokens' = [tokens EXCEPT ![t] = Minus(@, amount)]
    /\ UNCHANGED <<pools, lp_shares>>

-----------------------------------------------------------------------------
(* Liquidity                                                               *)

\* Mutant of FirstDeposit: the locked shares are minted on top.
FirstDeposit_MinimumOnTop(amount_hkm, amount_token) ==
    [hkm |-> amount_hkm, token |-> amount_token, shares |-> Isqrt(amount_hkm * amount_token)]

\* The first provider sets the price.
FirstDeposit(amount_hkm, amount_token) ==
    [hkm |-> amount_hkm, token |-> amount_token,
     shares |-> Minus(Isqrt(amount_hkm * amount_token), MINIMUM_LIQUIDITY)]

\* Later ones keep the ratio: what the side that binds allows.
FittingAmounts(pool, amount_hkm, amount_token) ==
    LET token_optimal == AsU64((amount_hkm * pool.token) \div pool.hkm)
    IN  IF token_optimal <= amount_token
        THEN [hkm |-> amount_hkm, token |-> token_optimal]
        ELSE [hkm |-> AsU64((amount_token * pool.hkm) \div pool.token), token |-> amount_token]

\* Mutant of SharesFor: counts one side only.
SharesFor_HkmSide(pool, use) == AsU64((use.hkm * pool.shares) \div pool.hkm)

SharesFor(pool, use) ==
    AsU64(Least((use.hkm * pool.shares) \div pool.hkm, (use.token * pool.shares) \div pool.token))

Deposit(t, amount_hkm, amount_token) ==
    IF t \notin DOMAIN pools
    THEN FirstDeposit(amount_hkm, amount_token)
    ELSE LET use == FittingAmounts(pools[t], amount_hkm, amount_token)
         IN  [hkm |-> use.hkm, token |-> use.token, shares |-> SharesFor(pools[t], use)]

\* A new pool locks MINIMUM_LIQUIDITY shares nobody owns.
PoolOrNew(t) ==
    IF t \in DOMAIN pools THEN pools[t] ELSE [hkm |-> 0, token |-> 0, shares |-> MINIMUM_LIQUIDITY]

SharesOrNone(t) == IF t \in DOMAIN lp_shares THEN lp_shares[t] ELSE [u \in Users |-> 0]

AddLiquidity(from, t, amount_hkm, amount_token) ==
    LET use == Deposit(t, amount_hkm, amount_token)
        pool == PoolOrNew(t)
        next == [hkm |-> pool.hkm + use.hkm, token |-> pool.token + use.token,
                 shares |-> pool.shares + use.shares]
    IN  /\ use.hkm > 0 /\ use.token > 0 /\ use.shares > 0
        /\ Spend(from, AMM_POOL_ACCOUNT, use.hkm)
        /\ Move(t, from, AMM_POOL_ACCOUNT, use.token)
        /\ {next.hkm, next.token, next.shares} \subseteq 0 .. MAX_U64
        /\ pools' = With(pools, t, next)
        /\ lp_shares' = With(lp_shares, t, [SharesOrNone(t) EXCEPT ![from] = @ + use.shares])
        /\ UNCHANGED tokens

\* Mutant of Part: rounds in favour of the one who leaves.
Part_RoundsUp(shares, reserve, total) == (shares * reserve + total - 1) \div total

\* The part of a reserve that shares are worth.
Part(shares, reserve, total) == (shares * reserve) \div total

\* Mutant of RemoveLiquidity: the shares of the pool are not reduced.
RemoveLiquidity_KeepsTotal(from, t, shares) ==
    LET pool == pools[t]
        out == [hkm |-> Part(shares, pool.hkm, pool.shares),
                token |-> Part(shares, pool.token, pool.shares)]
    IN  /\ shares <= lp_shares[t][from]
        /\ out.hkm > 0 /\ out.token > 0
        /\ Receive(from, out.hkm)
        /\ Move(t, AMM_POOL_ACCOUNT, from, out.token)
        /\ lp_shares' = [lp_shares EXCEPT ![t][from] = @ - shares]
        /\ pools' = [pools EXCEPT ![t].hkm = @ - out.hkm, ![t].token = @ - out.token]
        /\ UNCHANGED tokens

RemoveLiquidity(from, t, shares) ==
    LET pool == pools[t]
        out == [hkm |-> Part(shares, pool.hkm, pool.shares),
                token |-> Part(shares, pool.token, pool.shares)]
    IN  /\ shares <= lp_shares[t][from]
        /\ out.hkm > 0 /\ out.token > 0
        /\ Receive(from, out.hkm)
        /\ Move(t, AMM_POOL_ACCOUNT, from, out.token)
        /\ lp_shares' = [lp_shares EXCEPT ![t][from] = @ - shares]
        /\ pools' = [pools EXCEPT ![t].hkm = @ - out.hkm, ![t].token = @ - out.token,
                                  ![t].shares = @ - shares]
        /\ UNCHANGED tokens

-----------------------------------------------------------------------------
(* Swaps                                                                   *)

\* The constant-product price after the swap fee.
SwapOutput(amount_in, reserve_in, reserve_out) ==
    LET with_fee == amount_in * (AMM_FEE_DENOM - SWAP_FEE_BPS)
    IN  (with_fee * reserve_out) \div (reserve_in * AMM_FEE_DENOM + with_fee)

MayLeave(amount_out, reserve_out) == amount_out > 0 /\ amount_out < reserve_out

SwapHkm(from, t, amount_in) ==
    LET out == SwapOutput(amount_in, pools[t].hkm, pools[t].token)
    IN  /\ MayLeave(out, pools[t].token)
        /\ Spend(from, AMM_POOL_ACCOUNT, amount_in)
        /\ Move(t, AMM_POOL_ACCOUNT, from, out)
        /\ pools[t].hkm + amount_in <= MAX_U64
        /\ pools' = [pools EXCEPT ![t].hkm = @ + amount_in, ![t].token = @ - out]
        /\ UNCHANGED <<tokens, lp_shares>>

SwapToken(from, t, amount_in) ==
    LET out == SwapOutput(amount_in, pools[t].token, pools[t].hkm)
    IN  /\ MayLeave(out, pools[t].hkm)
        /\ Receive(from, out)
        /\ Move(t, from, AMM_POOL_ACCOUNT, amount_in)
        /\ pools[t].token + amount_in <= MAX_U64
        /\ pools' = [pools EXCEPT ![t].token = @ + amount_in, ![t].hkm = @ - out]
        /\ UNCHANGED <<tokens, lp_shares>>

-----------------------------------------------------------------------------

Init ==
    /\ hkm = [a \in Accounts |-> IF a \in Users THEN Endowment ELSE 0]
    /\ fee_pot = 0
    /\ nonces = [u \in Users |-> 0]
    /\ tokens = [t \in {} |-> 0]
    /\ held = [t \in {} |-> [a \in Accounts |-> 0]]
    /\ pools = [t \in {} |-> [hkm |-> 0, token |-> 0, shares |-> 0]]
    /\ lp_shares = [t \in {} |-> [u \in Users |-> 0]]

Next ==
    \E from \in Users, amount \in Amounts :
        \/ TokenCreate(from, amount)
        \/ \E t \in DOMAIN tokens :
            \/ \E to \in Accounts : TokenTransfer(from, t, to, amount)
            \/ TokenBurn(from, t, amount)
            \/ \E amount_token \in Amounts : AddLiquidity(from, t, amount, amount_token)
        \/ \E t \in DOMAIN pools :
            \/ RemoveLiquidity(from, t, amount)
            \/ SwapHkm(from, t, amount)
            \/ SwapToken(from, t, amount)

Spec == Init /\ [][Next]_vars

-----------------------------------------------------------------------------

\* No balance, reserve or share count leaves the unsigned range the code keeps
\* it in.
TypeOK ==
    /\ hkm \in [Accounts -> 0 .. MAX_U64]
    /\ fee_pot \in 0 .. MAX_U64
    /\ nonces \in [Users -> 0 .. MaxNonce]
    /\ DOMAIN tokens \subseteq TokenIds
    /\ \A t \in DOMAIN tokens : tokens[t] \in 0 .. MAX_U64
    /\ held \in [DOMAIN tokens -> [Accounts -> 0 .. MAX_U64]]
    /\ DOMAIN pools \subseteq DOMAIN tokens
    /\ \A t \in DOMAIN pools :
           pools[t] \in [hkm : 0 .. MAX_U64, token : 0 .. MAX_U64, shares : 1 .. MAX_U64]
    /\ lp_shares \in [DOMAIN pools -> [Users -> 0 .. MAX_U64]]

\* Creating, moving, pooling and swapping a token only moves it, and burning is
\* the only way out: what all accounts hold is the supply recorded for it, and
\* the shares of a pool are those its providers own and the locked minimum.
UnitsConserved ==
    /\ \A t \in DOMAIN tokens : Total(held[t]) = tokens[t]
    /\ \A t \in DOMAIN pools : Total(lp_shares[t]) + MINIMUM_LIQUIDITY = pools[t].shares

\* One account holds the HKM of all pools: it has exactly their reserves, and
\* of every pooled token exactly the reserve of that token's pool.
PoolsBacked ==
    /\ hkm[AMM_POOL_ACCOUNT] = Total([t \in DOMAIN pools |-> pools[t].hkm])
    /\ \A t \in DOMAIN tokens :
           held[t][AMM_POOL_ACCOUNT] = IF t \in DOMAIN pools THEN pools[t].token ELSE 0

\* Shares never stand for more than the reserves: with it the shares of a
\* deposit fit into 64 bits without the cast dropping anything.
SharesUnderRoot ==
    \A t \in DOMAIN pools : pools[t].shares * pools[t].shares <= pools[t].hkm * pools[t].token

\* Whatever rounding does, in trades and on the way in and out, the providers
\* who stay never lose: the product of the reserves per square share only grows.
ShareValueNeverDrops ==
    [][\A t \in DOMAIN pools :
          pools'[t].hkm * pools'[t].token * pools[t].shares * pools[t].shares >=
          pools[t].hkm * pools[t].token * pools'[t].shares * pools'[t].shares]_vars

\* A reserve is never emptied, by many small withdrawals or swaps: every price
\* and every deposit divides by it.
ReservesNeverEmpty == \A t \in DOMAIN pools : pools[t].hkm > 0 /\ pools[t].token > 0
=============================================================================
