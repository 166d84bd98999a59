# A formal model of HikmaLayer Core

TLA+ modules that model the HikmaLayer node (Rust, `src/src/`), TLC
configurations that check them on small instances, and TLAPS proofs, for every
value of the parameters, of the main laws of the ledger, the fee market, the
pools, the mempool, the locks, fork choice, leader rotation, checkpoints, the
peer lists and the peer gate: of every safety property the passing runs check.
Line references are to the repository. Every definition is translated from the
source; comments name what it stands for, and `PROJECT.json` maps it to lines.

## 1. The system

A node is one process: an axum HTTP server, a set of mutexes around the node's
state (`AppState`, `api/routes.rs:75`), a background syncer (`p2p/sync.rs`), and
a replicated state machine (`blockchain/`). Nodes talk HTTP. Blocks are sealed
by stake-weighted leaders, carry a small proof of work, and are executed by
every node; a fork is resolved by height, then work; blocks buried deeper than
`finality_depth` are final locally.

| Component | State | Operations | What makes it correct | Module |
|---|---|---|---|---|
| Ledger (`blockchain/state.rs`) | balances, nonces, stakers, unbonding, vesting, credentials, fee pot, offences, supply | `apply_verified` per transaction, `end_block` | supply conserved; pools solvent; stake slashable as long as the offence is reportable; schedules exact; only owners spend | ChainState |
| Fee market (`next_base_fee`) | base fee | one step per block | bounded, follows the true demand | FeeMarket, Fees |
| Tokens and pools (`state.rs`) | token supplies and holdings, reserves, LP shares | create, transfer, burn, add, remove, swap | rounding never takes from remaining providers; reserves backed and never empty | Exchange |
| Mempool and planning (`routes.rs`) | `pending_transactions` | queue, gossip in, plan, finish, prune | nothing lost, nothing twice, planned blocks execute | Mempool |
| Handlers (`routes.rs`, `sync.rs`) | the mutexes | some 60 routes, sync tick | no deadlock, every request ends | NodeLocks |
| Fork choice and finality (`chain.rs`, `routes.rs`) | blocks, `finalized_height` | commit, `try_adopt_chain`, `apply_finality`, download | final blocks stay, tips advance, no double signing | ForkChoice |
| Leader rotation (`chain.rs`, `pos.rs`, `vrf.rs`) | beacon, parent timestamp | `open_rounds`, `eligible_slot_for`, checks of `validate_block_at` | a planned slot stays valid, nobody is early, blocks keep coming | LeaderRotation |
| Retarget, checkpoints (`chain.rs`) | difficulty, beacon, `base_height` | `retarget`, `export_bundle`, `from_checkpoint`, `rebuild_state` | pruned and full nodes derive the same, and no pruned node shows | Checkpoints, FullNodes |
| Discovery and catching up (`sync.rs`, `service.rs`) | peer list, tick | announce, learn, poll, download | a node that is behind ends on the tip | PeerSync |
| Peer gate (`protocol.rs`, `peerbook.rs`, `routes.rs`) | replay cache, reputation | envelope checks, verdict, ban | replays stay out, honest peers stay welcome, bans are earned and end | PeerGate |
| Persistence, start-up (`persistence.rs`, `main.rs`) | snapshot on disk | `save_state`, load, replay | a restart continues from a state the node had | ForkChoice, PeerSync, Checkpoints |
| Governance (`governance.rs`) | finality depth, slash percent | `update_governance` | finality does not regress | ForkChoice |
| Authentication (`auth/`), certificates (`contract/`) | challenges, tokens, certificates | issue, verify, expire | outside consensus | section 8 |
| Signatures, VRF, post-quantum keys (`consensus/`) | none | sign, verify, derive | assumed correct | section 8 |

Interaction. Handlers and the syncer share the chain, the pool, the peer list
and the governance settings through mutexes, mostly in the order chain,
contracts, pool, peers, governance, evidence. They release them between two
steps: between planning a block and finishing it (proof of work runs without
locks), between committing a block and pruning the pool, between fetching a
peer's chain and comparing it, between any change and its snapshot. Between
nodes, messages may be late, repeated, reordered or lost; each node loads its
own snapshot after a crash.

Hard parts: the lock order of some sixty handlers; the miner racing clients and
peers for the pool and the tip; executing a plan twice (once to plan, once to
validate) with one result; integer rounding in fees, vesting, slashing and
pools; pools that are debited with errors ignored; difficulty and beacon
recomputed from whatever blocks a node happens to hold; rounds that open by
clocks that differ; finality recomputed from a setting an operator may change;
restarts from an older snapshot. `PROJECT.json` lists each hazard at its line,
with the properties that cover it or the reason none does.

## 2. Modules

```
ledger     Coins <- ChainState -> Fees, FeeMarket      FeeMarket -> Fees
           Coins <- Exchange
node       Fees, SeqFolds <- Mempool      NodeLocks      PeerGate
network    ForkChoice      LeaderRotation      SeqFolds <- PeerSync
           SeqFolds <- Checkpoints -> FullNodes
instances  MC<module>.tla with MC<module>.cfg for each of these but Coins, Fees,
           FeeMarket, SeqFolds and FullNodes, which come with the others
proofs     DataTheorems (sums, lists, loops) <- ChainStateProofs,
           ExchangeProofs, NodeProofs, PeerProofs, CheckpointsProofs
           NodeProofs -> NodeLocks, Mempool      PeerProofs -> PeerGate, PeerSync
           ForkChoiceProofs      RotationProofs
```

* **Coins**: amounts as sets of coins, so that a sum is a cardinality;
  `Least`, `Minus` (saturating subtraction).
* **SeqFolds**: `Folded`, a loop that carries a state through a list. Its body is
  a function and not an operator, so that one set of lemmas serves every loop.
* **Fees**: `next_base_fee` with its floor, ceiling, step and rounding.
* **ChainState**: the ledger. A block is `BeginBlock`, any transactions and
  `EndBlock`; `Transfer`, `Stake`, `Withdraw`, `Vest`, `Issue`, `Revoke`,
  `Reward` and `Slash` are the arms of `apply_verified`. A transaction that
  fails is no step, since a block with one is refused as a whole. `offence` and
  `fee_txs` only observe: what each offender could still be slashed for, and
  how many transactions of the block paid.
* **FeeMarket**: the abstract fee market, `Pay` and `Close`, which knows how
  many transactions paid. `end_block` does not: it divides the pot by the fee.
  `Market` in ChainState is the refinement mapping, and `ImplementsFeeMarket`
  says that every step of the ledger is a step of the market or a stutter, and
  that the fee it gets follows demand. Both modules take the step from Fees; the
  second half is what says that its rounding is right.
* **Exchange**: tokens and liquidity pools with floor divisions, Newton's
  square root (`Newton`, the loop of `isqrt_u128` as a recursive function) and
  the casts to `u64` (`AsU64`). `With` is `BTreeMap::insert`.
* **Mempool**: one node's pool between clients (`Submit`, `IssueCertificate`),
  peers (`ReceiveTransaction` then `Admit`; `ReceiveBlock` then `Prune`) and the
  miner (`Plan` then `FinishMining`). An action is what a handler does between
  two releases of its locks. `ApplyVerified` keeps the effect of a failing
  transfer on the nonce, as the code does when it is not run on a copy. The pool
  tells transactions apart by their ids, which no signature covers (`Queued`,
  `Named`): two different ones may have the same. `Unmistaken` is a transaction
  with an id of its own, `Sure` what senders with such transactions only send.
* **NodeLocks**: one operator per handler or background task that takes more
  than one lock, in the order of the source (`Script` collects them). A lock is
  a FIFO queue whose head owns it, which is what tokio's mutex is. `Inverted`
  names the two handlers that take the pool before the chain. This module and
  PeerSync call their behaviour `LocksSpec` and `SyncSpec`, because a proof
  module reasons about each beside another component.
* **ForkChoice**: several nodes; a chain is a sequence of blocks, the hash of a
  block its whole prefix. Production, delivery, download, fetch and adoption,
  finality, governance, snapshot, crash and restart. `settled` observes the
  longest prefix a node has reported final since it started, `tuned` the nodes
  whose operator changed the depth since then: `FinalizedStays` is about the
  others, `FinalizedIrreversible` about all, and fails.
* **LeaderRotation**: whose turn it is. Time is `Tick`; no timestamp is kept but
  the true `age` of each sealed tip, so that clocks are offsets (`Skew`) and the
  state space is finite. `Plan` takes the slot by the producer's clock, `Seal`
  stamps the block up to `MaxWork` ticks before it ends and validates it,
  `Receive` and `Adopt` are the two ways it reaches other nodes. The draw of
  leaders is an arbitrary choice among `Draws`, made when the block below is
  sealed, because its VRF output seeds the hash.
* **Checkpoints**: what a node recomputes from blocks. `Commit` and `Rebuild`
  are `commit_block` and `rebuild_state`, `CheckpointAt` and `FromBundle` the
  two ends of a bundle; `Seal`, `Receive`, `Adopt` and `Join` run between nodes
  with the full chain and nodes without.
* **FullNodes**: the abstract network Checkpoints implements, in which everybody
  holds the whole chain: `Seal`, `Receive`, `Adopt`, `Join` of lists of gaps, with
  no difficulty, beacon or checkpoint to get wrong. `Tips` in Checkpoints maps a
  node to the hash of its tip, which stands for all that leads up to it.
* **PeerSync**: the background tick as single steps (`StartTick`, `Ask`,
  `Merge`, `Poll`, `Choose`, `Fetch`, `Apply`, `Save`), each request with its own
  chance to be lost, among steps of all other nodes, `Restart` and `Produce`.
  What a step commits is on disk only after a later one: `Save` of the same tick,
  or `Persist` of any handler. A crash in between loses it.
* **PeerGate**: `receive_protocol_message`. `Refuse`, `Replay` and `Admit` are
  the ends of its checks, `Judge` the verdict on the payload after the locks
  were released in between; `RecordGood`, `RecordBad` and `Insert` are
  `PeerBook` and `SeenMessageCache`. `struck` and `since` only observe.

How they fit together. The network modules take from each other what the next
one checks: ForkChoice lets any block be sealed, LeaderRotation says by whom and
when, Checkpoints with what difficulty and beacon, ChainState and Mempool what
executing it does. NodeLocks justifies that Mempool, ForkChoice and PeerSync
treat what happens under one lock as one step.

## 3. Runs

Passing runs check exhaustively, within the bounds named in the modules.

| Run | Question | Bounds, and why they are enough |
|---|---|---|
| `ledger` | Are supply, pools, schedules, exits and the slashing window exact, does nobody lose HKM or a credential to others, and does the block's fee follow the abstract market? | 2 accounts, 3 blocks, 2 nonces each, `u64` up to 24. Withdrawal, maturity and slash of one validator fit in three blocks with windows of one; the amount 24 reaches the overflow check; 45 per cent of a stake of 4 or 8 rounds; one vesting schedule has no cliff and pays twice, the other has its cliff before its end and rounds; one credential identifier, so that it is issued, revoked and fought over. |
| `exchange` | Do rounding and order of trades ever take from providers, and does the account all pools share back each of them? | 2 users with 3 transactions each, 2 tokens, amounts 2, 3, 7, the real fee of 30/10000; values are small so that every division rounds. Also checks `Isqrt` against the floor of the root up to 400. |
| `mempool` | Do client, two peer handlers and the miner keep the pool consistent, and is every queued transaction settled? | 3 accounts, 5 transfers that compete for a nonce and for money, two of them of different senders under one id, 1 anchor, pool of 2 (gossip and the anchor go past it), blocks of 2, empty or single blocks of peers. Two handlers are needed for the race between lookup and push. |
| `node_locks` | Does a group of requests ever wait for itself, does each end? | any 2 requests of the kinds that take chain before pool. Two tasks show every pair of locks taken in opposite orders; section 5 proves it for any number. |
| `fork_choice` | Do final blocks stay, do tips advance, does nobody seal a height twice, is the finalized height inside the chain? | 2 nodes, height 3, one crash or one change of the finality depth from 1 to 2, blocks of work 1 or 3: a fork of two blocks below and beside a final one, short forks heavier than long ones. Any number of jobs per miner; the snapshot may have any age. |
| `rotation` | Does a planned slot stay valid, does nobody come early, do blocks keep coming? | 2 producers with clocks two ticks apart (more than the tolerance of one), a validator that is down, timeouts of two ticks, two fallback rounds, work of up to one tick, 2 blocks. The draws contain every order that matters: the dead one first, one validator twice, only the dead one, nobody. |
| `checkpoints` | Do nodes that start from genesis, from a bundle, or from the bundle of a pruned node derive the same difficulty and beacon, and do they do nothing full nodes could not? | 2 full nodes and one that joins (a pruned node exports again), height 6 with windows of 3 so that two retargets happen, 9 blocks on all forks together (a fork of three beside a chain of six, longer than the finality depth of 2), difficulty in 1 to 3, fast or late blocks. The founders are alike (`SYMMETRY`). |
| `peer_sync` | Does a node that is behind end on the producer's tip? | 3 nodes and a dead address: the fresh node knows a pruned node (other root) and the dead one, and must learn the producer from it. 3 blocks in batches of 1, two passes per tick, 2 faults (lost requests, lost answers, crashes of the fresh node and of the producer) wherever they hurt. The worker of the producer is off (`P2P_SYNC_DISABLED`): it has nobody to learn from. |
| `peer_gate` | Do replays, bans and relaying behave? | 1 relaying peer and 1 that sends everything else, 6 envelopes, a cache of 2, 2 handlers at once. The scores are smaller than in the code and keep its order: three offences ban a newcomer, two a peer that was banned before. |

Runs that end in a violation show a disagreement of the code with its own
documentation, listed under `findings`:

| Run | Property | What happens |
|---|---|---|
| `mining_deadlock` | `EveryRequestEnds` | `mine_block`/`propose_block` lock pool then chain, others chain then pool: beside each other they wait for ever. |
| `plan_skips` | `PlannedRootIsExecuted` | A transfer `plan_block` skips has already moved the nonce of the planned state, so the miner's own block is refused. |
| `deeper_finality` | `FinalizedIrreversible` | Raising `finality_depth` un-finalizes blocks and a fork replaces them. |

Deadlock is checked except where the model really stops: at `MaxHeight` or
`MaxBlocks` (ChainState, ForkChoice, Checkpoints), after the last nonce
(Exchange), and in `mining_deadlock`, whose subject is a deadlock and whose
property is a liveness claim.

## 4. Fairness

* **Mempool**: the mining loop goes on and handlers end (weak fairness of
  `Plan \/ FinishMining` and of what a handler still has to do).
  Two things the code cannot force are assumed: peers do not move the tip under
  every good plan for ever (strong fairness on an accepted `FinishMining`), and
  the pool is not spoilt by a transfer that fails half-way (`PoolIsSpoilt` in
  `EveryoneIsServed`; `plan_skips` shows what happens otherwise).
* **NodeLocks**: a task that owns its next lock goes on: tokio schedules ready
  tasks, and its mutex is first come, first served.
* **LeaderRotation**: clocks run, producers poll for their turn and finish their
  work, and what is sealed reaches everybody by gossip or the next tick.
  Validators that are down have no fairness, and whose leaders are drawn is
  never assumed. In `Stalled` no node has a validator of its own among the
  leaders on its tip. That alone may pass, with the next delivery;
  `BlocksKeepComing` exempts only executions that stay in it (`<>[]Stalled`).
* **PeerSync**: the worker of every node in `Syncing` runs for ever (`sync.rs:141`
  loops) and the producer seals. Gossip and `Persist` have none. Faults are
  bounded by `MaxFaults` instead of a fairness condition: the network is bad for
  a while, then good.
* **PeerGate**: time passes. Nothing else is needed for `EveryBanEnds`; senders
  may go on for ever.
* ChainState, FeeMarket, Exchange, ForkChoice and Checkpoints state safety only.

## 5. Proofs

TLAPS checks these theorems with the constants arbitrary, under the named
assumptions of the modules: `AccountsAssumption`, `AmountsAssumption`,
`HeightsAssumption` and `FeesAssumption` (finitely many accounts, a slash of
less than everything, an unbonding period not shorter than the slashing window,
as `state.rs` fixes them), `ExchangeAssumption` (a positive
`MINIMUM_LIQUIDITY`, a fee below its denominator, the pool account no user's),
`MempoolAssumption` (nonces from 1, an anchor is no transfer, positive limits;
nothing about ids),
`CheckpointsAssumption` (a positive interval, a genesis difficulty within its
bounds), `PeerSyncAssumption` (positive limits, no bootnode twice, which `main.rs:197`
filters, and no node configured as its own),
`ForkChoiceAssumption` (depths and work are positive),
`RotationAssumption` (finitely many nodes, no validator key on two of them),
`PeerGateAssumption`, `ScoresAssumption` and `RequestsAssumption`.
`ExitsAreSettled` has one hypothesis of its own, that the validator registered at
genesis gets a stake: `state.rs:339` bonds 1,000,000 HKM, or the supply if that
is less, so only a network configured with a supply of zero (`main.rs:58`) is
left out.

| Theorem | Module | Statement |
|---|---|---|
| `TypeCorrect` | ChainStateProofs | `Spec => []TypeOK`: no unsigned subtraction of the ledger underflows |
| `SupplyIsConserved` | ChainStateProofs | accounts and fee pot make up the supply, also inside a block |
| `PoolsAreSolvent` | ChainStateProofs | staking pool = bonded + unbonding, vesting pool = what open entries still release |
| `SupplyFollowsSchedule` | ChainStateProofs | supply + burned = genesis + emission so far |
| `FeeCountIsExact` | ChainStateProofs | the pot divided by the base fee is the number of paying transactions |
| `LedgerImplementsFeeMarket` | ChainStateProofs | ChainState implements FeeMarket, and its fee moves with demand |
| `FeeStaysBounded`, `FeeAlwaysFollowsDemand`, `OwnBlocksAreGentle` | ChainStateProofs | bounds and steps of the fee in FeeMarket |
| `LedgerFeeIsSound` | ChainStateProofs | the first two of these for the base fee of ChainState, through the refinement |
| `ExitsAreSettled` | ChainStateProofs | withdrawals are paid when they mature, and no registration outlives its stake |
| `OffencesStayPunishable` | ChainStateProofs | while an offence can be reported, the stake it was committed with can be cut |
| `VestingIsOnSchedule` | ChainStateProofs | an open entry has released exactly its share, and a finished one is gone |
| `OnlyOwnersLose` | ChainStateProofs | accounts get poorer by their own transactions or a slash of theirs only; only issuers revoke |
| `BooksStayInRange` | ExchangeProofs | the exchange stays in 64 bits and above zero: nothing saturates or wraps |
| `TokensAreConserved` | ExchangeProofs | holdings make up supplies, providers' shares and the locked minimum the pool's |
| `ReservesAreBacked` | ExchangeProofs | the pool account holds exactly what all reserves say |
| `SharesStayUnderRoot` | ExchangeProofs | shares never exceed the root of the product of the reserves |
| `ReservesStayPositive` | ExchangeProofs | no reserve is emptied |
| `ProvidersNeverLose` | ExchangeProofs | no step lowers the product of the reserves per square of the shares |
| `TypesHold` | ForkChoiceProofs | the finalized height points into the chain, after a restart too |
| `TipHolds` | ForkChoiceProofs | no step of a running node lowers its tip |
| `NeverSignsTwice` | ForkChoiceProofs | without a crash, a validator signs one block of each height |
| `FinalityHolds` | ForkChoiceProofs | what a node reported final stays in its chain, if its operator leaves the depth alone |
| `WorkIsNeverInVain` | RotationProofs | a block sealed for a planned slot on a tip that stays is valid |
| `FallbacksWait` | RotationProofs | no fallback leader's block enters a chain early |
| `EveryBanIsEarned` | PeerProofs | between two bans of a peer, and before the first, it misbehaves at least twice |
| `RelayingStaysFree` | PeerProofs | a peer that relays the chain never falls below its first score |
| `ReplaysNeedAFlood` | PeerProofs | an envelope gets in again only after as many others as the cache holds |
| `NobodyWaitsInACircle` | NodeProofs | no group of requests waits only for itself, however many there are, if none is in `Inverted` |
| `NoncesAreQueuedOnce` | NodeProofs | no two pooled transfers of a sender with ids of its own compete for a nonce, whatever clients, gossip, blocks and prunes race |
| `PoolIsPruned` | NodeProofs | when no handler has still to prune, nothing of such a sender in the pool is settled |
| `PoolForgetsNothing` | NodeProofs | a transaction with an id of its own leaves the pool only once the chain has consumed its nonce |
| `PlansAreValid` | NodeProofs | what `plan_block` builds is valid on the ledger it was planned on, unless the pool is spoilt |
| `SyncTypesHold` | PeerProofs | chains reach from their root, no snapshot is ahead of its chain, faults are bounded |
| `PeerListsHold` | PeerProofs | no list names an address twice, and none of an announcing node its own |
| `CheckpointTypesHold` | CheckpointsProofs | the difficulty is in its bounds and the finalized height inside the blocks a node holds |
| `SealedBlocksAreTaken` | CheckpointsProofs | a block fits every node on the tip it was sealed on, wherever the chain of that node starts |
| `BundlesAreFaithful` | CheckpointsProofs | an import and a replay restore tip, difficulty and beacon |
| `NetworkLooksFull` | CheckpointsProofs | Checkpoints implements FullNodes |
| `FullNetworkIsSound`, `PrunedNetworkIsSound` | CheckpointsProofs | every part of a chain was sealed by somebody, and blocks `FinalityDepth` deep stay; in FullNodes, and by the refinement in Checkpoints |

The arguments.

*Ledger.* `TypeOK` is inductive by itself: each action's guards keep its
subtractions above zero. The three balance laws need each other: `end_block`
ignores an error of a pool's debit and pays out anyway, so the supply is
conserved only if the pools can pay, and the pools can pay only if every
transaction keeps them equal to what they owe. Hence the inductive invariant
`Funds == TypeOK /\ SupplyConserved /\ StakingPoolSolvent /\
VestingPoolSolvent /\ VestingFresh`, where `VestingFresh` says that an entry
never releases more than its total and that the slot of a nonce not used yet is
empty, so that `Vest` overwrites nothing. `SupplyFollowsSchedule` adds that
only an executing block can have had its reward. Sums are cardinalities of sets
of coins (`Coins`); `DataTheorems` proves from the library's facts on finite
sets how a sum changes when one or two of its terms do. The lemmas on
`next_base_fee` stand before the fee market in `ChainStateProofs`.

*Stake.* `ExitsSettled` splits in two. `Settled` (nothing matured is left, who
has stake at risk is registered) is inductive beside `Funds`: a payout finds the
pool able to pay. `Backed` (who is registered has stake at risk) needs the
hypothesis on genesis, and that a slash of less than all leaves something. For
`OffenceStaysPunishable`, the stake that signed is not enough to look at: entries
that were unbonding already may mature first. `AtRisk(v, i)` counts what is
bonded and what was withdrawn at height i or later, and `Covered` says that while
a proof is accepted this is at least what was exposed. Slashes drain the oldest
entries first, so what they take of this part is no more than they take off
`exposed`. `OnTime` gives `VestingOnSchedule`: an entry is brought to the total
its schedule grants, so no rounding is left over.

*Exchange.* The inductive invariant `BooksInv` holds four properties of the run
and their ranges together. No part is inductive alone: withdrawals and
swaps subtract from reserves and from the pool account without a check, so the
subtractions are covered only if reserves are backed and stay positive; they
stay positive because shares stay under the root of their product while
`MINIMUM_LIQUIDITY` of them is nobody's; and shares stay under the root because
every rounding is against the one who trades (`SharesAreFair`, `PartIsFair`,
`SwapKeepsProduct`), so that the value of a share never drops (`ValueKept`,
`RootKept`). The casts to `u64` only cut (`CastShrinks`): shares may come out
too few, never too many. One lemma per action (`...KeepsBooks`) puts this
together. That `isqrt_u128` returns at most the root needs its loop, a recursive
function whose recursion ends because each step descends: `NewtonRuns` finds, for
any start, a finite run of the loop by way of a least counterexample, and every
number of a run is at least the root until it stops under it.

*Fork choice.* `Types` adds to `TypeOK` what miners, downloads and snapshots hold.
The tip cannot go down because every commit and every adoption is compared with
the chain at that moment, under its lock. With it `SignedBelowTip`, that what was
signed is not above the signer's tip, is inductive and gives `NoDoubleSigning`.
`FinalizedStays` is not inductive: a block in work with another depth in hand
would move the finalized height down. `Calm` adds, for nodes that are not
`tuned`, that the finalized height is the one the tip and the depth give, that
`settled` is that prefix, and that all depths in hand are the current one.

*Rotation.* Slots are minima over open rounds, so the lemmas show that such a
minimum exists, and that the smallest round of a leader stays the smallest when
more rounds open (`FirstTurn`). `Planned` says that a round was open by the
producer's clock when the work began; `Ages` ties clocks and stamps, and
`OwnBelowTip` says that a producer's blocks are not above its own tip, so that
nothing it seals exists already.

*Fee refinement.* `PotIsFees == TypeOK /\ fee_pot = base_fee * fee_txs` is
inductive because the base fee changes only in `EndBlock`, which empties the
pot. `QuotientExact` then gives the division of `end_block` its exact result.

*Peer gate.* `Margin` says that a peer without an offence since its last ban is
more than one penalty above the threshold; `ScoresAssumption` asks of the
constants exactly that for a newcomer and for a score just reset. `Fair` adds
that no envelope of a relaying peer goes stale. `Remembered` gives each admitted
envelope its place in the cache, counted from the newest: `since[e]` places
back, until `CAPACITY` others have come.

*Locks.* `Rank` orders the locks, and `Ordered` says of the rest of a script
that whatever it still enters ranks above whatever it still holds. Lemmas
(`SoundJoin`, `SoundHolding`, `SoundBrief`) build this for every handler from
the order of its parts; `mine_block` and `propose_block` fail it. The inductive
invariant `Tidy` says that what a script is yet to release its task owns. Of a
group that waits for itself, one member asks for a lock of the highest rank
(`HighestRank`), its owner waits too, and by `WaitsGoUp` for a higher one.

*Pool.* `NoNonceConflict` alone does not survive a submission: `queue_transaction`
looks at the pool only through the projected state, so one must know that the
projection has reached the next nonce of the sender. `PoolInv` therefore says
how a pool stands to its chain: a sender's transfers are in the order of their
nonces (`InOrder`) and without a gap above what the chain has (`Gapless`).
Then trying them in turn consumes every one of them (`ProjectionReaches`),
whether it succeeds or not, and what is admitted is the next one
(`AdmittedIsNext`). A block keeps both, because a transfer leaves the pool only
once the chain has reached its nonce (`RemovalLeavesNoGap`, `BlockSettles`), and
then the next one needs no predecessor. `GoneIsSettled` says that
what is in a block that handlers are about to prune is settled, hence
`PoolForgetsNothing`. Both orders are kept of senders in `Sure` only: of another,
a transaction with a stranger's id may leave a gap. Who the others are does not
matter to them (`NamedIsMeant`, `OthersAreNeutral`): what they do to the projected
state is not to these nonces.
`UnspoiltPlan` runs the two executions of a plan side by side, the one that skips
and the one that does not: they agree as long as nothing that was skipped had
moved its nonce.

*Catching up.* `SyncInv` gives every phase of a tick the lists it carries, and
every list `CleanLists`. The step that matters is the one that `register_peer` and
the tick share: an address is looked up before it is added, in the list of that
moment and not in the one the tick began with (`AddAllKeepsClean`). A
snapshot is never ahead of its chain, whichever step writes it
(`SnapshotKeepsDisk`), and never below its root, so a restart keeps every part.

*Checkpoints.* The inductive invariant `CheckpointsInv` says that the state of a
node is determined by two things: the history of its tip, a list of gaps, and
the height its blocks start at. `Full(h)` is the chain of the history h, made by
committing block after block; every node holds a `Cut` of one at a multiple of
the interval, and every sealed block is `NextBlock` of some. A hash tells its
history (`HashTellsHistory`), so a block on a node's tip was sealed on the same
history, and what remains is that a cut derives what the whole chain derives. It
does because a retarget looks back no further than the last boundary, which a
cut never lies behind (`BoundariesApart`, `RetargetCut`), and because genesis is
never in a window; `AnchorDifficulty` says that the header of a boundary carries
the difficulty from there on. `ReplayCut` then runs `rebuild_state` through the
blocks of a cut; `RebuildCut` and `BundleIs` give `BundlesRestore`.

*Full network.* `CheckpointsInv` also bounds the finalized height from below, by
the tip less the depth. Fork choice on a pruned node compares only blocks from
its anchor to there, but the hash of the last of them fixes everything before
it, so what it adopts agrees with all its deep blocks, those it never held
included (`AdoptStep`). An import starts where the exporter is (`JoinStep`), and
every other step adds one gap. FullNodes has its own invariant, that the past of
every chain was sealed, and keeps deep blocks by its guards; both come back to
Checkpoints through the refinement.

*Loops.* The library's induction theorems take a predicate as a parameter, which
the installed provers cannot instantiate. `SeqInduction` takes a set of lists in
its place and is proved by a least counterexample over their length; with it
`FoldedAppend`, `FoldedConcat` and `FoldedStays` make a loop of the code a
definition to reason about, for lists of every length.

Only model-checked: the liveness properties (`EveryoneIsServed`,
`EveryRequestEnds`, `BlocksKeepComing`, `EveryBanEnds`, `EveryoneCatchesUp`),
because fairness is outside this prover's reach. Every other property of a
passing run is a theorem. The properties of the runs that end in a violation are
refuted by TLC's counterexamples.

## 6. What the checks show

Apart from the three findings, the code keeps what it promises, often for a
reason worth knowing:

* `PlannedSlotHolds`: rounds that open while a block is worked on never take the
  planned slot away, because a slot is the *smallest* open round of its leader.
* `NoEarlyFallback` holds on every node's own clock, within the tolerance, and
  also for a chain adopted whole, where only the tip meets the clock: stamps
  inside are ordered.
* `SealedBlocksFit` and `BundlesRestore` hold because bundles start at retarget
  boundaries and genesis, whose stamp is fixed, is never part of a window.
* `TypeOK` of ForkChoice and Checkpoints is what keeps `try_adopt_chain` from
  indexing outside its blocks (`chain.rs:1046`), on pruned nodes too.
* `ImplementsFullNetwork`: seen by its tips, a network with pruned nodes cannot be
  told from one of full nodes. Blocks `FinalityDepth` deep stay on a pruned node
  too, also those below its anchor, which it never held.
* `PlansAreValid`: a failing transfer is the only thing that spoils a plan, so
  `plan_skips` is the whole of that problem.
* `ImplementsFeeMarket`: the pot is emptied in the block that changes the fee,
  so the division never meets two fees.
* `BansAreEarned`: an offence during a ban lowers the score and neither extends
  the ban nor resets it.

## 7. Disagreements of code and documentation

Besides the findings of section 3, met while modelling, reproduced by the models
and with no run spent on them:

* *Pool limit.* Gossiped transactions and certificate anchors enter the pool past
  `MAX_PENDING_TXS` (`routes.rs:3001` and `862` against the comment at 31).
* *Names.* The pool is searched and pruned by `tx.id`, which the sender of a
  transaction chooses and no signature covers (`routes.rs:707`, `1573`, `1798`,
  `2961`). A transaction that is mined takes with it whatever else in the pool has
  its id, although the comment at `routes.rs:1560` speaks of transactions that
  were included or can no longer apply. `NothingForgotten` and the properties
  beside it are therefore about transactions whose id nobody else uses.
* *Anchors.* Certificate anchors carry no chain id, so no block takes them,
  although `routes.rs:861` says they are anchored.
* *Fee step.* A block of more than twice the target, which validation accepts,
  moves the base fee by more than the eighth of `state.rs:96`;
  `OwnBlocksStepAnEighth` is stated for the blocks this program builds.
* *Work.* `try_adopt_chain` compares height before work, against its comment at
  `chain.rs:1025`.
* *Pool ratio.* `AddLiquidity` cuts `token_optimal` to 64 bits before it compares
  it (`state.rs:955`): a deposit into a very lopsided pool can miss the ratio.
* *Rotation.* `chain.rs:22` says that a dead validator can "never stall" the
  chain. Leaders are drawn with replacement and `MAX_SLOT_ROUNDS` ends the
  rounds: if all of them go to validators that are down, no block of that height
  is ever valid (`Stalled`). On two equally heavy forks, each side's leaders may
  also sit on the other.
* *Clock.* A producer whose clock is behind the parent's stamp works on a block
  that its own validation refuses (`InOrder` in `Seal`).
* *Siblings.* `routes.rs:3033` says that a tip mismatch is not misbehaviour. The
  stamp and the difficulty of a block are compared before its previous hash
  (`chain.rs:617`), so a block of another fork at the next height can be refused
  for those, and its sender is penalised (`JudgeSibling`).
* *Replays.* The comment on `BAD_DELTA` (`peerbook.rs:23`) counts replayed
  messages as misbehaviour; the handler does not (`Replay`).
* *Second chance.* `peerbook.rs:112` resets the score at a ban so that there is no
  "instant re-ban"; offences during the ban are still subtracted, so a peer may
  return with the minimum and be banned for its next one.
* *Late payments.* A transaction relayed after the block that contains it counts
  as misbehaviour of the relaying peer (`routes.rs:2991`).
* *Stamps.* An envelope is stamped once and sent to peer after peer with retries
  (`service.rs:86`): behind many dead peers it arrives stale and is penalised.
* *Sixteen peers.* Only the first `MAX_PEERS_PER_TICK` addresses are ever asked
  (`sync.rs:66`) and none is ever removed; dead ones in front cut a node off.
* *Pruned nodes* never synchronise with full ones: `same_network` compares roots
  (`sync.rs:247`), and fork choice needs the same base.
* *Anchors of bundles* are taken at the last retarget boundary, which may not be
  final (`chain.rs:1144`).
* *Heights.* `routes.rs:711`, `1247`, `2703` and `3260` use `blocks.len()` where
  the pruned chain's next index is meant.

## 8. Not modelled, and plan

Not modelled: cryptography (signatures, hashes, VRF and proof of work are taken
to be sound), HTTP, serialisation and formatting, metrics, environment parsing,
amount parsing (a pure parser with its own tests), authentication and API
tokens (independent of consensus), the in-memory certificate map (an insert and
a flag), the command line tools, SDKs, dashboard and extension. Handlers that
take one lock once are left out of NodeLocks: they own nothing while they wait.

Abstractions a reader should know. ForkChoice gives a block arbitrary work
instead of the retarget schedule and keeps the full chain; Checkpoints has the
schedule and no crashes. Depths read just before a lock are the current ones
except where proof of work or a download lies in between: of a download,
ForkChoice does not keep when it read its depth, and lets a node whose operator
changed it use any (`DepthsInHand`). ChainState debits a pool once per block
where `end_block` does it account by account, which is the same while the pools
can pay (`PoolsSolvent`), and multiplies in `SlashAmount` without the saturation
of `state.rs:1228`, which no supply near the default reaches. Mempool has no chain
replacement: a reorganisation drops the transactions of the abandoned blocks,
and the code has nothing that would bring them back. ForkChoice keeps no record
of what a validator signed across a restart because the code keeps none, and
`NoDoubleSigning` says so. PeerSync has a single chain: its producer does not
crash while another node holds a block it would lose (`NobodyAhead`), because it
would seal a second one of that height; and it gossips what is saved, where the
code would also go on after a snapshot that failed to be written
(`routes.rs:1819`). In LeaderRotation any registered validator may be drawn,
weights aside, and of two forks of one height `Heavier` is any fixed relation;
the run takes the faster one for the heavier.

Next, in this order:

1. An abstract replicated log (a final prefix that only grows) that ForkChoice
   implements while depths are fixed, from `Calm`.
2. Slash transactions in the pool, with the silent wait of a refused one.
3. Authentication: challenges, tokens and their expiry.
