------------------------------ MODULE Mempool -------------------------------
(***************************************************************************)
(* One node between its clients, its peers and its chain: the pending pool *)
(* and block production of src/src/api/routes.rs.                          *)
(*                                                                         *)
(* Interleaving.  A handler holds the chain and pool locks for one action  *)
(* and releases them between two.  The miner plans a block, works on it    *)
(* without locks and then finishes; a peer's transaction is looked up in   *)
(* the pool before it is admitted; a peer's block is committed before the  *)
(* pool is pruned.                                                         *)
(*                                                                         *)
(* Abstractions.  Transactions are transfers, and the certificate anchors  *)
(* the node itself queues; what matters of the ledger is what makes a      *)
(* transfer fail: nonces, balances and the base fee.  Fees and rewards go  *)
(* to validators outside Users.  Signatures hold, and cover everything of a*)
(* transaction but its id: it travels with any id, also one another carries*)
(* already.  Every block extends the tip: replacing the chain is not part  *)
(* of this module.                                                         *)
(***************************************************************************)
EXTENDS Fees, SeqFolds

CONSTANTS
    Users,            \* accounts that send transactions
    Ids,              \* what transactions are told apart by in the pool
    Txs,              \* bound: the transactions clients sign, with the ids they
                      \*  are submitted or relayed under
    Anchors,          \* bound: certificates that are issued, each once
    Funds,            \* [Users -> Nat], balances at the start
    MAX_PENDING_TXS,
    MAX_BLOCK_TXS,
    PeerBlockTxs,     \* bound: transactions of a peer's block
    Handlers          \* bound: peer messages handled at the same time

ASSUME MempoolAssumption ==
    /\ Txs \subseteq [id : Ids, from : Users, to : Users, amount : Nat, nonce : Nat \ {0}]
    /\ Anchors \cap Txs = {}
    /\ Funds \in [Users -> Nat]
    /\ MAX_PENDING_TXS \in Nat \ {0}
    /\ MAX_BLOCK_TXS \in Nat \ {0}
    /\ PeerBlockTxs \in Nat

Pooled == Txs \cup Anchors

Idle == [doing |-> "idle"]
NoPlan == [txs |-> <<>>, root |-> <<>>, stale |-> FALSE, mining |-> FALSE]

VARIABLES
    ledger,    \* chain.state: nonces, balances, base_fee
    pending,   \* pending_transactions
    plan,      \* block the miner works on: its transactions and state root
    task       \* [Handlers -> what the handler still has to do]

vars == <<ledger, pending, plan, task>>

-----------------------------------------------------------------------------
(* Execution                                                               *)

\* The part of ChainState that makes a transfer fail.
Ledgers == [nonces : [Users -> Nat], balances : [Users -> Int], base_fee : Nat]

\* verify_chain_scope: clients' transactions carry the id of this network (it
\* is stamped on them before they are verified), anchors carry the empty one.
InScope(t) == t \notin Anchors

\* A transfer.  One that cannot be paid has already consumed its nonce when
\* debit fails: `after` is what the caller's state is left with.
Transferred(l, t) ==
    LET consumed == [l EXCEPT !.nonces[t.from] = t.nonce]
        cost == t.amount + l.base_fee
        debited == [consumed EXCEPT !.balances[t.from] = @ - cost]
    IN  CASE t.nonce # l.nonces[t.from] + 1 -> [ok |-> FALSE, after |-> l]
          [] t.nonce = l.nonces[t.from] + 1 /\ l.balances[t.from] < cost ->
                [ok |-> FALSE, after |-> consumed]
          [] OTHER -> [ok |-> TRUE, after |-> [debited EXCEPT !.balances[t.to] = @ + t.amount]]

\* apply_verified
ApplyVerified(l, t) ==
    IF InScope(t) THEN Transferred(l, t) ELSE [ok |-> FALSE, after |-> l]

\* The state after trying every transaction of txs in turn.
TryAll(l, txs) ==
    Folded([t \in Pooled |-> [s \in Ledgers |-> ApplyVerified(s, t).after]], l, txs)

\* end_block for a block of n transactions: FeeCountExact of ChainState is why
\* the count may stand for the fee pot.
EndBlock(l, n) == [l EXCEPT !.base_fee = next_base_fee(@, n)]

\* A block of these transactions is accepted on l (validate_block_at) ...
Executes(l, txs) ==
    \A i \in 1 .. Len(txs) : ApplyVerified(TryAll(l, SubSeq(txs, 1, i - 1)), txs[i]).ok

\* ... and leaves this state, the only root the block may carry.
Executed(l, txs) == EndBlock(TryAll(l, txs), Len(txs))

-----------------------------------------------------------------------------
(* Admission to the pool                                                   *)

\* Mutant of Projected: submissions are checked against the chain alone.
Projected_ChainOnly == ledger

\* project_pending_state
Projected == TryAll(ledger, pending)

Applicable(t) == ApplyVerified(Projected, t).ok

\* The pooled transactions and anchors that carry the id of one of txs.
Named(txs) == {t \in Pooled : \E u \in txs : u.id = t.id}

Queued(t) == t \in Named(Range(pending))

\* queue_transaction: a client's submission.
Submit(t) ==
    /\ Len(pending) < MAX_PENDING_TXS
    /\ ~Queued(t)
    /\ Applicable(t)
    /\ pending' = Append(pending, t)
    /\ UNCHANGED <<ledger, plan, task>>

\* issue_certificate: the anchor is pushed as it is.
IssueAnchor(a) ==
    /\ a \notin Range(pending)
    /\ pending' = Append(pending, a)
    /\ UNCHANGED <<ledger, plan, task>>

\* A peer's transaction arrives: looked up under the pool lock only.
ReceiveTransaction(h, t) ==
    /\ task[h] = Idle
    /\ ~Queued(t)
    /\ task' = [task EXCEPT ![h] = [doing |-> "admit", tx |-> t]]
    /\ UNCHANGED <<ledger, pending, plan>>

\* It is admitted under both locks if it applies by now, and refused if not.
Admit(h) ==
    /\ task[h].doing = "admit"
    /\ pending' = IF Applicable(task[h].tx) THEN Append(pending, task[h].tx) ELSE pending
    /\ task' = [task EXCEPT ![h] = Idle]
    /\ UNCHANGED <<ledger, plan>>

-----------------------------------------------------------------------------
(* Blocks                                                                  *)

\* Mutant of Planned: a transaction is included without trying it.
Planned_Untried ==
    [state |-> TryAll(ledger, pending),
     txs |-> SubSeq(pending, 1, Least(MAX_BLOCK_TXS, Len(pending)))]

\* The loop of plan_block: a transaction goes into the block if it applies.
Plans == [state : Ledgers, txs : Seq(Pooled)]
Include(p, t) ==
    LET r == ApplyVerified(p.state, t)
    IN  IF Len(p.txs) >= MAX_BLOCK_TXS THEN p
        ELSE [state |-> r.after, txs |-> IF r.ok THEN Append(p.txs, t) ELSE p.txs]

\* What the pool contributes to the next block.
Planned ==
    Folded([t \in Pooled |-> [p \in Plans |-> Include(p, t)]],
           [state |-> ledger, txs |-> <<>>], pending)

\* mine_block up to the release of the locks.
Plan ==
    /\ ~plan.mining
    /\ plan' = [txs |-> Planned.txs, root |-> EndBlock(Planned.state, Len(Planned.txs)),
                stale |-> FALSE, mining |-> TRUE]
    /\ UNCHANGED <<ledger, pending, task>>

\* mine_block after the work: a block for a tip that moved is dropped, so is one
\* that fails its own validation; otherwise it is committed and the ids of its
\* transactions leave the pool.
Accepted(p) ==
    ~p.stale /\ Executes(ledger, p.txs) /\ p.root = Executed(ledger, p.txs)

\* pending.retain
Without(pool, gone) ==
    Folded([t \in Pooled |->
               [kept \in Seq(Pooled) |-> IF t \in gone THEN kept ELSE Append(kept, t)]],
           <<>>, pool)

\* Mutant of FinishMining: the pool forgets the planned transactions in any case.
FinishMining_ForgetsAlways ==
    /\ plan.mining
    /\ ledger' = IF Accepted(plan) THEN plan.root ELSE ledger
    /\ pending' = Without(pending, Named(Range(plan.txs)))
    /\ plan' = NoPlan
    /\ UNCHANGED task

\* Mutant of FinishMining: included transactions stay in the pool.
FinishMining_KeepsPool ==
    /\ plan.mining
    /\ ledger' = IF Accepted(plan) THEN plan.root ELSE ledger
    /\ plan' = NoPlan
    /\ UNCHANGED <<pending, task>>

FinishMining ==
    /\ plan.mining
    /\ ledger' = IF Accepted(plan) THEN plan.root ELSE ledger
    /\ pending' = IF Accepted(plan) THEN Without(pending, Named(Range(plan.txs))) ELSE pending
    /\ plan' = NoPlan
    /\ UNCHANGED task

\* accept_peer_block and submit_block: commit under the chain lock, and leave
\* the pool to a later step.
ReceiveBlock(h, txs) ==
    /\ task[h] = Idle
    /\ Executes(ledger, txs)
    /\ ledger' = Executed(ledger, txs)
    /\ plan' = [plan EXCEPT !.stale = plan.mining]
    /\ task' = [task EXCEPT ![h] = [doing |-> "prune", gone |-> Range(txs)]]
    /\ UNCHANGED pending

\* The chain has consumed the transaction's nonce; an anchor has none.
Settled(t) == InScope(t) /\ t.nonce <= ledger.nonces[t.from]

\* prune_pending
Prune(h) ==
    /\ task[h].doing = "prune"
    /\ pending' = Without(pending, Named(task[h].gone) \cup {t \in Range(pending) : Settled(t)})
    /\ task' = [task EXCEPT ![h] = Idle]
    /\ UNCHANGED <<ledger, plan>>

-----------------------------------------------------------------------------

Init ==
    /\ ledger = [nonces |-> [u \in Users |-> 0], balances |-> Funds, base_fee |-> TX_FEE]
    /\ pending = <<>>
    /\ plan = NoPlan
    /\ task = [h \in Handlers |-> Idle]

PeerBlocks == UNION {[1 .. n -> Txs] : n \in 0 .. PeerBlockTxs}

Next ==
    \/ \E t \in Txs : Submit(t)
    \/ \E a \in Anchors : IssueAnchor(a)
    \/ \E h \in Handlers, t \in Txs : ReceiveTransaction(h, t)
    \/ \E h \in Handlers : Admit(h)
    \/ Plan
    \/ FinishMining
    \/ \E h \in Handlers, txs \in PeerBlocks : ReceiveBlock(h, txs)
    \/ \E h \in Handlers : Prune(h)

\* A handler that runs finishes, the mining loop runs for ever, and peers do not
\* outrun it every time it has a good block.  Nothing makes clients or peers
\* send anything.
Fairness ==
    /\ WF_vars(Plan \/ FinishMining)
    /\ SF_vars(FinishMining /\ Accepted(plan))
    /\ \A h \in Handlers : WF_vars(Admit(h) \/ Prune(h))

Spec == Init /\ [][Next]_vars /\ Fairness

-----------------------------------------------------------------------------
(* Properties                                                              *)

\* No other transaction carries the id of t.
Unmistaken(t) == \A u \in Pooled : u.id = t.id => u = t

\* Transfers of the senders none of whose transactions can be mistaken.  The ids
\* routes.rs gives to its clients' transactions are random; one that comes from
\* elsewhere may carry any.
Sure == {t \in Txs : \A u \in Txs : u.from = t.from => Unmistaken(u)}

\* Two pooled transactions of such a sender never compete for one nonce, whichever
\* of the two doors they came through and whatever raced in between; in
\* particular no payment is queued twice, under one id or under two.
NoNonceConflict ==
    \A i, j \in {k \in 1 .. Len(pending) : pending[k] \in Sure} :
        pending[i].from = pending[j].from /\ pending[i].nonce = pending[j].nonce => i = j

\* Once every handler that committed a block has pruned, nothing the chain has
\* settled is left in the pool of such a sender.
PoolSettled ==
    (\A h \in Handlers : task[h].doing # "prune") =>
        \A t \in Range(pending) \cap Sure : ~Settled(t)

\* A queued transaction with an id of its own leaves the pool only when the chain
\* has consumed its nonce: a lost race of the miner, a late prune or a copy under
\* another id never drops it.  (One that shares its id goes with the other.)
NothingForgotten ==
    [][\A t \in Range(pending) \ Range(pending') : Unmistaken(t) => Settled(t)']_vars

\* A pooled transaction that fails after it consumed its nonce.
Spoils(i) ==
    LET l == TryAll(ledger, SubSeq(pending, 1, i - 1))
        r == ApplyVerified(l, pending[i])
    IN  ~r.ok /\ r.after # l

PoolIsSpoilt == \E i \in 1 .. Len(pending) : Spoils(i)

\* A miner that kept up with the tip has a valid block, unless the pool held a
\* transaction that failed half-way: nothing else separates planning from
\* validation.
OnlySpoiltPoolsFail ==
    [][plan'.mining /\ ~plan.mining /\ ~PoolIsSpoilt => Accepted(plan')]_vars

\* plan_block, "skip any that no longer apply": what it skips leaves no trace
\* in the block, so the state root is that of the transactions it carries.
PlannedRootIsExecuted ==
    plan.mining /\ ~plan.stale => plan.root = Executed(ledger, plan.txs)

\* Every queued transaction of such a sender is settled, anchors that can never
\* apply in front of it or not, unless the pool keeps being spoilt.
EveryoneIsServed ==
    \A t \in Sure : (t \in Range(pending)) ~> (t \notin Range(pending) \/ PoolIsSpoilt)
=============================================================================
