----------------------------- MODULE NodeLocks ------------------------------
(***************************************************************************)
(* The mutexes of AppState (src/src/api/routes.rs) and the order in which  *)
(* the node's requests and background tasks take them.                     *)
(*                                                                         *)
(* A task is what tokio runs: one HTTP request, or one tick of the syncer. *)
(* It follows the script of its kind, the locks taken and dropped in the   *)
(* order of the source, and keeps a lock across an await.  tokio's Mutex   *)
(* is fair: a lock is a queue whose head owns it.  A handler that returns  *)
(* early does so when it holds nothing (Return).  What the handlers do to  *)
(* the data under the locks is in the other modules.                       *)
(***************************************************************************)
EXTENDS Naturals, Sequences, SequencesExt

CONSTANTS
    Tasks,      \* bound: requests in flight at the same time
    Requests    \* the kinds of request the node receives

Locks == {"chain", "contracts", "pending", "peers", "governance",
          "slash_evidence", "metrics", "peer_book", "seen"}

\* A lock held while `inner` runs, and one released at once.
Holding(l, inner) == <<<<"lock", l>>>> \o inner \o <<<<"unlock", l>>>>
Brief(l) == Holding(l, <<>>)

\* Mutant of PersistState: the pool is locked before the chain.
PersistState_PoolFirst ==
    Holding("pending", Holding("chain", Holding("contracts", Holding("peers",
        Holding("governance", Brief("slash_evidence"))))))

\* persist_state
PersistState ==
    Holding("chain", Holding("contracts", Holding("pending", Holding("peers",
        Holding("governance", Brief("slash_evidence"))))))

\* prune_pending; also the nesting of every handler that projects the pool.
ChainThenPool == Holding("chain", Brief("pending"))

\* mine_block and propose_block while they plan or finish.
PoolThenChain == Holding("pending", Brief("chain"))

\* accept_peer_block
AcceptBlock == Brief("chain") \o ChainThenPool

\* try_adopt_chain of a chain that was fetched, and what follows when it is adopted.
AdoptChain == Brief("chain") \o Brief("metrics") \o ChainThenPool \o PersistState

\* queue_transaction, for every endpoint that submits one.
QueueTransaction == Brief("chain") \o ChainThenPool \o PersistState

\* receive_protocol_message before it looks at the payload.
Envelope == Brief("peer_book") \o Brief("seen") \o Brief("metrics")

\* register_peer and PeerAnnounce count a new peer while they hold the list.
RegisterPeer == Holding("peers", Brief("metrics")) \o PersistState

\* reward_peer or penalize_peer, and the counters of the verdict.
Verdict == Brief("peer_book") \o Brief("metrics")

-----------------------------------------------------------------------------
(* The handlers that take more than one lock, one after the other or       *)
(* nested, and the tasks they spawn.                                       *)

MineBlock == Brief("governance") \o PoolThenChain \o PoolThenChain \o Brief("metrics") \o PersistState
ProposeBlock == PoolThenChain
SubmitBlock == Brief("governance") \o AcceptBlock \o Brief("metrics") \o PersistState
ReceiveBlocks == Brief("governance") \o AcceptBlock \o AcceptBlock \o Brief("metrics") \o PersistState

\* The nonce of the treasury, its network, then a transaction like any other.
Faucet == ChainThenPool \o Brief("chain") \o QueueTransaction

\* The answer shows the stake after the transaction was queued.
StakeTokens == QueueTransaction \o Brief("chain")

SubmitEquivocation == QueueTransaction \o Brief("metrics")
PeerTransaction == Envelope \o Brief("pending") \o ChainThenPool \o Verdict \o PersistState
PeerBlock == Envelope \o Brief("governance") \o AcceptBlock \o Verdict \o PersistState
PeerAnnounce == Envelope \o RegisterPeer
IssueCertificate == Brief("contracts") \o Brief("pending") \o PersistState
AttestCertificate == Brief("contracts") \o PersistState
UpdateGovernance == Brief("governance") \o PersistState
SubmitSlashEvidence == Brief("chain") \o Brief("slash_evidence") \o PersistState
Stats == Holding("chain", Holding("pending", Brief("governance")))
Overview == Holding("chain", Holding("pending", Brief("peers")))

\* gossip_blocks and gossip_transaction, spawned by the handlers.
Gossip == Brief("peers") \o Brief("metrics")

\* sync_with_peers, spawned when a block does not fit.
SyncWithPeers == Brief("peers") \o Brief("governance") \o AdoptChain

\* A tick of the syncer: announce_and_discover, catch_up, download_from with one
\* batch and then fork choice.
SyncTick ==
    Brief("peers") \o Brief("peers") \o Brief("peers") \o Brief("chain") \o Brief("governance")
        \o Brief("chain") \o AcceptBlock \o PersistState \o AdoptChain

Script ==
    [mine_block           |-> MineBlock,        propose_block         |-> ProposeBlock,
     submit_block         |-> SubmitBlock,      receive_blocks        |-> ReceiveBlocks,
     queue_transaction    |-> QueueTransaction, faucet                |-> Faucet,
     stake_tokens         |-> StakeTokens,      submit_equivocation   |-> SubmitEquivocation,
     peer_transaction     |-> PeerTransaction,  peer_block            |-> PeerBlock,
     peer_announce        |-> PeerAnnounce,     register_peer         |-> RegisterPeer,
     issue_certificate    |-> IssueCertificate, attest_certificate    |-> AttestCertificate,
     update_governance    |-> UpdateGovernance, submit_slash_evidence |-> SubmitSlashEvidence,
     get_account_nonce    |-> ChainThenPool,    stats                 |-> Stats,
     overview             |-> Overview,         gossip                |-> Gossip,
     sync_with_peers      |-> SyncWithPeers,    sync_tick             |-> SyncTick]

\* The two that lock the pool first.
Inverted == {"mine_block", "propose_block"}

ASSUME RequestsAssumption == Requests \subseteq DOMAIN Script

VARIABLES
    script,   \* [Tasks -> the steps a task still has to take], <<>> when idle
    queue     \* [Locks -> the tasks at the lock, its owner first]

lockVars == <<script, queue>>

Owns(t, l) == queue[l] # <<>> /\ Head(queue[l]) = t
HoldsNothing(t) == \A l \in Locks : t \notin Range(queue[l])

LocksInit ==
    /\ script = [t \in Tasks |-> <<>>]
    /\ queue = [l \in Locks |-> <<>>]

\* A request arrives.
Receive(t, kind) ==
    /\ script[t] = <<>>
    /\ script' = [script EXCEPT ![t] = Script[kind]]
    /\ UNCHANGED queue

At(t, what, l) == script[t] # <<>> /\ Head(script[t]) = <<what, l>>

\* lock().await: the task joins the queue ...
Ask(t, l) ==
    /\ At(t, "lock", l)
    /\ t \notin Range(queue[l])
    /\ queue' = [queue EXCEPT ![l] = Append(@, t)]
    /\ UNCHANGED script

\* ... and goes on when it is its turn.
Enter(t, l) ==
    /\ At(t, "lock", l)
    /\ Owns(t, l)
    /\ script' = [script EXCEPT ![t] = Tail(@)]
    /\ UNCHANGED queue

\* Mutant of Release: the waiters are woken to race for the lock again.
Release_Unfair(t, l) ==
    /\ At(t, "unlock", l)
    /\ queue' = [queue EXCEPT ![l] = <<>>]
    /\ script' = [script EXCEPT ![t] = Tail(@)]

\* drop, or the end of the guard's scope.
Release(t, l) ==
    /\ At(t, "unlock", l)
    /\ queue' = [queue EXCEPT ![l] = Tail(@)]
    /\ script' = [script EXCEPT ![t] = Tail(@)]

\* An early return.
Return(t) ==
    /\ script[t] # <<>>
    /\ HoldsNothing(t)
    /\ script' = [script EXCEPT ![t] = <<>>]
    /\ UNCHANGED queue

TaskStep(t) == \E l \in Locks : Ask(t, l) \/ Enter(t, l) \/ Release(t, l)

LocksNext ==
    \E t \in Tasks :
        \/ \E kind \in Requests : Receive(t, kind)
        \/ TaskStep(t)
        \/ Return(t)

\* The executor runs every task that can take a step.
LocksSpec == LocksInit /\ [][LocksNext]_lockVars /\ \A t \in Tasks : WF_lockVars(TaskStep(t))

-----------------------------------------------------------------------------

WaitsFor(t, u) == \E l \in Locks : At(t, "lock", l) /\ t # u /\ t \in Range(queue[l]) /\ Owns(u, l)

\* No group of tasks waits only for members of the group.
NoCircularWait ==
    \A group \in (SUBSET Tasks) \ {{}} : \E t \in group : \A u \in group : ~WaitsFor(t, u)

\* mainnet_readiness.md:44, "Node responsiveness": every request is answered.
EveryRequestEnds == \A t \in Tasks : (script[t] # <<>>) ~> (script[t] = <<>>)
=============================================================================
