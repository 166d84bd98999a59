------------------------------ MODULE PeerSync ------------------------------
(***************************************************************************)
(* How nodes find each other and how one that is behind catches up: the    *)
(* background tick that announces, learns peers, polls heads and downloads *)
(* (src/src/p2p/sync.rs), the requests it makes (src/src/p2p/service.rs)   *)
(* and the handlers that answer them (src/src/api/routes.rs).              *)
(*                                                                         *)
(* There is one chain, its blocks are sealed at one node, and a node holds *)
(* it up to its tip; forks are ForkChoice's matter.  A node that started   *)
(* from a checkpoint has another root.  Every tick is a run of steps with  *)
(* the steps of other nodes in between.  What a step changes is on disk    *)
(* only after a later one.  A request or its answer may be lost, an address*)
(* may belong to nobody, and nodes crash and restart.                      *)
(***************************************************************************)
EXTENDS Integers, Sequences, SeqFolds, FiniteSets, FiniteSetsExt, Functions

CONSTANTS
    Nodes,
    DeadPeers,                    \* addresses nobody answers at
    Producer,                     \* the node blocks are sealed at
    Root,                         \* [Nodes -> height of the root of its chain]
    Bootnodes,                    \* [Nodes -> Seq(addresses)]
    Announcing,                   \* nodes with an announce_address
    Syncing,                      \* nodes whose worker is not turned off
    MAX_PEERS_PER_TICK,
    MAX_LEARNED_PEERS_PER_TICK,
    MAX_SYNC_BATCH,
    MAX_BATCHES_PER_PASS,
    MaxHeight,                    \* bound: height of the chain
    MaxFaults,                    \* bound: lost requests, lost answers and crashes
    Crashing                      \* bound: nodes that may crash, and the producer

Addresses == Nodes \cup DeadPeers

ASSUME PeerSyncAssumption ==
    /\ Producer \in Nodes
    /\ Root \in [Nodes -> 0 .. MaxHeight]
    /\ Bootnodes \in [Nodes -> Seq(Addresses)]
    /\ \A n \in Nodes : IsInjective(Bootnodes[n]) /\ n \notin ToSet(Bootnodes[n])
    /\ Announcing \subseteq Nodes /\ Syncing \subseteq Nodes
    /\ Crashing \subseteq Nodes /\ Producer \in Crashing
    /\ {MAX_PEERS_PER_TICK, MAX_LEARNED_PEERS_PER_TICK, MAX_SYNC_BATCH,
        MAX_BATCHES_PER_PASS} \subseteq Nat \ {0}
    /\ {MaxHeight, MaxFaults} \subseteq Nat

VARIABLES
    peers,     \* [Nodes -> Seq(Addresses)]
    top,       \* [Nodes -> height of its tip]
    task,      \* [Nodes -> where its tick is]
    saved,     \* [Nodes -> snapshot on disk]
    faults     \* lost requests, lost answers and crashes so far

syncVars == <<peers, top, task, saved, faults>>

Idle == [at |-> "idle"]

\* persist_state: one snapshot, taken under all locks.
Snapshot(n) == [peers |-> peers[n], tip |-> top[n]]

Add(list, a) == IF a \in ToSet(list) THEN list ELSE Append(list, a)
AddAll(list, more) ==
    Folded([a \in Addresses |-> [l \in Seq(Addresses) |-> Add(l, a)]], list, more)

Taken(list, k) == SubSeq(list, 1, Min({k, Len(list)}))

\* Some of `requests` fail.
Losing(requests, arrived) ==
    /\ faults + Cardinality(requests \ arrived) <= MaxFaults
    /\ faults' = faults + Cardinality(requests \ arrived)

-----------------------------------------------------------------------------
(* Announcing and learning                                                 *)

\* tick: announce_and_discover takes the first of the peers it knows.
StartTick(n) ==
    /\ n \in Syncing
    /\ task[n] = Idle
    /\ peers[n] # <<>>
    /\ task' = [task EXCEPT ![n] = [at |-> "ask", known |-> peers[n], learned |-> <<>>,
                                    left |-> Taken(peers[n], MAX_PEERS_PER_TICK)]]
    /\ UNCHANGED <<peers, top, saved, faults>>

\* Mutant of KeepsOut: a node adds its own address.
KeepsOut_NotItself(n, known, a) == a \in ToSet(known)

\* Addresses n does not learn: its own, if it knows it, and those it has.
KeepsOut(n, known, a) == a \in ToSet(known) \/ (n \in Announcing /\ a = n)

Learn(n, known, learned, theirs) ==
    Folded([a \in Addresses |->
               [l \in Seq(Addresses) |-> IF KeepsOut(n, known, a) THEN l ELSE Add(l, a)]],
           learned, Taken(theirs, MAX_LEARNED_PEERS_PER_TICK))

\* announce_self, which the peer's PeerAnnounce handler adds, then fetch_peers.
Ask(n, arrived) ==
    /\ task[n].at = "ask"
    /\ task[n].left # <<>>
    /\ LET p == Head(task[n].left)
           told == p \in Nodes /\ n \in Announcing /\ "announce" \in arrived
           heard == p \in Nodes /\ "answer" \in arrived
       IN  /\ peers' = IF told THEN [peers EXCEPT ![p] = Add(@, n)] ELSE peers
           /\ task' = [task EXCEPT
                 ![n].left = Tail(@),
                 ![n].learned = IF heard THEN Learn(n, task[n].known, @, peers'[p]) ELSE @]
    /\ Losing({"announce", "answer"}, arrived)
    /\ UNCHANGED <<top, saved>>

\* Mutant of Merged: what was learned goes to the end of the list unseen.
Merged_Appended(list, learned) == list \o learned

\* What was learned is compared with the list again: it may have changed.
Merged(list, learned) == AddAll(list, learned)

\* The learned peers are added, catch_up reads the list and our tip.  No snapshot
\* is written.
Merge(n) ==
    /\ task[n].at = "ask"
    /\ task[n].left = <<>>
    /\ peers' = [peers EXCEPT ![n] = Merged(@, task[n].learned)]
    /\ task' = [task EXCEPT ![n] = [at |-> "poll", ours |-> top[n], best |-> <<>>,
                                    left |-> Taken(peers'[n], MAX_PEERS_PER_TICK)]]
    /\ UNCHANGED <<top, saved, faults>>

-----------------------------------------------------------------------------
(* Catching up                                                             *)

\* Mutant of SameNetwork: only the chain id is compared.
SameNetwork_ById(n, p) == TRUE

\* same_network: the same root, at the same height.
SameNetwork(n, p) == Root[n] = Root[p]

\* Mutant of Better: the first peer that answers.
Better_First(height, best) == best = <<>>

\* The highest head wins, the first of equal ones.
Better(height, best) == best = <<>> \/ height > best[1].height

\* fetch_head
Poll(n, arrived) ==
    /\ task[n].at = "poll"
    /\ task[n].left # <<>>
    /\ LET p == Head(task[n].left)
       IN  task' = [task EXCEPT
              ![n].left = Tail(@),
              ![n].best = IF p \in Nodes /\ arrived # {} /\ SameNetwork(n, p) /\ Better(top[p], @)
                          THEN <<[peer |-> p, height |-> top[p]]>> ELSE @]
    /\ Losing({"head"}, arrived)
    /\ UNCHANGED <<peers, top, saved>>

\* Only the best peer is asked for blocks, and only if it is ahead.
Choose(n) ==
    /\ task[n].at = "poll"
    /\ task[n].left = <<>>
    /\ task' = [task EXCEPT ![n] =
                   IF @.best # <<>> /\ @.best[1].height > @.ours
                   THEN [at |-> "fetch", peer |-> @.best[1].peer, target |-> @.best[1].height,
                         passes |-> 0]
                   ELSE Idle]
    /\ UNCHANGED <<peers, top, saved, faults>>

\* fetch_blocks_from, without the chain lock; blocks_from of the peer.
Fetch(n, arrived) ==
    /\ task[n].at = "fetch"
    /\ LET p == task[n].peer
           from == top[n] + 1
           upto == Min({top[n] + MAX_SYNC_BATCH, top[p]})
       IN  IF /\ task[n].passes < MAX_BATCHES_PER_PASS
              /\ from <= task[n].target
              /\ arrived # {}
              /\ from >= Root[p] /\ from <= upto
           THEN task' = [task EXCEPT ![n] = [at |-> "apply", peer |-> p, target |-> @.target,
                                             passes |-> @.passes + 1, from |-> from, upto |-> upto]]
           ELSE task' = [task EXCEPT ![n] = Idle]
    /\ Losing({"blocks"}, arrived)
    /\ UNCHANGED <<peers, top, saved>>

\* The loop of download_from after a batch.
NextPass(t) == [at |-> "fetch", peer |-> t.peer, target |-> t.target, passes |-> t.passes]

\* Mutant of Apply: the batch is put where it was asked for.
Apply_Blind(n, arrived) ==
    /\ task[n].at = "apply"
    /\ top' = [top EXCEPT ![n] = task[n].upto]
    /\ task' = [task EXCEPT ![n] = [at |-> "save", then |-> NextPass(@)]]
    /\ Losing({"chain"}, arrived)
    /\ UNCHANGED <<peers, saved>>

\* The batch is validated block by block on the tip of now, and committed.  If the
\* first does not fit any more, the whole chain of the peer goes to fork choice.
Apply(n, arrived) ==
    /\ task[n].at = "apply"
    /\ LET p == task[n].peer
           fits == top[n] + 1 = task[n].from
           reached == IF fits THEN task[n].upto
                      ELSE IF arrived # {} THEN Max({top[n], top[p]}) ELSE top[n]
       IN  /\ top' = [top EXCEPT ![n] = reached]
           /\ task' = [task EXCEPT ![n] =
                          IF reached = top[n] THEN Idle
                          ELSE [at |-> "save", then |-> IF fits THEN NextPass(@) ELSE Idle]]
    /\ Losing({"chain"}, arrived)
    /\ UNCHANGED <<peers, saved>>

\* prune_and_persist, before the next batch.
Save(n) ==
    /\ task[n].at = "save"
    /\ saved' = [saved EXCEPT ![n] = Snapshot(n)]
    /\ task' = [task EXCEPT ![n] = @.then]
    /\ UNCHANGED <<peers, top, faults>>

-----------------------------------------------------------------------------
(* Blocks, crashes                                                         *)

\* A block is sealed on the producer's tip.
Produce ==
    /\ top[Producer] < MaxHeight
    /\ top' = [top EXCEPT ![Producer] = @ + 1]
    /\ UNCHANGED <<peers, task, saved, faults>>

\* The handlers that change the chain or the list persist both some time later,
\* and so do many others.
Persist(n) ==
    /\ saved' = [saved EXCEPT ![n] = Snapshot(n)]
    /\ UNCHANGED <<peers, top, task, faults>>

\* The producer gossips a block once it is saved, to the nodes its list names; it
\* extends the chain of one whose tip is its parent.
Gossip(n) ==
    /\ n \in ToSet(peers[Producer]) /\ n # Producer
    /\ top[n] + 1 <= saved[Producer].tip
    /\ top' = [top EXCEPT ![n] = @ + 1]
    /\ UNCHANGED <<peers, task, saved, faults>>

\* No node has, or is about to commit, a block the producer has not saved.
NobodyAhead ==
    \A m \in Nodes \ {Producer} :
        /\ top[m] <= saved[Producer].tip
        /\ task[m].at = "apply" => task[m].upto <= saved[Producer].tip

\* The process dies, with what it had not saved; main loads the snapshot and adds
\* the bootnodes.  Bound: a block that is lost was nowhere else, or another one of
\* its height would fork the chain.
Restart(n) ==
    /\ faults < MaxFaults
    /\ n = Producer => NobodyAhead
    /\ faults' = faults + 1
    /\ peers' = [peers EXCEPT ![n] = AddAll(saved[n].peers, Bootnodes[n])]
    /\ top' = [top EXCEPT ![n] = saved[n].tip]
    /\ task' = [task EXCEPT ![n] = Idle]
    /\ UNCHANGED saved

SyncInit ==
    /\ peers = Bootnodes
    /\ top = [n \in Nodes |-> IF n = Producer THEN Max(Range(Root)) ELSE Root[n]]
    /\ task = [n \in Nodes |-> Idle]
    /\ saved = [n \in Nodes |-> [peers |-> <<>>, tip |-> top[n]]]
    /\ faults = 0

TickStep(n) ==
    \/ StartTick(n)
    \/ \E arrived \in SUBSET {"announce", "answer"} : Ask(n, arrived)
    \/ Merge(n)
    \/ \E arrived \in SUBSET {"head"} : Poll(n, arrived)
    \/ Choose(n)
    \/ \E arrived \in SUBSET {"blocks"} : Fetch(n, arrived)
    \/ \E arrived \in SUBSET {"chain"} : Apply(n, arrived)
    \/ Save(n)

SyncNext ==
    \/ \E n \in Nodes : TickStep(n) \/ Gossip(n)
    \/ \E n \in Crashing : Persist(n) \/ Restart(n)
    \/ Produce

\* Every worker runs for ever, and the producer keeps sealing.  Gossip is
\* best effort, and nothing depends on when a handler persists.
Fairness ==
    /\ \A n \in Nodes : WF_syncVars(TickStep(n))
    /\ WF_syncVars(Produce)

SyncSpec == SyncInit /\ [][SyncNext]_syncVars /\ Fairness

-----------------------------------------------------------------------------

TypeOK ==
    /\ peers \in [Nodes -> Seq(Addresses)]
    /\ \A n \in Nodes : top[n] \in Root[n] .. MaxHeight /\ saved[n].tip <= top[n]
    /\ faults \in 0 .. MaxFaults

\* A list never holds an address twice nor, on a node that knows its own, that
\* one, although announcements arrive while the node learns: each such entry
\* would use up one of the places a tick has.
PeerListsStayClean ==
    \A n \in Nodes : IsInjective(peers[n]) /\ (n \in Announcing => n \notin ToSet(peers[n]))

\* sync.rs:35, "one that falls behind later recovers the same way": with nobody
\* gossiping, after lost requests and crashes that lose what was not saved, every
\* node that syncs and has the producer's root ends on the producer's tip.
EveryoneCatchesUp ==
    \A n \in Syncing \cup {Producer} :
        Root[n] = Root[Producer] => <>[](top[n] = MaxHeight)
=============================================================================
