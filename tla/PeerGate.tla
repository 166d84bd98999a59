------------------------------ MODULE PeerGate ------------------------------
(***************************************************************************)
(* What one node does with the envelopes its peers send: structural and    *)
(* freshness checks, reputation and bans, the replay cache, and the        *)
(* verdict on the payload that earns a reward or a penalty                 *)
(* (src/src/p2p/protocol.rs, src/src/p2p/peerbook.rs and                   *)
(* receive_protocol_message of src/src/api/routes.rs).                     *)
(*                                                                         *)
(* A sender retries an envelope it got no answer for, and anybody may send *)
(* a copy: every envelope arrives any number of times, in any order.       *)
(* Handlers of several envelopes run at once.                              *)
(*                                                                         *)
(* The chain is its height: block k of it carries payment k.  Blocks also  *)
(* come from elsewhere (download, mining, the ungated /p2p/block).  The    *)
(* allow-list is empty, tokens and signatures are good.                    *)
(***************************************************************************)
EXTENDS Integers, Sequences, SequencesExt, FiniteSets, FiniteSetsExt

CONSTANTS
    Peers,
    Envelopes,
    From,            \* [Envelopes -> Peers], node_id
    Says,            \* [Envelopes -> Messages]
    Honest,          \* peers that relay our chain, with envelopes still fresh
    CAPACITY,        \* of the replay cache
    INITIAL_SCORE, BAN_THRESHOLD, GOOD_DELTA, BAD_DELTA, SCORE_MIN, SCORE_MAX,
    BAN_TIME,        \* BAN_SECONDS in ticks
    MaxTip,          \* bound: height of the chain
    MaxHandlers      \* bound: envelopes handled at once

\* Ping stands for PeerAnnounce too.  A garbled envelope fails validation, junk
\* is a transaction or block that no ledger takes, a sibling is a block of a
\* fork that is stamped before our tip or carries another difficulty.
Messages == [kind : {"garbled", "ping", "junk", "payment", "block", "sibling"}, number : Nat]

ASSUME PeerGateAssumption ==
    /\ From \in [Envelopes -> Peers]
    /\ Says \in [Envelopes -> Messages]
    /\ Honest \subseteq Peers
    /\ \A e \in Envelopes : From[e] \in Honest => Says[e].kind \in {"ping", "block"}
    /\ CAPACITY \in Nat \ {0}
    /\ {BAN_TIME, MaxTip, MaxHandlers} \subseteq Nat \ {0}

\* A newcomer and a peer after its ban are one offence away from nothing.
ASSUME ScoresAssumption ==
    /\ {INITIAL_SCORE, BAN_THRESHOLD, GOOD_DELTA, BAD_DELTA, SCORE_MIN, SCORE_MAX} \subseteq Int
    /\ GOOD_DELTA > 0 /\ BAD_DELTA < 0
    /\ SCORE_MIN <= INITIAL_SCORE /\ INITIAL_SCORE <= SCORE_MAX
    /\ SCORE_MIN <= BAN_THRESHOLD \div 2 /\ BAN_THRESHOLD \div 2 <= SCORE_MAX
    /\ INITIAL_SCORE + BAD_DELTA > BAN_THRESHOLD
    /\ (BAN_THRESHOLD \div 2) + BAD_DELTA > BAN_THRESHOLD

VARIABLES
    score,       \* [Peers -> Int]
    banned,      \* [Peers -> Nat], ticks until the ban expires
    seen,        \* Seq(Envelopes), the replay cache, oldest first
    inside,      \* envelopes that passed the gate and whose payload is handled
    stale,       \* envelopes stamped too long ago for our clock
    tip,         \* height of our chain
    pool,        \* numbers of the queued payments
    struck,      \* observer: [Peers -> penalised since the last ban?]
    since        \* observer: [Envelopes -> admissions since this one's, Never before it]

book == <<score, banned, struck>>
ledger == <<tip, pool>>
vars == <<book, seen, inside, stale, ledger, since>>

Never == -1

-----------------------------------------------------------------------------
(* Reputation                                                              *)

\* is_accepted
Accepted(p) == banned[p] = 0

\* record_good
RecordGood(p) ==
    /\ score' = [score EXCEPT ![p] = Min({@ + GOOD_DELTA, SCORE_MAX})]
    /\ UNCHANGED <<banned, struck>>

Lowered(p) == Max({score[p] + BAD_DELTA, SCORE_MIN})

\* Mutant of RecordBad: the score is not reset at a ban.
RecordBad_KeepsScore(p) ==
    LET ban == Lowered(p) <= BAN_THRESHOLD /\ Accepted(p)
    IN  /\ score' = [score EXCEPT ![p] = Lowered(p)]
        /\ banned' = [banned EXCEPT ![p] = IF ban THEN BAN_TIME ELSE @]
        /\ struck' = [struck EXCEPT ![p] = ~ban]

\* Mutant of RecordBad: a peer that misbehaves while it is banned starts over.
RecordBad_Extends(p) ==
    LET ban == Lowered(p) <= BAN_THRESHOLD
    IN  /\ score' = [score EXCEPT ![p] = Lowered(p)]
        /\ banned' = [banned EXCEPT ![p] = IF ban THEN BAN_TIME ELSE @]
        /\ struck' = [struck EXCEPT ![p] = ~ban]

\* record_bad
RecordBad(p) ==
    LET ban == Lowered(p) <= BAN_THRESHOLD /\ Accepted(p)
    IN  /\ score' = [score EXCEPT ![p] = IF ban THEN BAN_THRESHOLD \div 2 ELSE Lowered(p)]
        /\ banned' = [banned EXCEPT ![p] = IF ban THEN BAN_TIME ELSE @]
        /\ struck' = [struck EXCEPT ![p] = ~ban]

-----------------------------------------------------------------------------
(* The gate                                                                *)

\* Mutant of Insert: room is made before it is known that the envelope is new.
Insert_EvictsFirst(e) ==
    LET room == IF Len(seen) >= CAPACITY THEN Tail(seen) ELSE seen
    IN  IF e \in ToSet(room) THEN room ELSE Append(room, e)

\* SeenMessageCache::insert: the oldest makes room for a new one.
Insert(e) ==
    IF e \in ToSet(seen) THEN seen
    ELSE Append(IF Len(seen) >= CAPACITY THEN Tail(seen) ELSE seen, e)

\* validate_with_identity fails: misbehaviour, banned or not.
Refuse(e) ==
    /\ Says[e].kind = "garbled" \/ e \in stale
    /\ RecordBad(From[e])
    /\ UNCHANGED <<seen, inside, stale, ledger, since>>

\* Mutant of Replay: a duplicate counts as misbehaviour, as the comment on
\* BAD_DELTA has it.
Replay_Penalised(e) ==
    /\ e \in ToSet(seen) /\ e \notin stale /\ Accepted(From[e])
    /\ seen' = Insert(e)
    /\ RecordBad(From[e])
    /\ UNCHANGED <<inside, stale, ledger, since>>

\* A duplicate is answered with an error, and that is all.
Replay(e) ==
    /\ e \in ToSet(seen) /\ e \notin stale /\ Accepted(From[e])
    /\ seen' = Insert(e)
    /\ UNCHANGED <<book, inside, stale, ledger, since>>

\* The envelope is well-formed and fresh, its sender not banned, and its id new.
Admit(e) ==
    /\ Says[e].kind # "garbled" /\ e \notin stale
    /\ Accepted(From[e])
    /\ e \notin ToSet(seen) /\ seen' = Insert(e)
    /\ Cardinality(inside) < MaxHandlers /\ e \notin inside    \* bound
    /\ inside' = inside \cup {e}
    /\ since' = [f \in Envelopes |->
                    IF f = e THEN 0
                    ELSE IF since[f] = Never THEN Never ELSE Min({since[f] + 1, CAPACITY})]
    /\ UNCHANGED <<book, stale, ledger>>

-----------------------------------------------------------------------------
(* The payload                                                             *)

\* A block is committed and the pool is pruned.
Commit(height) ==
    /\ tip' = height
    /\ pool' = {k \in pool : k > height}

\* The nonces of the chain and the pool let payment k in next.
Applicable(k) == k = tip + Cardinality(pool) + 1

JudgePayment(p, k) ==
    \/ k \in pool /\ UNCHANGED <<book, ledger>>
    \/ k \notin pool /\ Applicable(k) /\ pool' = pool \cup {k} /\ RecordGood(p) /\ UNCHANGED tip
    \/ k \notin pool /\ ~Applicable(k) /\ RecordBad(p) /\ UNCHANGED ledger

\* A block that does not extend our tip starts a synchronisation instead.
JudgeBlock(p, k) ==
    \/ k = tip + 1 /\ Commit(k) /\ RecordGood(p)
    \/ k # tip + 1 /\ UNCHANGED <<book, ledger>>

\* validate_block_at looks at the index, then at timestamp and difficulty, and
\* only then at the previous hash.
JudgeSibling(p, k) ==
    /\ IF k = tip + 1 THEN RecordBad(p) ELSE UNCHANGED book
    /\ UNCHANGED ledger

\* The handler ends.  The verdict and the entry it makes in the peer book are
\* under different locks, and nothing reads both.
Judge(e) ==
    /\ e \in inside
    /\ inside' = inside \ {e}
    /\ \/ Says[e].kind = "ping" /\ UNCHANGED <<book, ledger>>
       \/ Says[e].kind = "junk" /\ RecordBad(From[e]) /\ UNCHANGED ledger
       \/ Says[e].kind = "payment" /\ JudgePayment(From[e], Says[e].number)
       \/ Says[e].kind = "block" /\ JudgeBlock(From[e], Says[e].number)
       \/ Says[e].kind = "sibling" /\ JudgeSibling(From[e], Says[e].number)
    /\ UNCHANGED <<seen, stale, since>>

-----------------------------------------------------------------------------

\* A block comes from elsewhere.
Advance ==
    /\ tip < MaxTip
    /\ Commit(tip + 1)
    /\ UNCHANGED <<book, seen, inside, stale, since>>

\* Bans run.
Tick ==
    /\ banned' = [p \in Peers |-> Max({banned[p] - 1, 0})]
    /\ UNCHANGED <<score, struck, seen, inside, stale, ledger, since>>

\* An envelope's timestamp leaves the tolerated skew.
Expire(e) ==
    /\ From[e] \notin Honest /\ Says[e].kind # "garbled"
    /\ stale' = stale \cup {e}
    /\ UNCHANGED <<book, seen, inside, ledger, since>>

Init ==
    /\ score = [p \in Peers |-> INITIAL_SCORE]
    /\ banned = [p \in Peers |-> 0]
    /\ seen = <<>>
    /\ inside = {}
    /\ stale = {}
    /\ tip = 0
    /\ pool = {}
    /\ struck = [p \in Peers |-> FALSE]
    /\ since = [e \in Envelopes |-> Never]

Next ==
    \/ \E e \in Envelopes : Refuse(e) \/ Replay(e) \/ Admit(e) \/ Judge(e) \/ Expire(e)
    \/ Advance
    \/ Tick

\* Time passes.
Spec == Init /\ [][Next]_vars /\ WF_vars(Tick)

-----------------------------------------------------------------------------

\* protocol.rs:10, "used to reject replayed P2P envelopes": the same envelope is
\* handled again only after as many others as the cache holds, however often,
\* in whatever order and beside what else copies of it arrive.
ReplayNeedsFlood ==
    [][\A e \in Envelopes :
          e \in inside' \ inside => since[e] \in {Never, CAPACITY}]_vars

\* No ban is for a single message: between two bans of a peer, and before the
\* first, it misbehaves at least twice.
BansAreEarned ==
    [][\A p \in Peers : banned'[p] > banned[p] => struck[p]]_vars

\* A ban runs out even if the peer keeps sending rubbish all the time.
EveryBanEnds == \A p \in Peers : banned[p] > 0 ~> banned[p] = 0

\* A peer that relays our chain and pings is never worse off for it, although its
\* blocks come late, twice and out of order, and its retries are replays.
RelayingIsFree == \A p \in Honest : score[p] >= INITIAL_SCORE
=============================================================================
