--------------------------- MODULE LeaderRotation ---------------------------
(***************************************************************************)
(* Whose turn it is to seal a block, and when: proof of stake selection,   *)
(* slot timeouts, timestamps and clock skew (src/src/blockchain/chain.rs,  *)
(* src/src/consensus/pos.rs and vrf.rs, plan_block and mine_block of       *)
(* src/src/api/routes.rs).                                                 *)
(*                                                                         *)
(* Time.  A tick is a common divisor of the timeout and the skew.  No      *)
(* timestamp is kept: `age` is the true time since a tip's timestamp, which*)
(* is below zero while the timestamp is in the future.  Node n's clock runs*)
(* Skew[n] ahead of true time.                                             *)
(*                                                                         *)
(* Selection.  The leader of a round is a hash of the beacon and the round,*)
(* weighted by stake: with replacement, and any assignment of rounds to    *)
(* registered validators can come up.  A block may empty the validator set.*)
(* Signatures, work and execution of a block hold (ChainState, Mempool).   *)
(***************************************************************************)
EXTENDS Integers, Sequences, SequencesExt, FiniteSetsExt

CONSTANTS
    Nodes,
    Validators,
    Producers,        \* [Nodes -> validators that seal through the node: its own
                      \*  key, or external ones over propose and submit]
    Skew,             \* [Nodes -> Int]
    SLOT_TIMEOUT,     \* SLOT_TIMEOUT_SECONDS in ticks
    MAX_SLOT_ROUNDS,
    MAX_SKEW,         \* MAX_TIMESTAMP_SKEW_SECONDS in ticks
    Heavier(_, _),    \* of two equally high chains, the first carries more work
    Draws,            \* bound: the leaders of the rounds that can come up
    MaxWork,          \* bound: ticks a block can be worked on
    MaxHeight         \* bound: height of a chain

ASSUME RotationAssumption ==
    /\ IsFiniteSet(Nodes)
    /\ Producers \in [Nodes -> SUBSET Validators]
    /\ \A n, m \in Nodes : n # m => Producers[n] \cap Producers[m] = {}
    /\ Skew \in [Nodes -> Int]
    /\ SLOT_TIMEOUT \in Nat \ {0}
    /\ MAX_SLOT_ROUNDS \in Nat
    /\ MAX_SKEW \in Nat
    /\ Draws \subseteq [0 .. MAX_SLOT_ROUNDS -> Validators] \cup {[r \in {} |-> r]}
    /\ MaxWork \in Nat
    /\ MaxHeight \in Nat

Rounds == 0 .. MAX_SLOT_ROUNDS

\* No validator has stake.
NobodyLeads == [r \in {} |-> r]

\* A block: its validator, the round its VRF proof is for, and how long after
\* its parent it is stamped.
Block == [by : Validators, round : Rounds, elapsed : Nat]

NoPlan == [on |-> <<>>, by |-> "nobody", round |-> 0, busy |-> -1]

\* Older than this, all ages open the same rounds.
OldAge == MAX_SLOT_ROUNDS * SLOT_TIMEOUT + MaxWork + Max({0} \cup {-Skew[n] : n \in Nodes})

VARIABLES
    chain,   \* [Nodes -> Seq(Block)], blocks above genesis
    plan,    \* [Nodes -> block that is worked on, and for how long]
    age,     \* [sealed chains -> Int], true time since the tip's timestamp
    draw     \* [sealed chains -> Draws], leaders of the block on top of it

vars == <<chain, plan, age, draw>>

Sealed == DOMAIN age

-----------------------------------------------------------------------------

\* Mutant of OpenRounds: the last round never opens.
OpenRounds_CapExclusive(elapsed) ==
    IF elapsed <= 0 THEN 0 ELSE Min({elapsed \div SLOT_TIMEOUT, MAX_SLOT_ROUNDS - 1})

\* open_rounds
OpenRounds(elapsed) ==
    IF elapsed <= 0 THEN 0 ELSE Min({elapsed \div SLOT_TIMEOUT, MAX_SLOT_ROUNDS})

\* The open rounds that draw v on top of c.
Turns(c, v, elapsed) ==
    {r \in 0 .. OpenRounds(elapsed) : r \in DOMAIN draw[c] /\ draw[c][r] = v}

\* Mutant of SlotOf: the newest open round that draws v.
SlotOf_Newest(c, v, elapsed) == Max(Turns(c, v, elapsed))

\* The slot of v: the smallest open round that draws it, for producers by their
\* clock (eligible_slot_for, open_leaders), for validation by the timestamp.
SlotOf(c, v, elapsed) == Min(Turns(c, v, elapsed))

\* What n's clock shows since the timestamp of c's tip.
Elapsed(n, c) == age[c] + Skew[n]

\* validate_block_at, for the block b on top of c.
ValidOn(c, b) ==
    /\ Turns(c, b.by, b.elapsed) # {}
    /\ b.round = SlotOf(c, b.by, b.elapsed)

\* Mutant of TooFarAhead: timestamps are not compared with the clock.
TooFarAhead_Never(n, c) == FALSE

\* The timestamp of c's tip is too far in the future for n's clock.
TooFarAhead(n, c) == Elapsed(n, c) < -MAX_SKEW

\* A block never predates its parent.
InOrder(since) == since >= 0

-----------------------------------------------------------------------------

\* Time passes; a block is not worked on for longer than MaxWork.
Tick ==
    /\ \A n \in Nodes : plan[n].busy < MaxWork
    /\ age' = [c \in Sealed |-> Min({age[c] + 1, OldAge})]
    /\ plan' = [n \in Nodes |->
                   IF plan[n] = NoPlan THEN NoPlan ELSE [plan[n] EXCEPT !.busy = @ + 1]]
    /\ UNCHANGED <<chain, draw>>

\* plan_block for a leader of an open round, by the clock of n.
Plan(n, v) ==
    /\ plan[n] = NoPlan
    /\ v \in Producers[n]
    /\ Len(chain[n]) < MaxHeight
    /\ Turns(chain[n], v, Elapsed(n, chain[n])) # {}
    /\ plan' = [plan EXCEPT ![n] =
                   [on |-> chain[n], by |-> v, busy |-> 0,
                    round |-> SlotOf(chain[n], v, Elapsed(n, chain[n]))]]
    /\ UNCHANGED <<chain, age, draw>>

\* The timestamp of the block n works on, if it was stamped `late` ticks ago,
\* and the block.
Since(n, late) == Elapsed(n, plan[n].on) - late
Built(n, late) ==
    [by |-> plan[n].by, round |-> plan[n].round, elapsed |-> Min({Since(n, late), OldAge})]

\* The block was stamped `late` ticks ago, some time after it was planned.  It is
\* sealed for the planned round, and committed if the tip is still the same and
\* it is not stamped before its parent (mine_block; propose_block and
\* submit_block for a validator elsewhere).  Its VRF output draws the leaders of
\* the next block, and its transactions change the validator set.
Seal(n, late, leaders) ==
    /\ plan[n] # NoPlan
    /\ late <= plan[n].busy
    /\ leaders = NobodyLeads \/ Len(plan[n].on) + 1 < MaxHeight    \* bound: no block follows
    /\ LET c == Append(plan[n].on, Built(n, late))
       IN  IF chain[n] = plan[n].on /\ InOrder(Since(n, late)) /\ ValidOn(chain[n], Last(c))
           THEN /\ chain' = [chain EXCEPT ![n] = c]
                /\ age' = [x \in Sealed \cup {c} |-> IF x = c THEN late - Skew[n] ELSE age[x]]
                /\ draw' = [x \in Sealed \cup {c} |-> IF x = c THEN leaders ELSE draw[x]]
           ELSE UNCHANGED <<chain, age, draw>>
    /\ plan' = [plan EXCEPT ![n] = NoPlan]

\* validate_block_candidate: the block of c extends our tip.
Acceptable(n, c) == ~TooFarAhead(n, c) /\ ValidOn(Front(c), Last(c))

Receive(n, c) ==
    /\ c # <<>> /\ Front(c) = chain[n]
    /\ Acceptable(n, c)
    /\ chain' = [chain EXCEPT ![n] = c]
    /\ UNCHANGED <<plan, age, draw>>

\* try_adopt_chain of a higher chain, or a heavier one of the same height: only
\* the tip meets the clock.
Adopt(n, c) ==
    /\ c # chain[n]
    /\ Len(c) > Len(chain[n]) \/ (Len(c) = Len(chain[n]) /\ Heavier(c, chain[n]))
    /\ ~TooFarAhead(n, c)
    /\ \A i \in 1 .. Len(c) : ValidOn(SubSeq(c, 1, i - 1), c[i])
    /\ chain' = [chain EXCEPT ![n] = c]
    /\ UNCHANGED <<plan, age, draw>>

Init ==
    /\ chain = [n \in Nodes |-> <<>>]
    /\ plan = [n \in Nodes |-> NoPlan]
    /\ age = [c \in {<<>>} |-> 0]
    /\ \E leaders \in Draws : draw = [c \in {<<>>} |-> leaders]

Next ==
    \/ Tick
    \/ \E n \in Nodes, v \in Validators : Plan(n, v)
    \/ \E n \in Nodes, late \in 0 .. MaxWork, leaders \in Draws \cup {NobodyLeads} : Seal(n, late, leaders)
    \/ \E n \in Nodes, c \in Sealed : Receive(n, c) \/ Adopt(n, c)

\* Clocks run, producers that are up poll for their turn and finish their work,
\* and what is sealed reaches everybody.
Fairness ==
    /\ WF_vars(Tick)
    /\ \A n \in Nodes :
          /\ \A v \in Validators : WF_vars(Plan(n, v))
          /\ WF_vars(\E late \in 0 .. MaxWork, leaders \in Draws \cup {NobodyLeads} : Seal(n, late, leaders))
          /\ WF_vars(\E c \in Sealed : Receive(n, c) \/ Adopt(n, c))

Spec == Init /\ [][Next]_vars /\ Fairness

-----------------------------------------------------------------------------

\* The slot a producer planned for is still its slot when the block is stamped and
\* validated, however many rounds opened in between: work on a tip that stays is
\* never in vain, unless the producer's clock is behind the parent's timestamp.
PlannedSlotHolds ==
    \A n \in Nodes : \A late \in 0 .. plan[n].busy :
        chain[n] = plan[n].on /\ InOrder(Since(n, late)) => ValidOn(chain[n], Built(n, late))

\* chain.rs:1057, "A fork cannot claim time that has not passed": a fallback
\* leader of round r enters a node's chain no sooner than r timeouts after the
\* parent's timestamp, but for the tolerance, on that node's clock.
NoEarlyFallback ==
    [][\A n \in Nodes :
          chain'[n] # chain[n] =>
              Elapsed(n, Front(chain'[n])) >= Last(chain'[n]).round * SLOT_TIMEOUT - MAX_SKEW]_vars

\* No node has a validator of its own among the leaders on its tip.
Stalled ==
    \A n \in Nodes :
        \A r \in DOMAIN draw[chain[n]] : draw[chain[n]][r] \notin Producers[n]

\* Validators that are down, skewed clocks and blocks that lost a race delay the
\* chain and never stop it, unless from some point on no node ever has a leader
\* again, whatever is delivered to it: MAX_SLOT_ROUNDS rounds are all there are,
\* the validator set may be empty, and of two equally heavy forks each may wait
\* for the other's producer.
BlocksKeepComing ==
    \A n \in Nodes : <>(Len(chain[n]) = MaxHeight) \/ <>[]Stalled
=============================================================================
