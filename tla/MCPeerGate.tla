----------------------------- MODULE MCPeerGate -----------------------------
(***************************************************************************)
(* A small instance of PeerGate for TLC: a peer that relays the chain and  *)
(* one that sends everything else.                                         *)
(***************************************************************************)
EXTENDS PeerGate

CONSTANTS honest, other, b1, b2, late, fork, junk, garbled

MCPeers == {honest, other}
MCHonest == {honest}
MCEnvelopes == {b1, b2, late, fork, junk, garbled}
MCFrom == [e \in MCEnvelopes |-> IF e \in {b1, b2} THEN honest ELSE other]

MCSays ==
    (b1 :> [kind |-> "block", number |-> 1]) @@
    (b2 :> [kind |-> "block", number |-> 2]) @@
    (late :> [kind |-> "payment", number |-> 1]) @@
    (fork :> [kind |-> "sibling", number |-> 2]) @@
    (junk :> [kind |-> "junk", number |-> 0]) @@
    (garbled :> [kind |-> "garbled", number |-> 0])

MCInitialScore == 0
MCBanThreshold == -10
MCBadDelta == -4
MCScoreMin == -18
=============================================================================
