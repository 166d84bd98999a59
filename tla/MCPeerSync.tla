----------------------------- MODULE MCPeerSync -----------------------------
(***************************************************************************)
(* A small instance of PeerSync for TLC: a fresh node that knows only a    *)
(* pruned one and a dead address, the pruned node knows the producer, and  *)
(* the producer knows nobody and runs with P2P_SYNC_DISABLED.              *)
(***************************************************************************)
EXTENDS PeerSync

CONSTANTS producer, fresh, pruned, gone

MCNodes == {producer, fresh, pruned}
MCDeadPeers == {gone}
MCRoot == [n \in MCNodes |-> IF n = pruned THEN 2 ELSE 0]
MCBootnodes ==
    (producer :> <<>>) @@ (fresh :> <<pruned, gone>>) @@ (pruned :> <<producer>>)
=============================================================================
