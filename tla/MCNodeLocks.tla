---------------------------- MODULE MCNodeLocks -----------------------------
(***************************************************************************)
(* Small instances of NodeLocks for TLC.                                   *)
(***************************************************************************)
EXTENDS NodeLocks

\* Every request but those that lock the pool before the chain.
MCOrdered == DOMAIN Script \ Inverted

MCWithMining == Inverted \cup {"queue_transaction"}
=============================================================================
