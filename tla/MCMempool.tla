----------------------------- MODULE MCMempool ------------------------------
(***************************************************************************)
(* Small instances of Mempool for TLC.                                     *)
(***************************************************************************)
EXTENDS Mempool

CONSTANTS a, b, c

MCUsers == {a, b, c}
MCIds == 0 .. 4

Pays(id, from, to, amount, nonce) ==
    [id |-> id, from |-> from, to |-> to, amount |-> amount, nonce |-> nonce]

\* a can pay for any one of its transactions but not for all; two of them
\* compete for its first nonce.  b and c can pay only out of what a sends them,
\* and their transactions carry the same id.
MCTxs == {Pays(1, a, b, 1, 1), Pays(2, a, b, 4, 1), Pays(3, a, c, 3, 2),
          Pays(4, b, a, 1, 1), Pays(4, c, a, 1, 1)}

MCAnchors == {[id |-> 0, certificate |-> 1]}

MCFunds == [u \in MCUsers |-> IF u = a THEN 6 ELSE 1]
=============================================================================
