---------------------------- MODULE MCForkChoice ----------------------------
(***************************************************************************)
(* Small instances of ForkChoice for TLC.                                  *)
(***************************************************************************)
EXTENDS ForkChoice

CONSTANTS n1, n2

MCNodes == {n1, n2}

\* The blocks of one node carry more work, so forks of one length differ in it.
MCWorks == [n \in MCNodes |-> IF n = n1 THEN {1} ELSE {3}]

MCEqualWorks == [n \in MCNodes |-> {1}]
=============================================================================
