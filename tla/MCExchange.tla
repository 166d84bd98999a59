----------------------------- MODULE MCExchange -----------------------------
(***************************************************************************)
(* Small instances of Exchange for TLC.                                    *)
(***************************************************************************)
EXTENDS Exchange, TLC

\* isqrt_u128 is the floor of the square root.
ASSUME IsqrtIsFloor == \A n \in 0 .. 400 : Isqrt(n) * Isqrt(n) <= n /\ n < (Isqrt(n) + 1) * (Isqrt(n) + 1)

MCUserSymmetry == Permutations(Users)
=============================================================================
