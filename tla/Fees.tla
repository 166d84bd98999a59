-------------------------------- MODULE Fees --------------------------------
(***************************************************************************)
(* The fee market of src/src/blockchain/state.rs: the base fee of the next *)
(* block as a function of the last one's fee and fee-paying transactions.  *)
(***************************************************************************)
EXTENDS Coins

CONSTANTS
    TX_FEE,               \* floor of the base fee
    BASE_FEE_MAX,         \* its ceiling
    BASE_FEE_TARGET_TXS   \* fee-paying transactions of an uncongested block

ASSUME FeesAssumption ==
    /\ TX_FEE \in Nat \ {0}
    /\ BASE_FEE_MAX \in Nat
    /\ TX_FEE <= BASE_FEE_MAX
    /\ BASE_FEE_TARGET_TXS \in Nat \ {0}

\* u64::clamp(TX_FEE, BASE_FEE_MAX)
Clamp(fee) == IF fee < TX_FEE THEN TX_FEE ELSE Least(fee, BASE_FEE_MAX)

AtLeastOne(x) == IF x = 0 THEN 1 ELSE x

\* Mutant of Step: a step that rounds to nothing is none.
Step_RoundsDown(current, distance) == ((current \div 8) * distance) \div BASE_FEE_TARGET_TXS

\* How far a block that is `distance` transactions off the target moves the fee.
Step(current, distance) ==
    AtLeastOne((AtLeastOne(current \div 8) * distance) \div BASE_FEE_TARGET_TXS)

\* The base fee after a block with n fee-paying transactions.
next_base_fee(current, n) ==
    Clamp(IF n = BASE_FEE_TARGET_TXS THEN current
          ELSE IF n > BASE_FEE_TARGET_TXS THEN current + Step(current, n - BASE_FEE_TARGET_TXS)
          ELSE Minus(current, Step(current, BASE_FEE_TARGET_TXS - n)))
=============================================================================
