----------------------------- MODULE FeeMarket ------------------------------
(***************************************************************************)
(* What the ledger promises about the base fee: transactions pay into a    *)
(* block one after the other, and closing the block moves the fee by how   *)
(* many did.  ChainState keeps no such counter: it divides the pot of the  *)
(* block by the fee, and Market in ChainState maps it to this module.      *)
(***************************************************************************)
EXTENDS Fees

VARIABLES
    base_fee,
    paying       \* transactions that paid in the block that is executed

vars == <<base_fee, paying>>

Init == base_fee = TX_FEE /\ paying = 0

\* A transaction pays the fee; validate_block_at accepts any number of them.
Pay == paying' = paying + 1 /\ UNCHANGED base_fee

\* end_block
Close == base_fee' = next_base_fee(base_fee, paying) /\ paying' = 0

Next == Pay \/ Close

Spec == Init /\ [][Next]_vars

-----------------------------------------------------------------------------

\* The fee never leaves [TX_FEE, BASE_FEE_MAX] (state.rs, "bounded to").
FeeBounded == base_fee \in TX_FEE .. BASE_FEE_MAX /\ paying \in Nat

\* Congestion always raises the fee until the ceiling and a quiet block always
\* lowers it until the floor: rounding never leaves it stuck in between.  A step
\* that leaves no payment behind closes a block.
FeeFollowsDemand ==
    [][paying' = 0 =>
       /\ paying > BASE_FEE_TARGET_TXS => base_fee' > base_fee \/ base_fee' = BASE_FEE_MAX
       /\ paying < BASE_FEE_TARGET_TXS => base_fee' < base_fee \/ base_fee' = TX_FEE
       /\ paying = BASE_FEE_TARGET_TXS => base_fee' = base_fee]_vars

\* A step of at most one eighth of the fee, or of one unit.
AtMostAnEighth ==
    /\ base_fee' - base_fee <= AtLeastOne(base_fee \div 8)
    /\ base_fee - base_fee' <= AtLeastOne(base_fee \div 8)

\* Blocks of up to twice the target, the size this program builds at most
\* (MAX_BLOCK_TXS), move the fee by at most an eighth.
OwnBlocksStepAnEighth ==
    [][paying <= 2 * BASE_FEE_TARGET_TXS => AtMostAnEighth]_vars
=============================================================================
