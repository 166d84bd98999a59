------------------------------- MODULE Coins --------------------------------
(***************************************************************************)
(* Amounts are counted in indivisible units.  A function from holders to   *)
(* amounts is a set of coins: holder a with balance n owns the coins       *)
(* <<a, 1>> .. <<a, n>>.  What a group of holders owns together is the     *)
(* number of those coins, so conservation laws become facts about          *)
(* cardinalities (DataTheorems).                                          *)
(***************************************************************************)
EXTENDS Integers, FiniteSets

\* The coins that a function from holders to amounts stands for.
CoinsOf(f) == UNION {{a} \X (1 .. f[a]) : a \in DOMAIN f}

\* Sum of all amounts of f (BTreeMap values summed, `iter().map(..).sum()`).
Total(f) == Cardinality(CoinsOf(f))

Least(a, b) == IF a < b THEN a ELSE b

\* saturating_sub of the source: never below zero.
Minus(a, b) == IF a > b THEN a - b ELSE 0
=============================================================================
