------------------------------- MODULE Coins -------------------------------
(***************************************************************************)
(* Totals of amounts over a set of orders.  The ledger keeps running       *)
(* totals (available, frozen, withdraw_locked) beside the rows they        *)
(* summarise; relating the two needs the sum of the rows' amounts.  The    *)
(* sum is the number of coins: order x contributes the coins               *)
(* <<x, 1>> .. <<x, amt[x]>>.  Stated so, a sum is a cardinality, and the  *)
(* facts about it follow from those about finite sets.                     *)
(***************************************************************************)
EXTENDS Naturals, FiniteSets

CoinsOf(x, amt) == {<<x, i>> : i \in 1..amt[x]}

Worth(S, amt) == Cardinality(UNION {CoinsOf(x, amt) : x \in S})
=============================================================================
