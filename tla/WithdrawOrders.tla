--------------------------- MODULE WithdrawOrders ---------------------------
(* The withdrawals of an account and their amounts. *)
EXTENDS Naturals, FiniteSets

CONSTANTS
    Orders,         \* withdraw order ids
    Amount          \* the amount of each order

ASSUME OrdersAssumption == IsFiniteSet(Orders) /\ Amount \in [Orders -> Nat]
=============================================================================
