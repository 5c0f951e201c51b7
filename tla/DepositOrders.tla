--------------------------- MODULE DepositOrders ---------------------------
(* The deposits of an account and their amounts. *)
EXTENDS Naturals, FiniteSets

CONSTANTS
    Deposits,       \* deposit order ids
    DepositAmount   \* the amount of each deposit

ASSUME DepositsAssumption == IsFiniteSet(Deposits) /\ DepositAmount \in [Deposits -> Nat]
=============================================================================
