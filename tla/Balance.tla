------------------------------ MODULE Balance ------------------------------
(***************************************************************************)
(* A ledger_balances row (wallet-core adapters/ledger/postgres.go).        *)
(* Amounts are arbitrary-precision in the code (math/big), so they are     *)
(* naturals here.                                                          *)
(***************************************************************************)
EXTENDS Naturals

BalanceType == [available : Nat, frozen : Nat, locked : Nat]

Row(avail, frozen, locked) == [available |-> avail, frozen |-> frozen, locked |-> locked]

\* A missing row reads as zeros.
NoBalance == Row(0, 0, 0)

\* computeWithdrawable returns an error when locked exceeds available, and
\* getBalanceTx passes it on: such a row cannot be read by any transaction.
Readable(b) == b.locked <= b.available

Withdrawable(b) == b.available - b.locked

\* subDecimalString fails rather than go below zero.
CanSub(a, b) == b <= a
=============================================================================
