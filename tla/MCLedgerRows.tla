--------------------------- MODULE MCLedgerRows ---------------------------
(* Small instances of LedgerRows for TLC. *)
EXTENDS LedgerRows

CONSTANTS o1, o2, t1, t2, hot, cold

OneAndTwo == [o \in Orders |-> IF o = o1 THEN 1 ELSE 2]
TwoEach == [d \in Deposits |-> 2]

\* One transfer out of the hot vault, the others back into it, and a sweep into it.
MCFrom == [t \in Transfers |-> IF t = t1 THEN hot ELSE cold]
MCTo == [t \in Transfers |-> IF t = t1 THEN cold ELSE hot]
MCTransferAmount == [t \in Transfers |-> IF t = t1 THEN 1 ELSE 2]
ToHot == [s \in Sweeps |-> hot]
OneSwept == [s \in Sweeps |-> 1]

MCOpening == [r \in Rows |-> IF r = hot THEN 1 ELSE 2]

\* The account's transactions and the vaults' share no row, so each set is run
\* by itself.
MCWorkloads == {{"freeze", "credit"}, {"reserve", "confirm", "fail", "sweep"}}
=============================================================================
