-------------------------- MODULE MCAccountLedger --------------------------
(* Small instances of AccountLedger for TLC. *)
EXTENDS AccountLedger

CONSTANTS o1, o2, d1, d2, s1, t1

\* Amounts differ, so that no two orders can stand in for each other.
MCAmount == [o \in Orders |-> IF o = o1 THEN 1 ELSE 2]
MCSender == [o \in Orders |-> s1]
MCDepositAmount == [d \in Deposits |-> IF d = d1 THEN 3 ELSE 1]

\* One notification for each way TargetStatus can decide: by the scan status,
\* by the ledger status, by the confirmations alone.
MCNotices ==
    { [scan |-> "BLANK", status |-> "BLANK", confs |-> 0],
      [scan |-> "PENDING", status |-> "PENDING", confs |-> 1],
      [scan |-> "CONFIRMED", status |-> "CONFIRMED", confs |-> 1],
      [scan |-> "FINALIZED", status |-> "CONFIRMED", confs |-> 2],
      [scan |-> "BLANK", status |-> "CONFIRMED", confs |-> 2],
      [scan |-> "REORGED", status |-> "REVERTED", confs |-> 0] }
=============================================================================
