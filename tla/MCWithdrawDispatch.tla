------------------------ MODULE MCWithdrawDispatch ------------------------
(* Instances of WithdrawDispatch for TLC. *)
EXTENDS WithdrawDispatch

CONSTANTS o1, o2, s1, t1, t2, t3, w1, w2

MCAmount == [o \in Orders |-> IF o = o1 THEN 1 ELSE 2]
MCSender == [o \in Orders |-> s1]
MCTxOrder == [t \in Txs |-> IF t = t3 THEN o2 ELSE o1]

Requests(n1, n2) == [o \in Orders |-> IF o = o1 THEN n1 ELSE n2]

\* Nothing goes wrong but on the chain.
Quiet(f, money, reqs) ==
    [funds |-> money, maxRequests |-> reqs, faultKinds |-> {}, maxFaults |-> 0,
     slow |-> FALSE, reverts |-> TRUE, drops |-> FALSE, family |-> f]

\* One order, and one fault of any kind.
Rough(f) ==
    [Quiet(f, 1, Requests(2, 0)) EXCEPT !.faultKinds = {"crash", "db", "lost"}, !.maxFaults = 1,
                                        !.slow = TRUE, !.drops = TRUE]

\* One order on a chain of each family.
EachFamily == {Quiet(f, 1, Requests(1, 0)) : f \in Families \ {"token"}}

\* Two orders that compete for money and sender.
MCSetups == {Quiet("evm", money, Requests(1, 1)) : money \in {2, 3}} \cup EachFamily
MCRoughSetups == {Rough("evm")} \cup EachFamily

\* A database error at the wrong moment.
MCErrorSetups ==
    {[Quiet("evm", 1, Requests(1, 0)) EXCEPT !.faultKinds = {"db"}, !.maxFaults = 1]}
=============================================================================
