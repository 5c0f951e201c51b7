-------------------------- MODULE MCVaultDispatch --------------------------
(* Instances of VaultDispatch for TLC. *)
EXTENDS VaultDispatch

CONSTANTS hot, cold, x1, x2, s1, t1, t2, t3, t4, c1, c2

MCOpening == [a \in Accounts |-> IF a = hot THEN 1 ELSE 0]
MCFrom == [x \in Transfers |-> IF x = x1 THEN hot ELSE cold]
MCTo == [x \in Transfers |-> IF x = x1 THEN cold ELSE hot]
MCTransferAmount == [x \in Transfers |-> 1]
MCSweepAmount == [s \in Sweeps |-> 1]
MCTxOrder == [t \in Txs |-> CASE t = t1 -> x1 [] t = t2 -> x2 [] OTHER -> s1]

Requests(n1, n2, m) == [o \in AllOrders |-> CASE o = x1 -> n1 [] o = x2 -> n2 [] o = s1 -> m]

Quiet(f, reqs) ==
    [maxRequests |-> reqs, faultKinds |-> {}, maxFaults |-> 0,
     reverts |-> TRUE, drops |-> FALSE, family |-> f]

\* Requests that come twice, and one fault of any kind.
Rough(reqs) ==
    [Quiet("evm", reqs) EXCEPT !.faultKinds = {"crash", "db", "lost"}, !.maxFaults = 1]

\* Two opposite transfers and a sweep; a transfer and a sweep on a chain of
\* each family; transfers and sweeps in rough circumstances.
MCSetups ==
    {[Quiet("evm", Requests(1, 1, 1)) EXCEPT !.drops = TRUE],
     Rough(Requests(2, 0, 1)), Rough(Requests(0, 0, 2))}
      \cup {Quiet(f, Requests(1, 0, 1)) : f \in Families \ {"token"}}
=============================================================================
