---------------------------- MODULE MCChainScan ----------------------------
(* Instances of ChainScan for TLC. *)
EXTENDS ChainScan

CONSTANTS a1, a2, a3, e1, e2, s1, s2

\* A transfer to a3, which is registered nowhere, never happens.
MCPaidAt ==
    [block |-> [d \in Deposits |-> CASE d = 1 -> a1 [] d = 2 -> a2 [] OTHER -> a3],
     signature |-> [d \in Deposits |-> a1]]
MCWeight == [e \in Endpoints |-> IF e = e2 THEN 2 ELSE 1]

Setup(kind, size, bad, crew, kinds, n, height) ==
    [reader |-> kind, pageSize |-> size, broken |-> bad, scanners |-> crew,
     faultKinds |-> kinds, maxFaults |-> n, maxHeight |-> height]
Blocks(bad, crew, kinds, n, height) == Setup("block", 1, bad, crew, kinds, n, height)
History(bad, crew, kinds, n) == Setup("signature", 2, bad, crew, kinds, n, 3)

\* One scanner and a fault of any kind; one scanner and an endpoint that never
\* works, the other failing at times; two scanners.
MCSetups ==
    {Blocks({}, {s1}, {"read", "store", "null", "reorg", "refresh"}, 1, 3), Blocks({e2}, {s1}, {"read"}, 2, 3),
     History({}, {s1}, {"read", "store", "null", "refresh"}, 1), History({e2}, {s1}, {"refresh"}, 1),
     Blocks({}, {s1, s2}, {}, 0, 2), History({}, {s1, s2}, {}, 0)}
=============================================================================
