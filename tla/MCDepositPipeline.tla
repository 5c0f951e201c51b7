------------------------- MODULE MCDepositPipeline -------------------------
(* Small instances of DepositPipeline for TLC. *)
EXTENDS DepositPipeline, TLC

CONSTANTS d1, x1, s1, s2

UnitAmount == [d \in Deposits |-> 1]
OneTransaction == [d \in Deposits |-> x1]

Deployment(scanners, utxo, family, faultKinds, maxFaults, maxReorgs) ==
    [scanners |-> scanners, utxo |-> utxo, family |-> family, faultKinds |-> faultKinds,
     maxFaults |-> maxFaults, maxReorgs |-> maxReorgs]

Each == {"crash", "refused", "lost"}

\* Every kind of account chain with one instance and a fault, a database error
\* when follow-ups are staged, and the UTXO chains with one instance of each
\* service.
MCSetups ==
    {Deployment({s1}, {}, f, Each, 1, 1) : f \in Families \ (Unspents \cup {"lagging"})}
      \cup {Deployment({s1}, {}, "lagging", {}, 0, 1), Deployment({s1}, {}, "evm", {"db"}, 1, 0)}
      \cup {Deployment({s1}, {s2}, f, {}, 0, 1) : f \in Unspents}

\* Two instances on a chain that counts confirmations.
MCInstanceSetups ==
    {Deployment({s1, s2}, {}, "evm", {"crash"}, 1, 1), Deployment({s1, s2}, {}, "solana", {}, 0, 1)}

\* The instances are alike.
ScannerSymmetry == Permutations({s1, s2})

\* A chain without a fault or a reorganisation.
MCCalmSetups == {Deployment({s1}, {}, "evm", {}, 0, 0)}
=============================================================================
