------------------------ MODULE MCIdempotencyGate ------------------------
(* Instances of IdempotencyGate for TLC. *)
EXTENDS IdempotencyGate, TLC

CONSTANTS k1, o1, tBody, uBody, wBody

\* One request id used for a transfer with two bodies and for a withdrawal,
\* and a transfer without a header.  The order of one transfer is named like
\* the withdrawal's, and is asked for under two keys.
MCMessages ==
    { [id |-> k1, op |-> "treasury_transfer", body |-> tBody],
      [id |-> k1, op |-> "treasury_transfer", body |-> uBody],
      [id |-> NoHeader, op |-> "treasury_transfer", body |-> uBody],
      [id |-> k1, op |-> "withdraw", body |-> wBody] }

MCOrderIn == [b \in {tBody, uBody, wBody} |-> IF b = tBody THEN NoOrder ELSE o1]
MCOrderNames == {o1}

RequestSymmetry == Permutations(Requests)
=============================================================================
