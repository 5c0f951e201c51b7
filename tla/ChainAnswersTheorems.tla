------------------------ MODULE ChainAnswersTheorems ------------------------
(***************************************************************************)
(* What the proofs use of ChainAnswers: what an adapter of chain-gateway   *)
(* says of a transaction is fair to what its node shows.                   *)
(***************************************************************************)
EXTENDS ChainAnswers, TLAPS

PayloadStatus == {"PENDING", "CONFIRMED", "REVERTED", "FINALIZED", "Success", "Failed"}

\* What an adapter may say of what its node shows: a failure only of what
\* failed, but for Aptos, and a count only of what is that deep.
Fair(family, tx, p) ==
    /\ p.status \in PayloadStatus /\ p.confs \in Nat
    /\ p.status \in {"REVERTED", "Failed"} /\ family # "aptos" => tx.place = "block" /\ ~tx.good
    /\ p.status \in {"CONFIRMED", "FINALIZED", "Success"} /\ p.confs > 0 =>
         tx.place = "block" /\ tx.good /\ p.confs <= tx.depth
    /\ p.status = "FINALIZED" => tx.place = "block" /\ tx.good /\ tx.depth >= FinalDepth
    /\ p.status = "PENDING" /\ p.confs > 0 =>
         family = "lagging" /\ tx.place = "block" /\ p.confs <= tx.depth

\* What the node shows of a transaction.
ShownTx ==
    {Unknown, Pooled} \cup {InBlock(d, TRUE) : d \in Nat \ {0}}
                      \cup {InBlock(d, FALSE) : d \in Nat \ {0}}

\* Every adapter's payload is fair.
LEMMA PayloadsFair ==
    ASSUME NEW family \in Families, NEW tx \in ShownTx, NEW p \in GetTxByHash(family, tx), p.ok
    PROVE  Fair(family, tx, p)
<1>1. \/ tx.place \in {"unknown", "pool"}
      \/ tx.place = "block" /\ tx.depth \in Nat \ {0} /\ tx.good
      \/ tx.place = "block" /\ tx.depth \in Nat \ {0} /\ ~tx.good
  BY DEF ShownTx, Unknown, Pooled, InBlock
<1>2. /\ \A st, n : Payload(st, n).status = st /\ Payload(st, n).confs = n
      /\ p # NoPayload
  <2>1. ~NoPayload.ok
    BY Zenon DEF NoPayload
  <2> QED BY <2>1, Zenon DEF Payload
<1>3. CASE family \in {"evm", "token"}
  <2>1. p \in EvmTx(tx)
    BY <1>3, Zenon DEF GetTxByHash
  <2> QED BY <1>1, <1>2, <1>3, <2>1 DEF EvmTx, Fair, PayloadStatus
<1>4. CASE family = "lagging"
  <2>1. p \in LaggingTx(tx)
    BY <1>4, Zenon DEF GetTxByHash
  <2> QED BY <1>1, <1>2, <1>4, <2>1 DEF LaggingTx, EvmTx, Fair, PayloadStatus
<1>5. CASE family = "solana"
  <2>1. p \in SolanaTx(tx)
    BY <1>5, Zenon DEF GetTxByHash
  <2>2. CASE tx.place # "block"
    BY <1>1, <1>2, <1>5, <2>1, <2>2 DEF SolanaTx, Fair, PayloadStatus
  <2>3. CASE tx.place = "block" /\ tx.depth >= FinalDepth
    <3>1. PICK n \in {tx.depth - FinalDepth + 1, tx.depth - FinalDepth} :
            p = Payload(IF tx.good THEN "FINALIZED" ELSE "REVERTED", n)
      BY <1>1, <2>1, <2>3, Zenon DEF SolanaTx
    <3>2. n \in Nat /\ n <= tx.depth
      BY <1>1, <2>3, FinalDepthAssumption
    <3> QED BY <1>1, <1>2, <1>5, <2>3, <3>1, <3>2 DEF Fair, PayloadStatus
  <2>4. CASE tx.place = "block" /\ ~(tx.depth >= FinalDepth)
    BY <1>1, <1>2, <1>5, <2>1, <2>4 DEF SolanaTx, Fair, PayloadStatus
  <2> QED BY <2>2, <2>3, <2>4, Zenon
<1>6. CASE family = "tron"
  <2>1. p \in TronTx(tx)
    BY <1>6, Zenon DEF GetTxByHash
  <2> QED BY <1>1, <1>2, <1>6, <2>1 DEF TronTx, Fair, PayloadStatus
<1>7. CASE family = "aptos"
  <2>1. p \in AptosTx(tx)
    BY <1>7, Zenon DEF GetTxByHash
  <2> QED BY <1>1, <1>2, <1>7, <2>1 DEF AptosTx, Fair, PayloadStatus
<1>8. CASE family = "btt"
  <2>1. p \in BttTx(tx)
    BY <1>8, Zenon DEF GetTxByHash
  <2> QED BY <1>1, <1>2, <1>8, <2>1 DEF BttTx, Fair, PayloadStatus
<1>9. CASE family = "xlm"
  <2>1. p \in XlmTx(tx)
    BY <1>9, Zenon DEF GetTxByHash
  <2> QED BY <1>1, <1>2, <1>9, <2>1 DEF XlmTx, Fair, PayloadStatus
<1>10. CASE family = "event"
  <2>1. p \in EventTx(tx)
    BY <1>10, Zenon DEF GetTxByHash
  <2> QED BY <1>1, <1>2, <1>10, <2>1 DEF EventTx, Fair, PayloadStatus
<1>11. CASE family \in {"explorer", "zen"}
  <2>1. p \in ExplorerTx(tx)
    BY <1>11, Zenon DEF GetTxByHash
  <2> QED BY <1>1, <1>2, <1>11, <2>1 DEF ExplorerTx, Fair, PayloadStatus
<1> QED BY <1>3, <1>4, <1>5, <1>6, <1>7, <1>8, <1>9, <1>10, <1>11, Zenon DEF Families

\* What GetTxFinality says of a transaction is fair as well: a failure is of
\* what failed, but for Aptos, and a count is of what is that deep.
LEMMA AnswersFair ==
    ASSUME NEW family \in Families, NEW tx \in ShownTx, NEW g \in TxFinality(family, tx)
    PROVE  /\ g.status \in {"PENDING", "CONFIRMED", "REVERTED", "FINALIZED"} /\ g.confs \in Int
           /\ g.status = "REVERTED" /\ family # "aptos" => tx.place = "block" /\ ~tx.good
           /\ g.status \in {"CONFIRMED", "FINALIZED"} /\ g.confs > 0 =>
                tx.place = "block" /\ tx.good /\ g.confs <= tx.depth
           /\ g.status = "FINALIZED" => tx.place = "block" /\ tx.good /\ tx.depth >= FinalDepth
           /\ g.status = "PENDING" /\ g.confs > 0 =>
                family = "lagging" /\ tx.place = "block" /\ g.confs <= tx.depth
<1>1. PICK p \in GetTxByHash(family, tx) : p.ok /\ g = Finality(p)
  BY Zenon DEF TxFinality
<1>2. Fair(family, tx, p)
  BY <1>1, PayloadsFair, Zenon
<1>3. p.status \in PayloadStatus /\ p.confs \in Nat
  BY <1>2, Zenon DEF Fair
<1>4. /\ NormalizeTxStatus(p.status) \in {"PENDING", "CONFIRMED", "REVERTED", "FINALIZED"}
      /\ NormalizeTxStatus(p.status) = "REVERTED" => p.status \in {"REVERTED", "Failed"}
      /\ NormalizeTxStatus(p.status) \in {"CONFIRMED", "FINALIZED"} =>
           p.status \in {"CONFIRMED", "FINALIZED", "Success"}
      /\ NormalizeTxStatus(p.status) \in {"PENDING", "FINALIZED"} =>
           p.status = NormalizeTxStatus(p.status)
  BY <1>3, Zenon DEF PayloadStatus, NormalizeTxStatus
<1>5. g.status = NormalizeTxStatus(p.status) /\ g.confs = NormalizeConfirmations(p.confs)
  BY <1>1, <1>4, Zenon DEF Finality
<1>6. g.confs \in Int /\ (g.confs > 0 => p.confs = g.confs)
  BY <1>3, <1>5 DEF NormalizeConfirmations
<1> QED BY <1>2, <1>4, <1>5, <1>6, Zenon DEF Fair

\* What ListIncomingTransfers says of a transaction is fair too; a count without
\* a status is of an unspent output.
LEMMA ListingsFair ==
    ASSUME NEW family \in Families, NEW tx \in ShownTx, NEW g \in IncomingTransfers(family, tx)
    PROVE  /\ g.status \in {"BLANK", "PENDING", "CONFIRMED", "REVERTED", "FINALIZED"} /\ g.confs \in Int
           /\ g.status = "REVERTED" => tx.place = "block" /\ ~tx.good
           /\ g.status = "FINALIZED" => tx.place = "block" /\ tx.good /\ tx.depth >= FinalDepth
           /\ g.confs > 0 => /\ tx.place = "block" /\ g.confs <= tx.depth
                             /\ tx.good \/ g.status = "REVERTED" \/ family \in Unspents
           /\ family \in Unspents => g.status = "BLANK"
           /\ family # "aptos"
<1>1. \/ tx.place \in {"unknown", "pool"} /\ tx.depth = 0
      \/ tx.place = "block" /\ tx.depth \in Nat \ {0} /\ tx.good
      \/ tx.place = "block" /\ tx.depth \in Nat \ {0} /\ ~tx.good
  BY DEF ShownTx, Unknown, Pooled, InBlock
<1>2. PICK p \in GetTxByAddress(family, tx) :
        /\ g.status = NormalizeTxStatus(p.status)
        /\ g.confs = IF family \in Unspents THEN p.confs ELSE NormalizeConfirmations(p.confs)
  BY DEF IncomingTransfers
<1>3. \A st, n : Payload(st, n).status = st /\ Payload(st, n).confs = n
  BY Zenon DEF Payload
<1>4. /\ NormalizeTxStatus("BLANK") = "BLANK" /\ NormalizeTxStatus("PENDING") = "PENDING"
      /\ NormalizeTxStatus("CONFIRMED") = "CONFIRMED" /\ NormalizeTxStatus("Success") = "CONFIRMED"
      /\ NormalizeTxStatus("FINALIZED") = "FINALIZED" /\ NormalizeTxStatus("REVERTED") = "REVERTED"
  BY Zenon DEF NormalizeTxStatus
<1>5. \A n \in Nat : NormalizeConfirmations(n) = IF n = 0 THEN -1 ELSE n
  BY DEF NormalizeConfirmations
<1>6. CASE family \in {"evm", "token", "lagging"}
  <2>1. /\ tx.place = "block"
        /\ \/ p = Payload("CONFIRMED", tx.depth) /\ tx.good
           \/ p = Payload("REVERTED", tx.depth) /\ ~tx.good
           \/ p = Payload("PENDING", 0)
    BY <1>1, <1>2, <1>6, Zenon DEF GetTxByAddress, EvmListed, EvmTx, TokenListed, LaggingListed
  <2>2. g.confs = NormalizeConfirmations(p.confs)
    BY <1>2, <1>6, Zenon DEF Unspents
  <2>3. \/ g.status = "CONFIRMED" /\ g.confs = tx.depth /\ tx.good
        \/ g.status = "REVERTED" /\ g.confs = tx.depth /\ ~tx.good
        \/ g.status = "PENDING" /\ g.confs = -1
    BY <1>1, <1>2, <1>3, <1>4, <1>5, <2>1, <2>2
  <2> QED BY <1>1, <1>6, <2>1, <2>3 DEF Unspents
<1>7. CASE family = "solana"
  <2>1. tx.place = "block" /\ \E q \in SolanaTx(tx) : p = Payload(q.status, tx.depth)
    BY <1>2, <1>7, Zenon DEF GetTxByAddress, SolanaListed
  <2>2. \/ p = Payload("REVERTED", tx.depth) /\ ~tx.good
        \/ p = Payload("FINALIZED", tx.depth) /\ tx.good /\ tx.depth >= FinalDepth
        \/ p = Payload("CONFIRMED", tx.depth) /\ tx.good
    BY <1>1, <1>3, <2>1 DEF SolanaTx
  <2>3. g.confs = NormalizeConfirmations(p.confs)
    BY <1>2, <1>7, Zenon DEF Unspents
  <2>4. \/ g.status = "CONFIRMED" /\ g.confs = tx.depth /\ tx.good
        \/ g.status = "REVERTED" /\ g.confs = tx.depth /\ ~tx.good
        \/ g.status = "FINALIZED" /\ g.confs = tx.depth /\ tx.good /\ tx.depth >= FinalDepth
    BY <1>1, <1>2, <1>3, <1>4, <1>5, <2>1, <2>2, <2>3
  <2> QED BY <1>1, <1>7, <2>1, <2>4 DEF Unspents
<1>8. CASE family \in {"btt", "event"}
  <2>1. p = Payload("Success", 0)
    BY <1>2, <1>8, Zenon DEF GetTxByAddress, BridgedListed
  <2>2. g.confs = NormalizeConfirmations(p.confs)
    BY <1>2, <1>8, Zenon DEF Unspents
  <2>3. g.status = "CONFIRMED" /\ g.confs = -1
    BY <1>2, <1>3, <1>4, <1>5, <2>1, <2>2
  <2> QED BY <1>8, <2>3 DEF Unspents
<1>9. CASE family \in {"tron", "aptos", "xlm"}
  BY <1>2, <1>9, Zenon DEF GetTxByAddress
<1>10. CASE family \in {"explorer", "zen"}
  <2>1. tx.place # "unknown" /\ (p = Payload("BLANK", 0) \/ p = Payload("BLANK", tx.depth))
    BY <1>2, <1>10, Zenon DEF GetTxByAddress, UnspentListed
  <2>2. g.confs = p.confs /\ family \in Unspents
    BY <1>2, <1>10, Zenon DEF Unspents
  <2>3. g.status = "BLANK" /\ (g.confs = 0 \/ g.confs = tx.depth)
    BY <1>2, <1>3, <1>4, <2>1, <2>2
  <2> QED BY <1>1, <1>10, <2>2, <2>3
<1> QED BY <1>6, <1>7, <1>8, <1>9, <1>10, Zenon DEF Families
=============================================================================
