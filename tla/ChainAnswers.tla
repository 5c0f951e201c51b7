--------------------------- MODULE ChainAnswers ---------------------------
(***************************************************************************)
(* What chain-gateway says of a transaction.  Each chain's adapter turns   *)
(* what its node shows (external) into a payload; normalize/transfer.go    *)
(* turns every payload into the one answer the scanners read.              *)
(*                                                                         *)
(* A transaction is unknown to the node, in its pool, or in a block of     *)
(* some depth, where it succeeded or failed.  "BLANK" is the empty string. *)
(***************************************************************************)
EXTENDS Integers

CONSTANT FinalDepth     \* depth at which Solana finalizes and Tron solidifies a block

ASSUME FinalDepthAssumption == FinalDepth \in Nat \ {0}

\* Families of adapters that answer alike: "token" is an ERC-20 token of an EVM
\* chain, "lagging" an EVM chain before a node that may not have a receipt yet,
\* "event" the chains whose nodes show executed transactions only and whose
\* adapters do not look at the result (cosmos, ton, sui), "explorer" and "zen"
\* the UTXO chains.
Families ==
    {"evm", "token", "lagging", "solana", "tron", "aptos", "btt", "xlm", "event", "explorer",
     "zen"}

Unknown == [place |-> "unknown", depth |-> 0, good |-> TRUE]
Pooled == [place |-> "pool", depth |-> 0, good |-> TRUE]
InBlock(depth, good) == [place |-> "block", depth |-> depth, good |-> good]

\* An adapter fails, or gives a payload: a status and a count of
\* confirmations, 0 where the payload has none.
NoPayload == [ok |-> FALSE, status |-> "BLANK", confs |-> 0]
Payload(status, confs) == [ok |-> TRUE, status |-> status, confs |-> confs]

\* RPCReader.GetTxFinality and the plugins' GetTxByHash.
EvmTx(tx) ==
    IF tx.place # "block" THEN {Payload("PENDING", 0)}
    ELSE {Payload(IF tx.good THEN "CONFIRMED" ELSE "REVERTED", tx.depth)}

\* A null receipt leaves the status PENDING and the count as it is.
LaggingTx(tx) ==
    EvmTx(tx) \cup IF tx.place = "block" THEN {Payload("PENDING", tx.depth)} ELSE {}

\* Confirmations are counted from the finalized slot, which is read before the
\* transaction's status: a slot finalized in between counts for nothing.
SolanaTx(tx) ==
    LET final == tx.depth >= FinalDepth
        counts == IF final THEN {tx.depth - FinalDepth + 1, tx.depth - FinalDepth} ELSE {0}
    IN IF tx.place # "block" THEN {Payload("PENDING", 0)}
       ELSE {Payload(CASE ~tx.good -> "REVERTED"
                       [] tx.good /\ final -> "FINALIZED"
                       [] tx.good /\ ~final -> "CONFIRMED", n) : n \in counts}

\* The solidity node is asked.
TronTx(tx) ==
    IF tx.place = "block" /\ tx.depth >= FinalDepth
    THEN {Payload(IF tx.good THEN "Success" ELSE "Failed", 0)} ELSE {NoPayload}

\* A transaction without a result reads as one without success.
AptosTx(tx) ==
    CASE tx.place = "unknown" -> {NoPayload}
      [] tx.place = "pool" -> {Payload("Failed", 0)}
      [] tx.place = "block" -> {Payload(IF tx.good THEN "Success" ELSE "Failed", 0)}

\* The receipt of a transaction in the pool is an error.
BttTx(tx) ==
    IF tx.place # "block" THEN {NoPayload}
    ELSE {Payload(IF tx.good THEN "Success" ELSE "Failed", 0)}

\* A payment that succeeded has two effects; for anything else the client ends
\* the process.
XlmTx(tx) ==
    IF tx.place = "block" /\ tx.good THEN {Payload("Success", 0)} ELSE {NoPayload}

EventTx(tx) == IF tx.place = "block" THEN {Payload("Success", 0)} ELSE {NoPayload}

\* An explorer shows what is in the pool like what is in a block.
ExplorerTx(tx) == IF tx.place = "unknown" THEN {NoPayload} ELSE {Payload("Success", 0)}

GetTxByHash(family, tx) ==
    CASE family \in {"evm", "token"} -> EvmTx(tx)
      [] family = "lagging" -> LaggingTx(tx)
      [] family = "solana" -> SolanaTx(tx)
      [] family = "tron" -> TronTx(tx)
      [] family = "aptos" -> AptosTx(tx)
      [] family = "btt" -> BttTx(tx)
      [] family = "xlm" -> XlmTx(tx)
      [] family = "event" -> EventTx(tx)
      [] family \in {"explorer", "zen"} -> ExplorerTx(tx)

NormalizeTxStatus(v) ==
    CASE v = "FINALIZED" -> "FINALIZED"
      [] v \in {"CONFIRMED", "Success"} -> "CONFIRMED"
      [] v \in {"REVERTED", "Failed"} -> "REVERTED"
      [] v \in {"PENDING", "REORGED"} -> v
      [] OTHER -> "BLANK"

\* Fault: an unknown count is taken for a final one.
NormalizeConfirmationsHigh(n) == IF n <= 0 THEN FinalDepth ELSE n

\* Zero is unknown.
NormalizeConfirmations(n) == IF n <= 0 THEN -1 ELSE n

\* Finality: the hash was asked for, so the transaction counts as found
\* whatever the payload says.
Finality(p) ==
    LET status == NormalizeTxStatus(p.status) IN
    [found |-> TRUE,
     status |-> IF status # "BLANK" THEN status ELSE IF p.confs > 0 THEN "CONFIRMED" ELSE "PENDING",
     confs |-> NormalizeConfirmations(p.confs)]

\* GetTxFinality: a call that fails gives no answer.
TxFinality(family, tx) == {Finality(p) : p \in {q \in GetTxByHash(family, tx) : q.ok}}

-----------------------------------------------------------------------------
(* ListIncomingTransfers: what is listed of a transaction that pays a watched *)
(* address.                                                                   *)

\* A block is listed with the results of its transactions, counted from the
\* head.  Without a receipt nothing is counted.
EvmListed(tx) ==
    {p \in EvmTx(tx) : tx.place = "block"}

LaggingListed(tx) ==
    EvmListed(tx) \cup IF tx.place = "block" THEN {Payload("PENDING", 0)} ELSE {}

\* Only a transaction that succeeded has logs.
TokenListed(tx) ==
    IF tx.place = "block" /\ tx.good THEN {Payload("CONFIRMED", tx.depth)} ELSE {}

\* The listing counts from the confirmed slot, GetTxFinality from the finalized
\* one.
SolanaListed(tx) ==
    IF tx.place = "block" THEN {Payload(p.status, tx.depth) : p \in SolanaTx(tx)} ELSE {}

\* The adapters say Success of every transaction and count nothing.
BridgedListed(tx) == IF tx.place = "block" THEN {Payload("Success", 0)} ELSE {}

\* Unspent outputs have no status; only zen's are counted.
UnspentListed(tx, counted) ==
    IF tx.place = "unknown" THEN {} ELSE {Payload("BLANK", IF counted THEN tx.depth ELSE 0)}

\* Tron's payload has no tos, which extractAccountTransfersTRON looks for;
\* Aptos lists what the address sent, which is skipped as internal; Stellar's
\* listing is not supported.
GetTxByAddress(family, tx) ==
    CASE family = "evm" -> EvmListed(tx)
      [] family = "token" -> TokenListed(tx)
      [] family = "lagging" -> LaggingListed(tx)
      [] family = "solana" -> SolanaListed(tx)
      [] family \in {"btt", "event"} -> BridgedListed(tx)
      [] family \in {"tron", "aptos", "xlm"} -> {}
      [] family = "explorer" -> UnspentListed(tx, FALSE)
      [] family = "zen" -> UnspentListed(tx, TRUE)

Unspents == {"explorer", "zen"}

\* The counts of unspent outputs are passed on as they are.
IncomingTransfers(family, tx) ==
    {[status |-> NormalizeTxStatus(p.status),
      confs |-> IF family \in Unspents THEN p.confs ELSE NormalizeConfirmations(p.confs)] :
       p \in GetTxByAddress(family, tx)}

-----------------------------------------------------------------------------
\* The families whose answers count confirmations whenever they are asked.
Counting == {"evm", "token", "solana"}
=============================================================================
