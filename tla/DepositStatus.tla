--------------------------- MODULE DepositStatus ---------------------------
(***************************************************************************)
(* The pure functions that decide a deposit's status: the scanner's        *)
(* (services/scan-account-service/internal/worker/scanner_utils.go) and    *)
(* the ledger's (wallet-core adapters/ledger/postgres.go).  "BLANK" stands *)
(* for the empty string a request may carry in a status field.             *)
(***************************************************************************)
EXTENDS Integers

ScanStatus == {"SEEN", "PENDING", "CONFIRMED", "FINALIZED", "REORGED"}
LedgerStatus == {"PENDING", "CONFIRMED", "FINALIZED", "REVERTED"}

AtLeastOne(n) == IF n <= 0 THEN 1 ELSE n

\* An unlock threshold below the credit threshold is raised to it.
RaisedUnlock(unlock, req) == IF unlock > 0 /\ unlock < req THEN req ELSE unlock

\* Fault: one confirmation too few is enough.
ResolveDepositScanStatusEarly(raw, confs, minConf, unlockConf, reorgWindow) ==
    CASE raw \in {"REORGED", "REVERTED", "FAILED"} -> "REORGED"
      [] raw = "FINALIZED" \/ confs + 1 >= unlockConf -> "FINALIZED"
      [] OTHER -> IF confs <= 0 THEN "SEEN" ELSE "CONFIRMED"

\* resolveDepositScanStatus of scan-account-service.
ResolveDepositScanStatus(raw, confs, minConf, unlockConf, reorgWindow) ==
    LET min == AtLeastOne(minConf)
        unlock == RaisedUnlock(unlockConf, min)
        window == IF reorgWindow < 0 THEN 0 ELSE reorgWindow
    IN CASE raw \in {"REORGED", "REVERTED", "FAILED"} -> "REORGED"
         [] raw = "FINALIZED" -> "FINALIZED"
         [] OTHER ->
              CASE confs <= 0 -> "SEEN"
                [] confs > 0 /\ confs < min -> "PENDING"
                [] confs >= min ->
                     IF \/ unlock > 0 /\ confs >= unlock
                        \/ unlock <= 0 /\ window > 0 /\ confs >= min + window
                     THEN "FINALIZED" ELSE "CONFIRMED"

\* resolveDepositStatus of scan-utxo-service.
ResolveDepositStatus(raw, confs, minConf) ==
    CASE raw \in {"REVERTED", "FAILED"} -> "REVERTED"
      [] raw = "PENDING" -> "PENDING"
      [] OTHER ->
           IF confs >= AtLeastOne(minConf) \/ (confs < 0 /\ raw = "CONFIRMED")
           THEN "CONFIRMED" ELSE "PENDING"

\* Fault: a deposit that is not confirmed is reverted.
MapDepositLedgerStatusHarsh(scan) ==
    IF scan \in {"CONFIRMED", "FINALIZED"} THEN "CONFIRMED" ELSE "REVERTED"

MapDepositLedgerStatus(scan) ==
    CASE scan \in {"CONFIRMED", "FINALIZED"} -> "CONFIRMED"
      [] scan \in {"REORGED", "REVERTED", "FAILED"} -> "REVERTED"
      [] OTHER -> "PENDING"

\* The status field of the request decides before the confirmations do, the
\* scan status before the ledger status.
NormalizeDepositLifecycleStatus(scan, status, confs, reqConfs, unlockConfs) ==
    LET Decides(c) == c \in {"REVERTED", "REORGED", "FAILED", "FINALIZED", "CONFIRMED"}
        Verdict(c) ==
            CASE c \in {"REVERTED", "REORGED", "FAILED"} -> "REVERTED"
              [] c = "FINALIZED" -> "FINALIZED"
              [] c = "CONFIRMED" ->
                   IF unlockConfs > 0 /\ confs >= unlockConfs THEN "FINALIZED" ELSE "CONFIRMED"
        req == AtLeastOne(reqConfs)
        unlock == RaisedUnlock(unlockConfs, req)
    IN CASE Decides(scan) -> Verdict(scan)
         [] ~Decides(scan) /\ Decides(status) -> Verdict(status)
         [] ~Decides(scan) /\ ~Decides(status) ->
              CASE unlock > 0 /\ confs >= unlock -> "FINALIZED"
                [] ~(unlock > 0 /\ confs >= unlock) /\ confs >= req -> "CONFIRMED"
                [] OTHER -> "PENDING"

NormalizeStoredDepositStatus(v) ==
    CASE v \in {"REVERTED", "REORGED", "FAILED"} -> "REVERTED"
      [] v \in {"FINALIZED", "CONFIRMED"} -> v
      [] OTHER -> "PENDING"

\* Fault: the notification's status replaces the stored one.
ResolveEffectiveLatest(oldStatus, targetStatus) ==
    NormalizeStoredDepositStatus(targetStatus)

\* REVERTED always wins and is never left; FINALIZED and CONFIRMED do not
\* regress.
ResolveEffectiveDepositStatus(oldStatus, targetStatus) ==
    LET old == NormalizeStoredDepositStatus(oldStatus)
        target == NormalizeStoredDepositStatus(targetStatus)
    IN CASE target = "REVERTED" \/ old = "REVERTED" -> "REVERTED"
         [] target # "REVERTED" /\ old = "FINALIZED" -> "FINALIZED"
         [] target # "REVERTED" /\ old = "CONFIRMED" ->
              IF target = "FINALIZED" THEN "FINALIZED" ELSE "CONFIRMED"
         [] target # "REVERTED" /\ old = "PENDING" -> target

DepositStatusCredits(status) ==
    NormalizeStoredDepositStatus(status) \in {"CONFIRMED", "FINALIZED"}
=============================================================================
