--------------------------- MODULE WithdrawLedger ---------------------------
(***************************************************************************)
(* The withdraw half of the ledger adapter: the tables ledger_freezes,     *)
(* withdraw_jobs and withdraw_tx_attempts, and one action per method.      *)
(* A method is one SQL transaction that starts by locking the order's      *)
(* freeze row, so each is one atomic step.  A method that returns an error *)
(* rolls back: its action is not enabled.                                  *)
(*                                                                         *)
(* Time is left out.  A retry delay or a lease that has run out is a       *)
(* choice of the caller (the guards ask only for a lease to be present).   *)
(* A transaction is the transaction of one order, so the attempts, unique  *)
(* by hash in the table, are kept by order.  A job's payload is the hash   *)
(* of the transaction whose unsigned form is stored in base64_tx.          *)
(***************************************************************************)
EXTENDS LedgerBalance, Coins, WithdrawOrders

CONSTANTS
    Sender,         \* the from_address of each order
    Txs,            \* transaction hashes
    NoTx,           \* the empty tx_hash
    RequiredConfs,  \* required_confirmations, from the chain's policy
    MaxConfs,       \* bound: confirmations a notification may carry
    MaxClaims,      \* bound: attempt_count of a job
    MaxReplacements \* accelerateMaxAttempts

ASSUME WithdrawAssumption ==
    /\ NoTx \notin Txs
    /\ RequiredConfs \in Nat \ {0}
    /\ MaxConfs \in Nat
    /\ MaxClaims \in Nat
    /\ MaxReplacements \in Nat

VARIABLES freezes, jobs, attempts

wvars == <<freezes, jobs, attempts>>

FreezeStatus == {"NONE", "FROZEN", "BROADCASTED", "CONFIRMED", "RELEASED"}
JobStatus == {"NONE", "QUEUED", "PROCESSING", "BROADCASTED", "ACCELERATING",
              "DONE", "FAILED", "RELEASED"}
AttemptStatus == {"NONE", "BROADCASTED", "REPLACED", "CONFIRMED", "FAILED"}

\* The rows; status NONE stands for a row that does not exist.
FreezeRow == [status : FreezeStatus, tx : Txs \cup {NoTx}, confs : Nat]
JobRow == [status : JobStatus, tx : Txs \cup {NoTx}, payload : Txs \cup {NoTx},
           attempts : Nat, replacements : Nat, leased : BOOLEAN]

WithdrawTypeOK ==
    /\ freezes \in [Orders -> FreezeRow]
    /\ jobs \in [Orders -> JobRow]
    /\ attempts \in [Orders -> [Txs -> AttemptStatus]]

WithdrawInit ==
    /\ freezes = [o \in Orders |-> [status |-> "NONE", tx |-> NoTx, confs |-> 0]]
    /\ jobs = [o \in Orders |->
                 [status |-> "NONE", tx |-> NoTx, payload |-> NoTx,
                  attempts |-> 0, replacements |-> 0, leased |-> FALSE]]
    /\ attempts = [o \in Orders |-> [t \in Txs |-> "NONE"]]

OpenFreezes == {o \in Orders : freezes[o].status \in {"FROZEN", "BROADCASTED"}}
PaidOrders == {o \in Orders : freezes[o].status = "CONFIRMED"}

Max2(a, b) == IF a > b THEN a ELSE b

-----------------------------------------------------------------------------
(* Row updates the methods share. *)

\* UPDATE withdraw_jobs SET status, ..., processing_started_at=NULL: touches
\* nothing when the row is missing.
SetJob(o, st) ==
    IF jobs[o].status = "NONE" THEN jobs
    ELSE [jobs EXCEPT ![o].status = st, ![o].leased = FALSE]

SetJobTx(o, st, t) ==
    IF jobs[o].status = "NONE" THEN jobs
    ELSE [jobs EXCEPT ![o].status = st, ![o].leased = FALSE, ![o].tx = t]

\* UPDATE withdraw_tx_attempts ... WHERE tx_hash: only an existing row.
SetAttempt(o, t, st) ==
    IF attempts[o][t] = "NONE" THEN attempts
    ELSE [attempts EXCEPT ![o][t] = st]

\* Fault: the release is journalled on the debit side.
UnfreezeWrongSide(o) ==
    /\ Readable(bal)
    /\ CanSub(bal.frozen, Amount[o])
    /\ UpsertBalance(bal.available + Amount[o], bal.frozen - Amount[o], bal.locked)
    /\ Post("WITHDRAW", o, "DEBIT")

\* The balance side of a release: available += amount, frozen -= amount.
Unfreeze(o) ==
    /\ Readable(bal)
    /\ CanSub(bal.frozen, Amount[o])
    /\ UpsertBalance(bal.available + Amount[o], bal.frozen - Amount[o], bal.locked)
    /\ Post("WITHDRAW", o, "UNFREEZE")

-----------------------------------------------------------------------------
(* Queueing and claiming. *)

\* Fault: the withdrawable balance is not compared with the amount.
FreezeWithdrawTxUnchecked(o) ==
    \/ /\ freezes[o].status \in {"FROZEN", "BROADCASTED", "CONFIRMED"}
       /\ UNCHANGED <<bal, freezes, journal>>
    \/ /\ freezes[o].status = "NONE"
       /\ UpsertBalance(bal.available - Amount[o], bal.frozen + Amount[o], bal.locked)
       /\ freezes' = [freezes EXCEPT ![o].status = "FROZEN"]
       /\ Post("WITHDRAW", o, "FREEZE")

FreezeWithdrawTx(o) ==
    \/ /\ freezes[o].status \in {"FROZEN", "BROADCASTED", "CONFIRMED"}
       /\ UNCHANGED <<bal, freezes, journal>>
    \/ /\ freezes[o].status = "NONE"
       /\ Readable(bal)
       /\ CanSub(Withdrawable(bal), Amount[o])
       /\ UpsertBalance(bal.available - Amount[o], bal.frozen + Amount[o], bal.locked)
       /\ freezes' = [freezes EXCEPT ![o].status = "FROZEN"]
       /\ Post("WITHDRAW", o, "FREEZE")

\* The job row after INSERT ... ON CONFLICT DO UPDATE.  A resubmission drops
\* the stored payload and the lease, whatever the status.
Requeued(j) ==
    [j EXCEPT
       !.status = IF @ \in {"QUEUED", "PROCESSING", "BROADCASTED", "DONE"}
                  THEN @ ELSE "QUEUED",
       !.payload = NoTx,
       !.leased = FALSE,
       !.replacements = IF j.status \in {"BROADCASTED", "DONE"} THEN @ ELSE 0]

QueueWithdraw(o) ==
    /\ FreezeWithdrawTx(o)
    /\ jobs' = [jobs EXCEPT ![o] = Requeued(@)]
    /\ UNCHANGED attempts

SameSenderActive(o, st) ==
    \E p \in Orders \ {o} : Sender[p] = Sender[o] /\ jobs[p].status \in st

\* Fault: jobs of the same sender are not looked at.
ClaimableAnySender(o) ==
    /\ freezes[o].status = "FROZEN"
    /\ \/ jobs[o].status = "QUEUED"
       \/ jobs[o].status = "PROCESSING" /\ jobs[o].leased
    /\ jobs[o].attempts < MaxClaims

\* The WHERE clause of the claim; a PROCESSING job needs a lease to expire.
Claimable(o) ==
    /\ freezes[o].status = "FROZEN"
    /\ \/ jobs[o].status = "QUEUED"
       \/ jobs[o].status = "PROCESSING" /\ jobs[o].leased
    /\ ~ SameSenderActive(o, {"PROCESSING"})
    /\ jobs[o].attempts < MaxClaims

\* Fault: the claim does not stamp processing_started_at.
ClaimQueuedWithdrawUnleased(o) ==
    /\ Claimable(o)
    /\ jobs' = [jobs EXCEPT ![o].status = "PROCESSING", ![o].attempts = @ + 1]
    /\ UNCHANGED <<bal, journal, freezes, attempts>>

ClaimQueuedWithdraw(o) ==
    /\ Claimable(o)
    /\ jobs' = [jobs EXCEPT ![o].status = "PROCESSING", ![o].leased = TRUE,
                            ![o].attempts = @ + 1]
    /\ UNCHANGED <<bal, journal, freezes, attempts>>

MarkQueuedWithdrawDone(o, t) ==
    /\ jobs[o].status # "NONE"
    /\ jobs' = [SetJobTx(o, "BROADCASTED", t) EXCEPT ![o].payload = t]
    /\ attempts' = [attempts EXCEPT ![o][t] = "BROADCASTED"]
    /\ UNCHANGED <<bal, journal, freezes>>

RescheduleQueuedWithdraw(o) ==
    /\ jobs' = SetJob(o, "QUEUED")
    /\ UNCHANGED <<bal, journal, freezes, attempts>>

MarkQueuedWithdrawFailed(o) ==
    /\ jobs' = SetJob(o, "FAILED")
    /\ UNCHANGED <<bal, journal, freezes, attempts>>

-----------------------------------------------------------------------------
(* Acceleration. *)

Accelerable(o) ==
    /\ freezes[o].status = "BROADCASTED"
    /\ freezes[o].confs = 0
    /\ jobs[o].payload # NoTx
    /\ jobs[o].replacements < MaxReplacements
    /\ \/ jobs[o].status = "BROADCASTED"
       \/ jobs[o].status = "ACCELERATING" /\ jobs[o].leased
    /\ ~ SameSenderActive(o, {"PROCESSING", "ACCELERATING"})

ClaimStaleBroadcastedWithdraw(o) ==
    /\ Accelerable(o)
    /\ jobs' = [jobs EXCEPT ![o].status = "ACCELERATING", ![o].leased = TRUE]
    /\ UNCHANGED <<bal, journal, freezes, attempts>>

ReplaceBroadcastedWithdraw(o, old, new) ==
    /\ jobs[o].status # "NONE"
    /\ freezes' = IF freezes[o].status = "BROADCASTED"
                  THEN [freezes EXCEPT ![o].tx = new] ELSE freezes
    /\ jobs' = [SetJobTx(o, "BROADCASTED", new) EXCEPT
                  ![o].payload = new, ![o].replacements = @ + 1]
    /\ attempts' = [attempts EXCEPT
                      ![o] = [t \in Txs |->
                                CASE t = new -> "BROADCASTED"
                                  [] t = old /\ t # new /\ @[t] = "BROADCASTED" -> "REPLACED"
                                  [] OTHER -> @[t]]]
    /\ UNCHANGED <<bal, journal>>

ResetBroadcastedWithdraw(o) ==
    /\ jobs' = SetJob(o, "BROADCASTED")
    /\ UNCHANGED <<bal, journal, freezes, attempts>>

-----------------------------------------------------------------------------
(* Settlement. *)

\* After a successful broadcast.
ConfirmWithdraw(o, t) ==
    \/ /\ freezes[o].status \in {"BROADCASTED", "CONFIRMED"}
       /\ UNCHANGED <<bal, journal, freezes, jobs, attempts>>
    \/ /\ freezes[o].status = "FROZEN"
       /\ freezes' = [freezes EXCEPT ![o].status = "BROADCASTED", ![o].tx = t]
       /\ jobs' = SetJobTx(o, "BROADCASTED", t)
       /\ UNCHANGED <<bal, journal, attempts>>

ConfirmWithdrawOnChain(o, t, c) ==
    LET confs == Max2(c, freezes[o].confs) IN
    \/ /\ freezes[o].status = "CONFIRMED"
       /\ freezes' = [freezes EXCEPT ![o].confs = confs]
       /\ attempts' = SetAttempt(o, t, "CONFIRMED")
       /\ UNCHANGED <<bal, journal, jobs>>
    \/ /\ freezes[o].status \in {"FROZEN", "BROADCASTED"}
       /\ confs < RequiredConfs
       /\ freezes' = [freezes EXCEPT ![o] = [status |-> "BROADCASTED", tx |-> t, confs |-> confs]]
       /\ jobs' = SetJobTx(o, "BROADCASTED", t)
       /\ attempts' = SetAttempt(o, t, "BROADCASTED")
       /\ UNCHANGED <<bal, journal>>
    \/ /\ freezes[o].status \in {"FROZEN", "BROADCASTED"}
       /\ confs >= RequiredConfs
       /\ Readable(bal)
       /\ CanSub(bal.frozen, Amount[o])
       /\ UpsertBalance(bal.available, bal.frozen - Amount[o], bal.locked)
       /\ freezes' = [freezes EXCEPT ![o] = [status |-> "CONFIRMED", tx |-> t, confs |-> confs]]
       /\ Post("WITHDRAW", o, "DEBIT")
       /\ jobs' = SetJobTx(o, "DONE", t)
       /\ attempts' = SetAttempt(o, t, "CONFIRMED")

\* A failure report for a superseded hash only marks that attempt.
FailWithdrawOnChain(o, t, c) ==
    \/ /\ freezes[o].status \in {"RELEASED", "CONFIRMED"}
       /\ attempts' = SetAttempt(o, t, "FAILED")
       /\ UNCHANGED <<bal, journal, freezes, jobs>>
    \/ /\ freezes[o].status \in {"FROZEN", "BROADCASTED"}
       /\ freezes[o].tx \notin {NoTx, t}
       /\ attempts' = SetAttempt(o, t, "FAILED")
       /\ UNCHANGED <<bal, journal, freezes, jobs>>
    \/ /\ freezes[o].status \in {"FROZEN", "BROADCASTED"}
       /\ freezes[o].tx \in {NoTx, t}
       /\ Unfreeze(o)
       /\ freezes' = [freezes EXCEPT ![o].status = "RELEASED",
                                     ![o].confs = Max2(@, c)]
       /\ jobs' = SetJob(o, "FAILED")
       /\ attempts' = SetAttempt(o, t, "FAILED")

\* Fault: any freeze that is not RELEASED is released.
ReleaseWithdrawSettled(o) ==
    \/ /\ freezes[o].status = "RELEASED"
       /\ UNCHANGED <<bal, journal, freezes, jobs, attempts>>
    \/ /\ freezes[o].status \notin {"NONE", "RELEASED"}
       /\ freezes' = [freezes EXCEPT ![o].status = "RELEASED"]
       /\ Unfreeze(o)
       /\ jobs' = SetJob(o, "RELEASED")
       /\ UNCHANGED attempts

ReleaseWithdraw(o) ==
    \/ /\ freezes[o].status = "RELEASED"
       /\ UNCHANGED <<bal, journal, freezes, jobs, attempts>>
    \/ /\ freezes[o].status \in {"FROZEN", "BROADCASTED"}
       /\ freezes' = [freezes EXCEPT ![o].status = "RELEASED"]
       /\ Unfreeze(o)
       /\ jobs' = SetJob(o, "RELEASED")
       /\ UNCHANGED attempts
=============================================================================
