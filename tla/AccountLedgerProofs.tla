------------------------ MODULE AccountLedgerProofs ------------------------
(***************************************************************************)
(* The account ledger, alone and at the end of the deposit pipeline.       *)
(*                                                                         *)
(* The ledger: its rows keep their types, every ledger transaction is a    *)
(* step of the abstract book, and the book balances. The invariant         *)
(* LedgerInv adds to the types that the flags of a deposit row agree with  *)
(* its status.                                                             *)
(*                                                                         *)
(* The pipeline: what the ledger says of a deposit the chain has shown,    *)
(* and a credit is followed up. The invariant PipeInv says that every      *)
(* event, in hand, in the outbox or applied, was deserved when it was      *)
(* formed, which histories that only grow keep true.                       *)
(***************************************************************************)
EXTENDS AccountLedger, DepositPipeline, ChainAnswersTheorems

(***************************************************************************)
(* Type correctness.                                                       *)
(***************************************************************************)

\* UPDATE withdraw_jobs writes well-typed rows.
LEMMA SetJobType ==
    ASSUME jobs \in [Orders -> JobRow], NEW o \in Orders, NEW st \in JobStatus
    PROVE  SetJob(o, st) \in [Orders -> JobRow]
BY ZenonT(60) DEF SetJob, JobRow

\* Setting the hash of a job keeps the withdraw_jobs table well formed.
LEMMA SetJobTxType ==
    ASSUME jobs \in [Orders -> JobRow], NEW o \in Orders, NEW st \in JobStatus,
           NEW t \in Txs \cup {NoTx}
    PROVE  SetJobTx(o, st, t) \in [Orders -> JobRow]
BY ZenonT(60) DEF SetJobTx, JobRow

\* UPDATE withdraw_tx_attempts does too.
LEMMA SetAttemptType ==
    ASSUME attempts \in [Orders -> [Txs -> AttemptStatus]],
           NEW o \in Orders, NEW t \in Txs, NEW st \in AttemptStatus
    PROVE  SetAttempt(o, t, st) \in [Orders -> [Txs -> AttemptStatus]]
BY Zenon DEF SetAttempt

\* A resubmitted job is a job.
LEMMA RequeuedType == ASSUME NEW j \in JobRow PROVE Requeued(j) \in JobRow
BY Zenon DEF Requeued, JobRow, JobStatus

\* Releasing an open freeze leaves a balance row: what is taken off frozen is
\* there.
LEMMA UnfreezeType ==
    ASSUME bal \in BalanceType, NEW o \in Orders, Unfreeze(o)
    PROVE  bal' \in BalanceType
<1>1. Amount[o] \in Nat
  BY WithdrawAssumption, OrdersAssumption, Zenon
<1> QED
  BY <1>1 DEF Unfreeze, UpsertBalance, Row, CanSub, BalanceType

\* The withdraw methods keep the types.
LEMMA WithdrawStepType ==
    ASSUME NEW o \in Orders, bal \in BalanceType, WithdrawTypeOK, WithdrawStep(o)
    PROVE  bal' \in BalanceType /\ WithdrawTypeOK'
<1> USE DEF WithdrawTypeOK
<1>a. Amount[o] \in Nat
  BY WithdrawAssumption, OrdersAssumption, Zenon
<1>1. CASE QueueWithdraw(o)
  <2>1. jobs' \in [Orders -> JobRow]
    BY <1>1, RequeuedType, Zenon DEF QueueWithdraw
  <2>2. bal' \in BalanceType
    BY <1>1, <1>a DEF QueueWithdraw, FreezeWithdrawTx, UpsertBalance, Row, Readable, CanSub,
                      Withdrawable, BalanceType
  <2>3. freezes' \in [Orders -> FreezeRow]
    BY <1>1, ZenonT(60) DEF QueueWithdraw, FreezeWithdrawTx, FreezeRow, FreezeStatus
  <2> QED BY <1>1, <2>1, <2>2, <2>3, Zenon DEF QueueWithdraw
<1>2. CASE ClaimQueuedWithdraw(o)
  <2>1. jobs' \in [Orders -> JobRow]
    BY <1>2 DEF ClaimQueuedWithdraw, JobRow, JobStatus
  <2> QED BY <1>2, <2>1, Zenon DEF ClaimQueuedWithdraw
<1>3. CASE RescheduleQueuedWithdraw(o)
  BY <1>3, SetJobType, Zenon DEF RescheduleQueuedWithdraw, JobStatus
<1>4. CASE MarkQueuedWithdrawFailed(o)
  BY <1>4, SetJobType, Zenon DEF MarkQueuedWithdrawFailed, JobStatus
<1>5. CASE ClaimStaleBroadcastedWithdraw(o)
  <2>1. jobs' \in [Orders -> JobRow]
    <3>1. jobs' = [jobs EXCEPT ![o].status = "ACCELERATING", ![o].leased = TRUE]
      BY <1>5, Zenon DEF ClaimStaleBroadcastedWithdraw
    <3>2. "ACCELERATING" \in JobStatus
      BY Zenon DEF JobStatus
    <3> QED BY <3>1, <3>2, ZenonT(60) DEF JobRow
  <2> QED BY <1>5, <2>1, Zenon DEF ClaimStaleBroadcastedWithdraw
<1>6. CASE ResetBroadcastedWithdraw(o)
  BY <1>6, SetJobType, Zenon DEF ResetBroadcastedWithdraw, JobStatus
<1>7. CASE ReleaseWithdraw(o)
  <2>1. bal' \in BalanceType
    BY <1>7, UnfreezeType, Zenon DEF ReleaseWithdraw
  <2>2. jobs' \in [Orders -> JobRow]
    BY <1>7, SetJobType, ZenonT(60) DEF ReleaseWithdraw, JobStatus
  <2>3. freezes' \in [Orders -> FreezeRow]
    BY <1>7, ZenonT(60) DEF ReleaseWithdraw, FreezeRow, FreezeStatus
  <2> QED BY <1>7, <2>1, <2>2, <2>3, Zenon DEF ReleaseWithdraw
<1>8. ASSUME NEW t \in Txs, MarkQueuedWithdrawDone(o, t)
      PROVE  bal' \in BalanceType /\ WithdrawTypeOK'
  <2>1. SetJobTx(o, "BROADCASTED", t) \in [Orders -> JobRow]
    BY SetJobTxType, Zenon DEF JobStatus
  <2>2. jobs' \in [Orders -> JobRow]
    BY <1>8, <2>1, ZenonT(60) DEF MarkQueuedWithdrawDone, JobRow
  <2>3. attempts' \in [Orders -> [Txs -> AttemptStatus]]
    BY <1>8, Zenon DEF MarkQueuedWithdrawDone, AttemptStatus
  <2> QED BY <1>8, <2>2, <2>3, Zenon DEF MarkQueuedWithdrawDone
<1>9. ASSUME NEW t \in Txs, ConfirmWithdraw(o, t)
      PROVE  bal' \in BalanceType /\ WithdrawTypeOK'
  <2>1. jobs' \in [Orders -> JobRow]
    BY <1>9, SetJobTxType DEF ConfirmWithdraw, JobStatus
  <2>2. freezes' \in [Orders -> FreezeRow]
    BY <1>9, SMTT(60) DEF ConfirmWithdraw, FreezeRow, FreezeStatus
  <2> QED BY <1>9, <2>1, <2>2, Zenon DEF ConfirmWithdraw
<1>10. ASSUME NEW t \in Txs, NEW c \in 0..MaxConfs, ConfirmWithdrawOnChain(o, t, c)
       PROVE  bal' \in BalanceType /\ WithdrawTypeOK'
  <2> DEFINE confs == Max2(c, freezes[o].confs)
  <2>0. confs \in Nat
    BY WithdrawAssumption, OrdersAssumption DEF Max2, FreezeRow
  <2> HIDE DEF confs
  <2>1. jobs' \in [Orders -> JobRow]
    BY <1>10, SetJobTxType DEF ConfirmWithdrawOnChain, JobStatus
  <2>2. attempts' \in [Orders -> [Txs -> AttemptStatus]]
    BY <1>10, SetAttemptType DEF ConfirmWithdrawOnChain, AttemptStatus
  <2>3. bal' \in BalanceType
    BY <1>10, <1>a DEF ConfirmWithdrawOnChain, UpsertBalance, Row, CanSub, BalanceType
  <2>4. freezes' \in [Orders -> FreezeRow]
    <3>1. \/ freezes' = [freezes EXCEPT ![o].confs = confs]
          \/ freezes' = [freezes EXCEPT ![o] = [status |-> "BROADCASTED", tx |-> t, confs |-> confs]]
          \/ freezes' = [freezes EXCEPT ![o] = [status |-> "CONFIRMED", tx |-> t, confs |-> confs]]
      BY <1>10, Zenon DEF ConfirmWithdrawOnChain, confs
    <3>2. /\ [status |-> "BROADCASTED", tx |-> t, confs |-> confs] \in FreezeRow
          /\ [status |-> "CONFIRMED", tx |-> t, confs |-> confs] \in FreezeRow
      BY <2>0, Zenon DEF FreezeRow, FreezeStatus
    <3>3. [freezes EXCEPT ![o].confs = confs] \in [Orders -> FreezeRow]
      BY <2>0, Zenon DEF FreezeRow
    <3> QED BY <3>1, <3>2, <3>3, Zenon
  <2> QED BY <2>1, <2>2, <2>3, <2>4, Zenon
<1>11. ASSUME NEW t \in Txs, NEW c \in 0..MaxConfs, FailWithdrawOnChain(o, t, c)
       PROVE  bal' \in BalanceType /\ WithdrawTypeOK'
  <2>1. jobs' \in [Orders -> JobRow]
    BY <1>11, SetJobType, ZenonT(60) DEF FailWithdrawOnChain, JobStatus
  <2>2. attempts' \in [Orders -> [Txs -> AttemptStatus]]
    BY <1>11, SetAttemptType DEF FailWithdrawOnChain, AttemptStatus
  <2>3. bal' \in BalanceType
    BY <1>11, UnfreezeType, Zenon DEF FailWithdrawOnChain
  <2>4. freezes' \in [Orders -> FreezeRow]
    BY <1>11, WithdrawAssumption, OrdersAssumption
       DEF FailWithdrawOnChain, FreezeRow, FreezeStatus, Max2
  <2> QED BY <2>1, <2>2, <2>3, <2>4, Zenon
<1>12. ASSUME NEW t \in Txs, NEW new \in Txs, ReplaceBroadcastedWithdraw(o, t, new)
       PROVE  bal' \in BalanceType /\ WithdrawTypeOK'
  <2>1. SetJobTx(o, "BROADCASTED", new) \in [Orders -> JobRow]
    BY SetJobTxType, Zenon DEF JobStatus
  <2>2. jobs' \in [Orders -> JobRow]
    <3> DEFINE J == SetJobTx(o, "BROADCASTED", new)
    <3>1. jobs' = [J EXCEPT ![o].payload = new, ![o].replacements = @ + 1]
      BY <1>12, Zenon DEF ReplaceBroadcastedWithdraw
    <3> HIDE DEF J
    <3>2. J[o] \in JobRow /\ J[o].replacements + 1 \in Nat
      BY <2>1 DEF J, JobRow
    <3>3. [J[o] EXCEPT !.payload = new, !.replacements = J[o].replacements + 1] \in JobRow
      BY <3>2, Zenon DEF JobRow
    <3> QED BY <2>1, <3>1, <3>3, Zenon DEF J
  <2>3. attempts' \in [Orders -> [Txs -> AttemptStatus]]
    BY <1>12, Zenon DEF ReplaceBroadcastedWithdraw, AttemptStatus
  <2>4. freezes' \in [Orders -> FreezeRow]
    BY <1>12, Zenon DEF ReplaceBroadcastedWithdraw, FreezeRow
  <2> QED BY <1>12, <2>2, <2>3, <2>4, Zenon DEF ReplaceBroadcastedWithdraw
<1> QED
  BY <1>1, <1>2, <1>3, <1>4, <1>5, <1>6, <1>7, <1>8, <1>9, <1>10, <1>11, <1>12, Zenon
     DEF WithdrawStep

(***************************************************************************)
(* Deposit rows.                                                           *)
(***************************************************************************)

\* A deposit row's flags follow its status: it is credited while CONFIRMED
\* or FINALIZED and unlocked while FINALIZED.
DepositRowsAgree ==
    \A d \in Deposits :
      /\ deposits[d].credited <=> deposits[d].status \in {"CONFIRMED", "FINALIZED"}
      /\ deposits[d].unlocked <=> deposits[d].status = "FINALIZED"

LedgerInv == TypeOK /\ DepositRowsAgree

\* The effective status is a ledger status and never regresses.
LEMMA EffectiveStatus ==
    ASSUME NEW old \in LedgerStatus \cup {"NONE"}, NEW target
    PROVE  /\ ResolveEffectiveDepositStatus(old, target) \in LedgerStatus
           /\ old = "REVERTED" => ResolveEffectiveDepositStatus(old, target) = "REVERTED"
           /\ old = "FINALIZED" =>
                ResolveEffectiveDepositStatus(old, target) \in {"FINALIZED", "REVERTED"}
           /\ old = "CONFIRMED" =>
                ResolveEffectiveDepositStatus(old, target) \in {"CONFIRMED", "FINALIZED", "REVERTED"}
<1> DEFINE o == NormalizeStoredDepositStatus(old)
           t == NormalizeStoredDepositStatus(target)
<1>1. t \in LedgerStatus
  BY Zenon DEF NormalizeStoredDepositStatus, LedgerStatus
<1>2. o = IF old = "NONE" THEN "PENDING" ELSE old
  BY Zenon DEF NormalizeStoredDepositStatus, LedgerStatus
<1>3. ResolveEffectiveDepositStatus(old, target) =
        CASE t = "REVERTED" \/ o = "REVERTED" -> "REVERTED"
          [] t # "REVERTED" /\ o = "FINALIZED" -> "FINALIZED"
          [] t # "REVERTED" /\ o = "CONFIRMED" -> IF t = "FINALIZED" THEN "FINALIZED" ELSE "CONFIRMED"
          [] t # "REVERTED" /\ o = "PENDING" -> t
  BY Zenon DEF ResolveEffectiveDepositStatus
<1> HIDE DEF o, t
<1> QED
  BY <1>1, <1>2, <1>3, Zenon DEF LedgerStatus

\* Only a confirmed or final deposit counts as credited.
LEMMA CreditingStatus ==
    ASSUME NEW st \in LedgerStatus
    PROVE  DepositStatusCredits(st) <=> st \in {"CONFIRMED", "FINALIZED"}
BY Zenon DEF DepositStatusCredits, NormalizeStoredDepositStatus, LedgerStatus

\* What a deposit notification does, by the status it leaves: the five ways
\* through CreditDeposit.
LEMMA DepositCases ==
    ASSUME DepositTypeOK, DepositRowsAgree, NEW d \in Deposits, NEW target,
           CreditDepositTo(d, target)
    PROVE  \E st \in LedgerStatus :
             LET old == deposits[d].status IN
             /\ old = "REVERTED" => st = "REVERTED"
             /\ old = "FINALIZED" => st \in {"FINALIZED", "REVERTED"}
             /\ old = "CONFIRMED" => st \in {"CONFIRMED", "FINALIZED", "REVERTED"}
             /\ deposits' = [deposits EXCEPT ![d] =
                               [status |-> st, credited |-> st \in {"CONFIRMED", "FINALIZED"},
                                unlocked |-> st = "FINALIZED"]]
             /\ \/ old \in {"NONE", "PENDING"} /\ st = "CONFIRMED" /\ Credit(d)
                \/ old \in {"NONE", "PENDING"} /\ st = "FINALIZED" /\ CreditAndUnlock(d)
                \/ old = "CONFIRMED" /\ st = "FINALIZED" /\ Unlock(d)
                \/ old \in {"CONFIRMED", "FINALIZED"} /\ st = "REVERTED" /\ Revert(d)
                \/ /\ \/ old \in {"NONE", "PENDING"} /\ st \in {"PENDING", "REVERTED"}
                      \/ old = st
                   /\ UNCHANGED <<bal, journal>>
<1> DEFINE old == deposits[d]
           st == ResolveEffectiveDepositStatus(old.status, target)
           credits == ~old.credited /\ DepositStatusCredits(st)
           unlocks == (old.credited \/ credits) /\ ~old.unlocked /\ st = "FINALIZED"
           reverts == old.credited /\ st = "REVERTED"
<1>1. old.status \in LedgerStatus \cup {"NONE"}
  BY Zenon DEF DepositTypeOK, DepositRow
<1>2. /\ st \in LedgerStatus
      /\ old.status = "REVERTED" => st = "REVERTED"
      /\ old.status = "FINALIZED" => st \in {"FINALIZED", "REVERTED"}
      /\ old.status = "CONFIRMED" => st \in {"CONFIRMED", "FINALIZED", "REVERTED"}
  BY <1>1, EffectiveStatus, Zenon
<1>3. DepositStatusCredits(st) <=> st \in {"CONFIRMED", "FINALIZED"}
  BY <1>2, CreditingStatus, Zenon
<1>4. /\ old.credited <=> old.status \in {"CONFIRMED", "FINALIZED"}
      /\ old.unlocked <=> old.status = "FINALIZED"
  BY Zenon DEF DepositRowsAgree
<1>5. /\ \/ credits /\ ~unlocks /\ Credit(d)
         \/ credits /\ unlocks /\ CreditAndUnlock(d)
         \/ ~credits /\ unlocks /\ Unlock(d)
         \/ reverts /\ Revert(d)
         \/ ~credits /\ ~unlocks /\ ~reverts /\ UNCHANGED <<bal, journal>>
      /\ deposits' = [deposits EXCEPT ![d] =
                        [status |-> st,
                         credited |-> (old.credited \/ credits) /\ ~reverts,
                         unlocked |-> (old.unlocked \/ unlocks) /\ ~reverts]]
  BY Zenon DEF CreditDepositTo
<1> HIDE DEF st
<1>6. /\ ((old.credited \/ credits) /\ ~reverts) = (st \in {"CONFIRMED", "FINALIZED"})
      /\ ((old.unlocked \/ unlocks) /\ ~reverts) = (st = "FINALIZED")
  BY <1>1, <1>2, <1>3, <1>4 DEF LedgerStatus
<1>7. \/ old.status \in {"NONE", "PENDING"} /\ st = "CONFIRMED" /\ Credit(d)
      \/ old.status \in {"NONE", "PENDING"} /\ st = "FINALIZED" /\ CreditAndUnlock(d)
      \/ old.status = "CONFIRMED" /\ st = "FINALIZED" /\ Unlock(d)
      \/ old.status \in {"CONFIRMED", "FINALIZED"} /\ st = "REVERTED" /\ Revert(d)
      \/ /\ \/ old.status \in {"NONE", "PENDING"} /\ st \in {"PENDING", "REVERTED"}
            \/ old.status = st
         /\ UNCHANGED <<bal, journal>>
  BY <1>1, <1>2, <1>3, <1>4, <1>5, Zenon DEF LedgerStatus
<1>8. deposits' = [deposits EXCEPT ![d] =
                     [status |-> st, credited |-> st \in {"CONFIRMED", "FINALIZED"},
                      unlocked |-> st = "FINALIZED"]]
  BY <1>5, <1>6, Zenon
<1> QED
  BY <1>2, <1>7, <1>8, Zenon

\* A deposit notification keeps the types and the agreement of the rows.
LEMMA DepositStepInv ==
    ASSUME LedgerInv, NEW d \in Deposits, DepositStep(d), UNCHANGED wvars
    PROVE  LedgerInv'
<1>0. DepositTypeOK /\ DepositRowsAgree
  BY Zenon DEF LedgerInv, TypeOK
<1>1. PICK n \in Notices : CreditDepositTo(d, TargetStatus(n))
  BY Zenon DEF DepositStep, CreditDeposit
<1>2. PICK st \in LedgerStatus :
        /\ deposits' = [deposits EXCEPT ![d] =
                          [status |-> st, credited |-> st \in {"CONFIRMED", "FINALIZED"},
                           unlocked |-> st = "FINALIZED"]]
        /\ Credit(d) \/ CreditAndUnlock(d) \/ Unlock(d) \/ Revert(d) \/ UNCHANGED <<bal, journal>>
  BY <1>0, <1>1, DepositCases, Zenon
<1>3. DepositAmount[d] \in Nat
  BY DepositAssumption, DepositsAssumption, Zenon
<1>4. bal' \in BalanceType
  BY <1>2, <1>3 DEF LedgerInv, TypeOK, BalanceType, Credit, CreditAndUnlock, Unlock, Revert,
                    UpsertBalance, Row, CanSub
<1>5. DepositTypeOK'
  BY <1>2 DEF LedgerInv, TypeOK, DepositTypeOK, DepositRow
<1>6. DepositRowsAgree'
  BY <1>2, Zenon DEF LedgerInv, TypeOK, DepositTypeOK, DepositRow, DepositRowsAgree
<1>7. WithdrawTypeOK'
  BY Zenon DEF LedgerInv, TypeOK, WithdrawTypeOK, wvars
<1> QED
  BY <1>4, <1>5, <1>6, <1>7, Zenon DEF LedgerInv, TypeOK

\* The empty tables satisfy the inductive invariant.
LEMMA LedgerInitInv == Init => LedgerInv
<1> SUFFICES ASSUME Init PROVE LedgerInv
  BY Zenon
<1>1. bal \in BalanceType
  BY Zenon DEF Init, NoBalance, Row, BalanceType
<1>2. WithdrawTypeOK
  BY Zenon
     DEF Init, WithdrawInit, WithdrawTypeOK, FreezeRow, FreezeStatus, JobRow, JobStatus,
         AttemptStatus
<1>3. DepositTypeOK /\ DepositRowsAgree
  BY Zenon DEF Init, DepositInit, DepositTypeOK, DepositRow, DepositRowsAgree
<1> QED
  BY <1>1, <1>2, <1>3, Zenon DEF LedgerInv, TypeOK

\* Every ledger method preserves the inductive invariant: the tables stay
\* well formed and a deposit's flags agree with its status.
LEMMA LedgerStepInv == LedgerInv /\ [Next]_vars => LedgerInv'
<1> SUFFICES ASSUME LedgerInv, [Next]_vars PROVE LedgerInv'
  BY Zenon
<1>1. ASSUME NEW o \in Orders, WithdrawStep(o), UNCHANGED deposits PROVE LedgerInv'
  <2>1. bal' \in BalanceType /\ WithdrawTypeOK'
    BY <1>1, WithdrawStepType, Zenon DEF LedgerInv, TypeOK
  <2> QED BY <1>1, <2>1, Zenon DEF LedgerInv, TypeOK, DepositTypeOK, DepositRowsAgree
<1>2. ASSUME NEW d \in Deposits, DepositStep(d), UNCHANGED wvars PROVE LedgerInv'
  BY <1>2, DepositStepInv, Zenon
<1>3. CASE UNCHANGED vars
  BY <1>3, Zenon DEF vars, LedgerInv, TypeOK, WithdrawTypeOK, DepositTypeOK, DepositRowsAgree
<1> QED
  BY <1>1, <1>2, <1>3, Zenon DEF Next

\* Whatever is called in whatever order, the rows keep their types and no
\* column of the balance goes below zero.
THEOREM LedgerTypeCorrect == Spec => []TypeOK
<1>1. LedgerInv => TypeOK
  BY Zenon DEF LedgerInv
<1> QED
  BY LedgerInitInv, LedgerStepInv, <1>1, PTL DEF Spec

(***************************************************************************)
(* The ledger implements the book.                                         *)
(***************************************************************************)
Open == {"FROZEN", "BROADCASTED"}

\* What a withdraw method may do to the order it is called for: freeze,
\* settle or release its money, or leave the money alone.
FreezeEffect(o) ==
    /\ \A p \in Orders \ {o} : freezes'[p].status = freezes[p].status
    /\ \/ /\ freezes[o].status = "NONE" /\ freezes'[o].status = "FROZEN"
          /\ Readable(bal) /\ CanSub(Withdrawable(bal), Amount[o])
          /\ UpsertBalance(bal.available - Amount[o], bal.frozen + Amount[o], bal.locked)
          /\ Post("WITHDRAW", o, "FREEZE")
       \/ /\ freezes[o].status \in Open /\ freezes'[o].status = "CONFIRMED"
          /\ UpsertBalance(bal.available, bal.frozen - Amount[o], bal.locked)
          /\ Post("WITHDRAW", o, "DEBIT")
       \/ /\ freezes[o].status \in Open /\ freezes'[o].status = "RELEASED"
          /\ UpsertBalance(bal.available + Amount[o], bal.frozen - Amount[o], bal.locked)
          /\ Post("WITHDRAW", o, "UNFREEZE")
       \/ /\ \/ freezes[o].status \in Open /\ freezes'[o].status \in Open
             \/ freezes'[o].status = freezes[o].status
          /\ UNCHANGED <<bal, journal>>

\* Every withdraw method has one of those effects, and none on other orders.
LEMMA WithdrawCases ==
    ASSUME LedgerInv, NEW o \in Orders, WithdrawStep(o)
    PROVE  FreezeEffect(o)
<1> USE DEF FreezeEffect
<1>t. freezes \in [Orders -> FreezeRow]
  BY Zenon DEF LedgerInv, TypeOK, WithdrawTypeOK
<1>1. CASE QueueWithdraw(o)
  BY <1>1, <1>t, Zenon DEF QueueWithdraw, FreezeWithdrawTx, FreezeRow
<1>2. CASE \/ ClaimQueuedWithdraw(o) \/ RescheduleQueuedWithdraw(o) \/ MarkQueuedWithdrawFailed(o)
           \/ ClaimStaleBroadcastedWithdraw(o) \/ ResetBroadcastedWithdraw(o)
  BY <1>2, Zenon
     DEF ClaimQueuedWithdraw, RescheduleQueuedWithdraw, MarkQueuedWithdrawFailed,
         ClaimStaleBroadcastedWithdraw, ResetBroadcastedWithdraw
<1>3. CASE ReleaseWithdraw(o)
  BY <1>3, <1>t, Zenon DEF ReleaseWithdraw, Unfreeze, FreezeRow, Open
<1>4. ASSUME NEW t \in Txs, MarkQueuedWithdrawDone(o, t) PROVE FreezeEffect(o)
  BY <1>4, Zenon DEF MarkQueuedWithdrawDone
<1>5. ASSUME NEW t \in Txs, ConfirmWithdraw(o, t) PROVE FreezeEffect(o)
  BY <1>5, <1>t, Zenon DEF ConfirmWithdraw, FreezeRow, Open
<1>6. ASSUME NEW t \in Txs, NEW c \in 0..MaxConfs, ConfirmWithdrawOnChain(o, t, c) PROVE FreezeEffect(o)
  BY <1>6, <1>t DEF ConfirmWithdrawOnChain, FreezeRow, Open
<1>7. ASSUME NEW t \in Txs, NEW c \in 0..MaxConfs, FailWithdrawOnChain(o, t, c) PROVE FreezeEffect(o)
  BY <1>7, <1>t, Zenon DEF FailWithdrawOnChain, Unfreeze, FreezeRow, Open
<1>8. ASSUME NEW t \in Txs, NEW new \in Txs, ReplaceBroadcastedWithdraw(o, t, new) PROVE FreezeEffect(o)
  BY <1>8, <1>t, Zenon DEF ReplaceBroadcastedWithdraw, FreezeRow, Open
<1> QED
  BY <1>1, <1>2, <1>3, <1>4, <1>5, <1>6, <1>7, <1>8, Zenon DEF WithdrawStep

\* A withdraw step is an entry of the book or none.
LEMMA WithdrawRefines ==
    ASSUME LedgerInv, NEW o \in Orders, WithdrawStep(o), UNCHANGED deposits
    PROVE  [Book!BookNext]_(Book!bookVars)
<1>1. FreezeEffect(o)
  BY WithdrawCases, Zenon
<1>2. BookDeposit' = BookDeposit
  BY Zenon DEF BookDeposit
<1>3. \A p \in Orders \ {o} : freezes'[p].status = freezes[p].status
  BY <1>1, Zenon DEF FreezeEffect
<1>4. BookOrder' = [BookOrder EXCEPT ![o] = BookEntry(freezes'[o].status)]
  BY <1>3, Zenon DEF BookOrder
<1>5. bal.available \in Nat /\ bal.frozen \in Nat /\ bal.locked \in Nat /\ Amount[o] \in Nat
  BY WithdrawAssumption, OrdersAssumption, Zenon DEF LedgerInv, TypeOK, BalanceType
<1>6. CASE /\ freezes[o].status = "NONE" /\ freezes'[o].status = "FROZEN"
           /\ Readable(bal) /\ CanSub(Withdrawable(bal), Amount[o])
           /\ UpsertBalance(bal.available - Amount[o], bal.frozen + Amount[o], bal.locked)
  <2>1. BookOrder' = [BookOrder EXCEPT ![o] = "held"]
    BY <1>4, <1>6, Zenon DEF BookEntry
  <2>2. BookOrder[o] = "none"
    BY <1>6, Zenon DEF BookOrder, BookEntry
  <2>3. Amount[o] + bal.locked <= bal.available
    BY <1>5, <1>6 DEF Readable, CanSub, Withdrawable
  <2>4. Book!Hold(o)
    BY <1>2, <1>6, <2>1, <2>2, <2>3, Zenon DEF Book!Hold, Book!Row, UpsertBalance, Row
  <2> QED BY <2>4, Zenon DEF Book!BookNext
<1>7. CASE /\ freezes[o].status \in Open /\ freezes'[o].status = "CONFIRMED"
           /\ UpsertBalance(bal.available, bal.frozen - Amount[o], bal.locked)
  <2>1. BookOrder' = [BookOrder EXCEPT ![o] = "paid"]
    BY <1>4, <1>7, Zenon DEF BookEntry
  <2>2. BookOrder[o] = "held"
    BY <1>7, Zenon DEF BookOrder, BookEntry, Open
  <2>3. Book!Pay(o)
    BY <1>2, <1>7, <2>1, <2>2, Zenon DEF Book!Pay, Book!Row, UpsertBalance, Row
  <2> QED BY <2>3, Zenon DEF Book!BookNext
<1>8. CASE /\ freezes[o].status \in Open /\ freezes'[o].status = "RELEASED"
           /\ UpsertBalance(bal.available + Amount[o], bal.frozen - Amount[o], bal.locked)
  <2>1. BookOrder' = [BookOrder EXCEPT ![o] = "returned"]
    BY <1>4, <1>8, Zenon DEF BookEntry
  <2>2. BookOrder[o] = "held"
    BY <1>8, Zenon DEF BookOrder, BookEntry, Open
  <2>3. Book!Return(o)
    BY <1>2, <1>8, <2>1, <2>2, Zenon DEF Book!Return, Book!Row, UpsertBalance, Row
  <2> QED BY <2>3, Zenon DEF Book!BookNext
<1>9. CASE /\ \/ freezes[o].status \in Open /\ freezes'[o].status \in Open
              \/ freezes'[o].status = freezes[o].status
           /\ UNCHANGED <<bal, journal>>
  <2>1. BookEntry(freezes'[o].status) = BookEntry(freezes[o].status)
    BY <1>9, Zenon DEF BookEntry, Open
  <2>2. BookOrder = [BookOrder EXCEPT ![o] = BookEntry(freezes[o].status)]
    BY Zenon DEF BookOrder
  <2> QED BY <1>2, <1>4, <1>9, <2>1, <2>2, Zenon DEF Book!bookVars
<1> QED
  BY <1>1, <1>6, <1>7, <1>8, <1>9, Zenon DEF FreezeEffect

\* So is a deposit notification.
LEMMA DepositRefines ==
    ASSUME LedgerInv, NEW d \in Deposits, DepositStep(d), UNCHANGED wvars
    PROVE  [Book!BookNext]_(Book!bookVars)
<1>0. DepositTypeOK /\ DepositRowsAgree
  BY Zenon DEF LedgerInv, TypeOK
<1>1. PICK n \in Notices : CreditDepositTo(d, TargetStatus(n))
  BY Zenon DEF DepositStep, CreditDeposit
<1> DEFINE old == deposits[d].status
<1>2. PICK st \in LedgerStatus :
        /\ old = "REVERTED" => st = "REVERTED"
        /\ deposits' = [deposits EXCEPT ![d] =
                          [status |-> st, credited |-> st \in {"CONFIRMED", "FINALIZED"},
                           unlocked |-> st = "FINALIZED"]]
        /\ \/ old \in {"NONE", "PENDING"} /\ st = "CONFIRMED" /\ Credit(d)
           \/ old \in {"NONE", "PENDING"} /\ st = "FINALIZED" /\ CreditAndUnlock(d)
           \/ old = "CONFIRMED" /\ st = "FINALIZED" /\ Unlock(d)
           \/ old \in {"CONFIRMED", "FINALIZED"} /\ st = "REVERTED" /\ Revert(d)
           \/ /\ \/ old \in {"NONE", "PENDING"} /\ st \in {"PENDING", "REVERTED"}
                 \/ old = st
              /\ UNCHANGED <<bal, journal>>
  BY <1>0, <1>1, DepositCases, Zenon
<1>3. BookOrder' = BookOrder
  BY Zenon DEF BookOrder, wvars
<1> DEFINE Entry(s) == IF s = "FINALIZED" THEN "free"
                       ELSE IF s = "CONFIRMED" THEN "locked"
                       ELSE IF s = "REVERTED" THEN "gone" ELSE "none"
<1>4. BookDeposit[d] = Entry(old)
  BY Zenon DEF BookDeposit, LedgerInv, DepositRowsAgree
<1>5. BookDeposit' = [BookDeposit EXCEPT ![d] = Entry(st)]
  BY <1>2, Zenon DEF BookDeposit, LedgerInv, TypeOK, DepositTypeOK, DepositRow
<1>6. DepositAmount[d] \in Nat /\ bal.locked \in Nat
  BY DepositAssumption, DepositsAssumption, Zenon DEF LedgerInv, TypeOK, BalanceType
<1>7. CASE old \in {"NONE", "PENDING"} /\ st = "CONFIRMED" /\ Credit(d)
  <2>1. Book!Arrive(d, "locked")
    BY <1>3, <1>4, <1>5, <1>7, Zenon DEF Book!Arrive, Book!Row, Credit, UpsertBalance, Row
  <2> QED BY <2>1, Zenon DEF Book!BookNext
<1>8. CASE old \in {"NONE", "PENDING"} /\ st = "FINALIZED" /\ CreditAndUnlock(d)
  <2>1. Book!Arrive(d, "free")
    BY <1>3, <1>4, <1>5, <1>8, Zenon DEF Book!Arrive, Book!Row, CreditAndUnlock, UpsertBalance, Row
  <2> QED BY <2>1, Zenon DEF Book!BookNext
<1>9. CASE old = "CONFIRMED" /\ st = "FINALIZED" /\ Unlock(d)
  <2>1. Book!Free(d)
    BY <1>3, <1>4, <1>5, <1>9, Zenon DEF Book!Free, Book!Row, Unlock, UpsertBalance, Row
  <2> QED BY <2>1, Zenon DEF Book!BookNext
<1>10. CASE old \in {"CONFIRMED", "FINALIZED"} /\ st = "REVERTED" /\ Revert(d)
  <2>1. deposits[d].unlocked <=> BookDeposit[d] # "locked"
    BY <1>4, <1>10, Zenon DEF LedgerInv, DepositRowsAgree
  <2>2. Book!TakeBack(d)
    BY <1>3, <1>4, <1>5, <1>6, <1>10, <2>1, Zenon
       DEF Book!TakeBack, Book!Row, Revert, UpsertBalance, Row, CanSub
  <2> QED BY <2>2, Zenon DEF Book!BookNext
<1>11. CASE /\ \/ old \in {"NONE", "PENDING"} /\ st \in {"PENDING", "REVERTED"}
               \/ old = st
            /\ UNCHANGED <<bal, journal>>
  <2>1. CASE old \in {"NONE", "PENDING"} /\ st = "REVERTED"
    <3>1. Book!NeverArrive(d)
      BY <1>3, <1>4, <1>5, <1>11, <2>1, Zenon DEF Book!NeverArrive
    <3> QED BY <3>1, Zenon DEF Book!BookNext
  <2>2. CASE Entry(st) = Entry(old)
    <3>1. BookDeposit = [BookDeposit EXCEPT ![d] = BookDeposit[d]]
      BY Zenon DEF BookDeposit
    <3> QED BY <1>3, <1>4, <1>5, <1>11, <2>2, <3>1, Zenon DEF Book!bookVars
  <2> QED BY <1>11, <2>1, <2>2, Zenon
<1> QED
  BY <1>2, <1>7, <1>8, <1>9, <1>10, <1>11, Zenon

\* One withdraw method or one deposit notification is one entry of the book:
\* the ledger implements it.
THEOREM LedgerImplementsBook == Spec => ImplementsBook
<1>1. Init => Book!BookInit
  BY DEF Init, WithdrawInit, DepositInit, Book!BookInit, BookOrder, BookEntry, BookDeposit,
         NoBalance, Row, Book!NoBalance, Book!Row
<1>2. LedgerInv /\ [Next]_vars => [Book!BookNext]_(Book!bookVars)
  <2> SUFFICES ASSUME LedgerInv, [Next]_vars PROVE [Book!BookNext]_(Book!bookVars)
    BY Zenon
  <2>1. CASE UNCHANGED vars
    BY <2>1, Zenon DEF vars, Book!bookVars, BookOrder, BookDeposit
  <2> QED
    BY <2>1, WithdrawRefines, DepositRefines, Zenon DEF Next
<1> QED
  BY <1>1, <1>2, LedgerInitInv, LedgerStepInv, PTL DEF Spec, ImplementsBook, Book!BookSpec

(***************************************************************************)
(* The journal, and what a step may never do.                              *)
(***************************************************************************)

\* A credit taken back leaves its deposit REVERTED, so it is not credited
\* again and the journal keeps one CREDIT and one DEPOSIT_REVERT.
RevertsAreFinal ==
    \A d \in Deposits :
      <<"DEPOSIT_REVERT", d, "DEBIT">> \in journal => deposits[d].status = "REVERTED"

JournalInv == JournalTellsTheRows /\ RevertsAreFinal

\* The journal of the empty tables is empty.
LEMMA JournalInit == Init => JournalInv
BY DEF Init, WithdrawInit, DepositInit, JournalInv, JournalTellsTheRows, RevertsAreFinal

\* A withdraw method posts exactly the entries of the status it leaves.
LEMMA JournalWithdraw ==
    ASSUME LedgerInv, JournalInv, NEW o \in Orders, WithdrawStep(o), UNCHANGED deposits
    PROVE  JournalInv'
<1>1. FreezeEffect(o)
  BY WithdrawCases, Zenon
<1>2. freezes[o].status \in FreezeStatus
  BY Zenon DEF LedgerInv, TypeOK, WithdrawTypeOK, FreezeRow
<1>3. \A d \in Deposits :
        /\ <<"DEPOSIT", d, "CREDIT">> \in journal' <=> <<"DEPOSIT", d, "CREDIT">> \in journal
        /\ <<"DEPOSIT_REVERT", d, "DEBIT">> \in journal' <=> <<"DEPOSIT_REVERT", d, "DEBIT">> \in journal
  BY <1>1 DEF FreezeEffect, Post
<1>4. \A p \in Orders, side \in {"FREEZE", "DEBIT", "UNFREEZE"} : p # o =>
        (<<"WITHDRAW", p, side>> \in journal' <=> <<"WITHDRAW", p, side>> \in journal)
  BY <1>1 DEF FreezeEffect, Post
<1>5. /\ <<"WITHDRAW", o, "FREEZE">> \in journal' <=> freezes'[o].status # "NONE"
      /\ <<"WITHDRAW", o, "DEBIT">> \in journal' <=> freezes'[o].status = "CONFIRMED"
      /\ <<"WITHDRAW", o, "UNFREEZE">> \in journal' <=> freezes'[o].status = "RELEASED"
  BY <1>1, <1>2, Zenon DEF FreezeEffect, Post, Open, FreezeStatus, JournalInv, JournalTellsTheRows
<1>6. \A p \in Orders \ {o} : freezes'[p].status = freezes[p].status
  BY <1>1, Zenon DEF FreezeEffect
<1>7. JournalTellsTheRows'
  BY <1>3, <1>4, <1>5, <1>6, Zenon DEF JournalInv, JournalTellsTheRows
<1>8. RevertsAreFinal'
  BY <1>3, Zenon DEF JournalInv, RevertsAreFinal
<1> QED
  BY <1>7, <1>8, Zenon DEF JournalInv

\* CreditDeposit posts exactly the entries of the flags it sets.
LEMMA JournalDeposit ==
    ASSUME LedgerInv, JournalInv, NEW d \in Deposits, DepositStep(d), UNCHANGED wvars
    PROVE  JournalInv'
<1>0. DepositTypeOK /\ DepositRowsAgree
  BY Zenon DEF LedgerInv, TypeOK
<1>1. PICK n \in Notices : CreditDepositTo(d, TargetStatus(n))
  BY Zenon DEF DepositStep, CreditDeposit
<1> DEFINE old == deposits[d].status
<1>2. PICK st \in LedgerStatus :
        /\ old = "REVERTED" => st = "REVERTED"
        /\ deposits' = [deposits EXCEPT ![d] =
                          [status |-> st, credited |-> st \in {"CONFIRMED", "FINALIZED"},
                           unlocked |-> st = "FINALIZED"]]
        /\ \/ old \in {"NONE", "PENDING"} /\ st = "CONFIRMED" /\ Credit(d)
           \/ old \in {"NONE", "PENDING"} /\ st = "FINALIZED" /\ CreditAndUnlock(d)
           \/ old = "CONFIRMED" /\ st = "FINALIZED" /\ Unlock(d)
           \/ old \in {"CONFIRMED", "FINALIZED"} /\ st = "REVERTED" /\ Revert(d)
           \/ /\ \/ old \in {"NONE", "PENDING"} /\ st \in {"PENDING", "REVERTED"}
                 \/ old = st
              /\ UNCHANGED <<bal, journal>>
  BY <1>0, <1>1, DepositCases, Zenon
<1>3. /\ old = "CONFIRMED" \/ old = "FINALIZED" <=> deposits[d].credited
      /\ deposits'[d].status = st
      /\ deposits'[d].credited <=> st \in {"CONFIRMED", "FINALIZED"}
      /\ \A e \in Deposits \ {d} : deposits'[e] = deposits[e]
  BY <1>2, Zenon DEF LedgerInv, TypeOK, DepositTypeOK, DepositRow, DepositRowsAgree
<1>4. \A p \in Orders, side \in {"FREEZE", "DEBIT", "UNFREEZE"} :
        <<"WITHDRAW", p, side>> \in journal' <=> <<"WITHDRAW", p, side>> \in journal
  BY <1>2 DEF Credit, CreditAndUnlock, Unlock, Revert, Post
<1>5. \A e \in Deposits \ {d} :
        /\ <<"DEPOSIT", e, "CREDIT">> \in journal' <=> <<"DEPOSIT", e, "CREDIT">> \in journal
        /\ <<"DEPOSIT_REVERT", e, "DEBIT">> \in journal' <=> <<"DEPOSIT_REVERT", e, "DEBIT">> \in journal
  BY <1>2 DEF Credit, CreditAndUnlock, Unlock, Revert, Post
<1>6. /\ <<"DEPOSIT", d, "CREDIT">> \in journal' <=>
           \/ <<"DEPOSIT", d, "CREDIT">> \in journal
           \/ old \in {"NONE", "PENDING"} /\ st \in {"CONFIRMED", "FINALIZED"}
      /\ <<"DEPOSIT_REVERT", d, "DEBIT">> \in journal' <=>
           \/ <<"DEPOSIT_REVERT", d, "DEBIT">> \in journal
           \/ old \in {"CONFIRMED", "FINALIZED"} /\ st = "REVERTED"
  BY <1>2, Zenon DEF Credit, CreditAndUnlock, Unlock, Revert, Post
<1>7. /\ deposits[d].credited <=>
           /\ <<"DEPOSIT", d, "CREDIT">> \in journal
           /\ <<"DEPOSIT_REVERT", d, "DEBIT">> \notin journal
      /\ <<"DEPOSIT_REVERT", d, "DEBIT">> \in journal => <<"DEPOSIT", d, "CREDIT">> \in journal
      /\ <<"DEPOSIT_REVERT", d, "DEBIT">> \in journal => old = "REVERTED"
  BY Zenon DEF JournalInv, JournalTellsTheRows, RevertsAreFinal
<1>8. \/ old \in {"NONE", "PENDING"} /\ st \in {"CONFIRMED", "FINALIZED", "PENDING", "REVERTED"}
      \/ old = "CONFIRMED" /\ st \in {"FINALIZED", "REVERTED"}
      \/ old = "FINALIZED" /\ st = "REVERTED"
      \/ old = st
  BY <1>2, Zenon
<1>9. /\ deposits'[d].credited <=>
           /\ <<"DEPOSIT", d, "CREDIT">> \in journal'
           /\ <<"DEPOSIT_REVERT", d, "DEBIT">> \notin journal'
      /\ <<"DEPOSIT_REVERT", d, "DEBIT">> \in journal' => <<"DEPOSIT", d, "CREDIT">> \in journal'
      /\ <<"DEPOSIT_REVERT", d, "DEBIT">> \in journal' => deposits'[d].status = "REVERTED"
  BY <1>2, <1>3, <1>6, <1>7, <1>8, Zenon
<1>10. \A e \in Deposits \ {d} : deposits'[e].credited = deposits[e].credited
                               /\ deposits'[e].status = deposits[e].status
  BY <1>3, Zenon
<1>11. JournalTellsTheRows'
  BY <1>4, <1>5, <1>9, <1>10, Zenon DEF JournalInv, JournalTellsTheRows, wvars
<1>12. RevertsAreFinal'
  BY <1>5, <1>9, <1>10, Zenon DEF JournalInv, RevertsAreFinal
<1> QED
  BY <1>11, <1>12, Zenon DEF JournalInv

\* ledger_journals tells what became of every order and every deposit.
THEOREM LedgerJournalled == Spec => []JournalTellsTheRows
<1>1. LedgerInv /\ JournalInv /\ [Next]_vars => JournalInv'
  <2>1. ASSUME JournalInv, UNCHANGED vars PROVE JournalInv'
    BY <2>1, Zenon DEF vars, JournalInv, JournalTellsTheRows, RevertsAreFinal
  <2> QED
    BY <2>1, JournalWithdraw, JournalDeposit, Zenon DEF Next
<1>2. JournalInv => JournalTellsTheRows
  BY Zenon DEF JournalInv
<1> QED
  BY <1>1, <1>2, JournalInit, LedgerInitInv, LedgerStepInv, PTL DEF Spec

\* A CONFIRMED or RELEASED freeze is never moved again.
THEOREM SettledWithdrawalsStay == Spec => SettledIsFinal
<1> DEFINE Kept == \A o \in Orders : freezes[o].status \in {"CONFIRMED", "RELEASED"}
                                       => freezes'[o].status = freezes[o].status
<1>1. LedgerInv /\ [Next]_vars => [Kept]_vars
  <2>1. ASSUME LedgerInv, NEW o \in Orders, WithdrawStep(o) PROVE Kept
    BY <2>1, WithdrawCases, Zenon DEF FreezeEffect, Open
  <2>2. ASSUME UNCHANGED wvars PROVE Kept
    BY <2>2, Zenon DEF wvars
  <2> QED
    BY <2>1, <2>2, Zenon DEF Next
<1> QED
  BY <1>1, LedgerInitInv, LedgerStepInv, PTL DEF Spec, SettledIsFinal

\* However late or repeated the notifications, a deposit moves forward.
THEOREM DepositsMoveForward == Spec => DepositMovesForward
<1> DEFINE Forward ==
             \A d \in Deposits :
               /\ deposits[d].status = "REVERTED" => deposits'[d].status = "REVERTED"
               /\ deposits[d].status = "FINALIZED" => deposits'[d].status \in {"FINALIZED", "REVERTED"}
               /\ deposits[d].status = "CONFIRMED" => deposits'[d].status \notin {"PENDING", "NONE"}
               /\ deposits[d].credited /\ ~deposits'[d].credited => deposits'[d].status = "REVERTED"
<1>1. LedgerInv /\ [Next]_vars => [Forward]_vars
  <2>1. ASSUME LedgerInv, NEW d \in Deposits, DepositStep(d) PROVE Forward
    <3>0. DepositTypeOK /\ DepositRowsAgree
      BY <2>1, Zenon DEF LedgerInv, TypeOK
    <3>1. PICK n \in Notices : CreditDepositTo(d, TargetStatus(n))
      BY <2>1, Zenon DEF DepositStep, CreditDeposit
    <3>2. PICK st \in LedgerStatus :
            /\ deposits[d].status = "REVERTED" => st = "REVERTED"
            /\ deposits[d].status = "FINALIZED" => st \in {"FINALIZED", "REVERTED"}
            /\ deposits[d].status = "CONFIRMED" => st \in {"CONFIRMED", "FINALIZED", "REVERTED"}
            /\ deposits' = [deposits EXCEPT ![d] =
                              [status |-> st, credited |-> st \in {"CONFIRMED", "FINALIZED"},
                               unlocked |-> st = "FINALIZED"]]
      BY <2>1, <3>0, <3>1, DepositCases, Zenon
    <3>3. /\ deposits'[d].status = st
          /\ deposits'[d].credited <=> st \in {"CONFIRMED", "FINALIZED"}
          /\ \A e \in Deposits \ {d} : deposits'[e] = deposits[e]
          /\ deposits[d].credited => deposits[d].status \in {"CONFIRMED", "FINALIZED"}
          /\ \A e \in Deposits : deposits[e].credited => deposits[e].status \in {"CONFIRMED", "FINALIZED"}
      BY <2>1, <3>2, Zenon DEF LedgerInv, TypeOK, DepositTypeOK, DepositRow, DepositRowsAgree
    <3> QED BY <3>2, <3>3, Zenon
  <2>2. ASSUME UNCHANGED deposits PROVE Forward
    BY <2>2, Zenon
  <2> QED
    BY <2>1, <2>2, Zenon DEF Next
<1> QED
  BY <1>1, LedgerInitInv, LedgerStepInv, PTL DEF Spec, DepositMovesForward

-----------------------------------------------------------------------------
(* The pipeline that feeds CreditDeposit.  Every event that is held, staged or *)
(* applied is deserved: the chain has shown what it says.  On that rest the    *)
(* ledger's lead over the chain, the reverts, and the follow-ups.              *)

Credited == {"CONFIRMED", "FINALIZED"}
HandStep == {"idle", "note", "upsert", "enqueue", "checkpoint", "deliver", "follow", "done",
             "retry"}
HandRow == [pc : HandStep, dep : Deposits \cup {NoDeposit}, event : EventType, count : Nat,
            scan : BOOLEAN, found : BOOLEAN]
SeenRow == [status : ScanStatus \cup LedgerStatus \cup {"NONE", "BLANK"}, confs : Int, misses : Nat]
BoxRow == [status : {"NONE", "PENDING", "DONE", "FAILED"}, event : EventType, tries : Nat]

PipeTyped ==
    /\ setup \in Setups
    /\ DepositTypeOK /\ DepositRowsAgree
    /\ chain \in [Transactions -> ChainType]
    /\ deepest \in [Transactions -> Nat]
    /\ seen \in [Deposits -> SeenRow]
    /\ outbox \in [Deposits -> BoxRow]
    /\ hands \in [Scanners -> HandRow]

Orphaned(d) == <<TxOf[d], "orphaned">> \in undone
Failed(d) == <<TxOf[d], "failed">> \in undone

\* The histories follow the chain; without a reorganisation a transaction is
\* in one block only.
ChainTells ==
    \A x \in Transactions :
      /\ chain[x].confs >= -1
      /\ Mined(x) /\ chain[x].raw = "OK" => deepest[x] >= chain[x].confs
      /\ chain[x].raw # "OK" => <<x, "failed">> \in undone
      /\ setup.family \in Unspents => chain[x].raw = "OK"
      /\ <<x, "orphaned">> \notin undone =>
           \/ ~Mined(x) /\ deepest[x] = 0 /\ <<x, "failed">> \notin undone
           \/ Mined(x) /\ chain[x].raw = "OK" /\ <<x, "failed">> \notin undone
           \/ Mined(x) /\ chain[x].raw # "OK" /\ deepest[x] = 0

\* Solana's verdict FINALIZED needs no count.
Thresholds == CreditConfs <= FinalDepth /\ UnlockConfs <= FinalDepth

\* With the setup s and the histories u of undone and p of deepest, the chain
\* has shown what a ledger status says of a deposit.
Misread(s, u, d) == s.family = "lagging" /\ <<TxOf[d], "failed">> \in u

Deserved(s, u, p, d, st) ==
    /\ st = "REVERTED" => <<TxOf[d], "failed">> \in u
    /\ st \in Credited /\ ~Misread(s, u, d) =>
         /\ p[TxOf[d]] >= 1
         /\ Thresholds => p[TxOf[d]] >= CreditConfs
    /\ st = "FINALIZED" /\ ~Misread(s, u, d) /\ Thresholds => p[TxOf[d]] >= UnlockConfs

\* An event asks for follow-ups when it asks for a credit.
Formed(s, e) ==
    /\ Asks(e) => Notified(e) \in Credited
    /\ Notified(e) \in Credited /\ s.family \notin Unspents => Asks(e)

Sees(s, u, p, d, e) == Deserved(s, u, p, d, Notified(e)) /\ Formed(s, e)

AllDeserved ==
    /\ \A d \in Deposits : /\ Deserved(setup, undone, deepest, d, deposits[d].status)
                           /\ Sees(setup, undone, deepest, d, outbox[d].event)
    /\ \A i \in Scanners : hands[i].pc # "idle" =>
         /\ hands[i].dep \in Deposits /\ hands[i].found
         /\ Sees(setup, undone, deepest, hands[i].dep, hands[i].event)

\* Aptos lists no deposit.
Blind ==
    setup.family = "aptos" =>
      /\ \A d \in Deposits : seen[d].status = "NONE" /\ outbox[d].status = "NONE"
      /\ \A i \in Scanners : hands[i].pc = "idle"

\* A follow-up is staged after the credit.
CreditPosted(d) == <<"DEPOSIT", d, "CREDIT">> \in journal

CreditFirst ==
    \A d \in Deposits :
      /\ deposits[d].status \in Credited => CreditPosted(d)
      /\ setup.family # "lagging" /\ ~Orphaned(d) =>
           /\ d \in announced => CreditPosted(d)
           /\ \A i \in Scanners : hands[i].pc = "follow" /\ hands[i].dep = d => CreditPosted(d)

\* One instance on an EVM chain: nobody else touches the event it dispatches,
\* and what it has seen deep enough stays so.
Alone == setup.family \in {"evm", "token"} /\ \A i, j \in setup.scanners : i = j

Rooted(x) == chain[x].confs >= AtLeastOne(CreditConfs) /\ chain[x].raw = "OK"

RootedFor(d) ==
    setup.family \in {"evm", "token"} /\ ~Orphaned(d) =>
      /\ deposits[d].status \in Credited => Rooted(TxOf[d])
      /\ Notified(outbox[d].event) \in Credited => Rooted(TxOf[d])
      /\ \A i \in Scanners : hands[i].pc # "idle" /\ hands[i].dep = d
                               /\ Notified(hands[i].event) \in Credited => Rooted(TxOf[d])

Dispatching == {"deliver", "follow", "done", "retry"}

Exclusive ==
    Alone =>
      /\ \A i \in Scanners : hands[i].pc # "idle" => i \in setup.scanners
      /\ \A i \in Scanners : hands[i].pc \in Dispatching =>
           LET box == outbox[hands[i].dep]
           IN box.status = "PENDING" /\ box.event = hands[i].event

\* A credit that is not followed up yet will be: its event is not DONE, and
\* every later one asks for the follow-ups too.
Pursued(d) ==
    Alone /\ "db" \notin setup.faultKinds /\ ~Orphaned(d)
      /\ deposits[d].status \in Credited /\ d \notin announced =>
      /\ outbox[d].status \in {"PENDING", "FAILED"}
      /\ outbox[d].status = "PENDING" => Asks(outbox[d].event)
      /\ \A i \in Scanners : hands[i].dep = d =>
           /\ hands[i].pc \in {"note", "upsert", "enqueue"} => Asks(hands[i].event)
           /\ hands[i].pc # "done"

Followed == \A d \in Deposits : RootedFor(d) /\ Pursued(d)

\* The verdicts an answer may carry.
Verdicts == {"BLANK", "PENDING", "CONFIRMED", "REVERTED", "FINALIZED"}

\* What resolveDepositScanStatus makes of an answer.
LEMMA ScanStatusIs ==
    ASSUME NEW raw \in Verdicts, NEW n \in Int
    PROVE  LET st == ResolveDepositScanStatus(raw, n, CreditConfs, UnlockConfs, ReorgWindow)
               min == AtLeastOne(CreditConfs)
           IN \/ raw = "REVERTED" /\ st = "REORGED"
              \/ raw = "FINALIZED" /\ st = "FINALIZED"
              \/ /\ raw \notin {"REVERTED", "FINALIZED"}
                 /\ \/ n <= 0 /\ st = "SEEN"
                    \/ n > 0 /\ n < min /\ st = "PENDING"
                    \/ n >= min /\ st = "CONFIRMED"
                    \/ n >= min /\ n >= UnlockConfs /\ st = "FINALIZED"
<1> USE DepositAssumption, PipelineAssumption
<1> DEFINE st == ResolveDepositScanStatus(raw, n, CreditConfs, UnlockConfs, ReorgWindow)
           min == AtLeastOne(CreditConfs)
           unlock == RaisedUnlock(UnlockConfs, min)
<1>1. min \in Nat /\ min >= 1 /\ min >= CreditConfs
  BY DEF AtLeastOne
<1>2. unlock \in Int /\ unlock >= UnlockConfs /\ (unlock > 0 => UnlockConfs > 0)
  BY <1>1 DEF RaisedUnlock
<1>3. raw = "REVERTED" => st = "REORGED"
  BY Zenon DEF ResolveDepositScanStatus
<1>4. raw = "FINALIZED" => st = "FINALIZED"
  BY Zenon DEF ResolveDepositScanStatus
<1>5. raw \notin {"REVERTED", "FINALIZED"} /\ n <= 0 => st = "SEEN"
  BY <1>1 DEF ResolveDepositScanStatus, Verdicts
<1>6. raw \notin {"REVERTED", "FINALIZED"} /\ n > 0 /\ n < min => st = "PENDING"
  BY <1>1 DEF ResolveDepositScanStatus, Verdicts
<1>7. raw \notin {"REVERTED", "FINALIZED"} /\ n >= min =>
        st = IF \/ unlock > 0 /\ n >= unlock
                \/ unlock <= 0 /\ ReorgWindow > 0 /\ n >= min + ReorgWindow
             THEN "FINALIZED" ELSE "CONFIRMED"
  BY <1>1 DEF ResolveDepositScanStatus, Verdicts
<1>8. unlock <= 0 => UnlockConfs <= 0
  BY <1>2
<1> HIDE DEF st, unlock, min
<1>9. raw \notin {"REVERTED", "FINALIZED"} /\ n >= min =>
        st = "CONFIRMED" \/ (st = "FINALIZED" /\ n >= UnlockConfs)
  BY <1>1, <1>2, <1>7, <1>8
<1>10. \/ raw = "REVERTED" /\ st = "REORGED"
       \/ raw = "FINALIZED" /\ st = "FINALIZED"
       \/ /\ raw \notin {"REVERTED", "FINALIZED"}
          /\ \/ n <= 0 /\ st = "SEEN"
             \/ n > 0 /\ n < min /\ st = "PENDING"
             \/ n >= min /\ st = "CONFIRMED"
             \/ n >= min /\ n >= UnlockConfs /\ st = "FINALIZED"
  BY <1>1, <1>3, <1>4, <1>5, <1>6, <1>9
<1> QED BY <1>10, Zenon DEF st, min

\* What the ledger makes of an event of scan-account-service.
LEMMA NotifiedIs ==
    ASSUME NEW st \in ScanStatus, NEW n \in Int,
           st = "SEEN" => n <= 0,
           st = "PENDING" => n < AtLeastOne(CreditConfs)
    PROVE  LET e == EventOf(st, n)
           IN /\ st = "REORGED" => Notified(e) = "REVERTED" /\ ~Asks(e)
              /\ st = "FINALIZED" => Notified(e) = "FINALIZED" /\ Asks(e)
              /\ st = "CONFIRMED" =>
                   /\ Asks(e)
                   /\ \/ Notified(e) = "CONFIRMED"
                      \/ Notified(e) = "FINALIZED" /\ n >= UnlockConfs
              /\ st \in {"SEEN", "PENDING"} => Notified(e) = "PENDING" /\ ~Asks(e)
<1> USE DepositAssumption
<1> DEFINE e == EventOf(st, n)
           req == AtLeastOne(CreditConfs)
           unlock == RaisedUnlock(UnlockConfs, req)
<1>1. req \in Nat /\ req >= 1
  BY DEF AtLeastOne
<1>2. unlock \in Int /\ unlock >= UnlockConfs /\ (unlock > 0 => unlock >= req)
  BY <1>1 DEF RaisedUnlock
<1>3. RaisedUnlock(unlock, AtLeastOne(req)) = unlock /\ AtLeastOne(req) = req
  BY <1>1, <1>2, Zenon DEF RaisedUnlock, AtLeastOne
<1>4. e.scan = st /\ e.confs = n /\ e.status = MapDepositLedgerStatus(st) /\ st # "BLANK"
  BY Zenon DEF EventOf, ScanStatus
<1>5. Notified(e) = NormalizeDepositLifecycleStatus(st, MapDepositLedgerStatus(st), n, req, unlock)
  BY <1>4, Zenon DEF Notified, TargetStatus
<1>6. Asks(e) <=> MapDepositLedgerStatus(st) = "CONFIRMED"
  BY <1>4, Zenon DEF Asks
<1> HIDE DEF e, req, unlock
<1>7. CASE st = "REORGED"
  BY <1>5, <1>6, <1>7, Zenon DEF NormalizeDepositLifecycleStatus, MapDepositLedgerStatus, e
<1>8. CASE st = "FINALIZED"
  BY <1>5, <1>6, <1>8, Zenon DEF NormalizeDepositLifecycleStatus, MapDepositLedgerStatus, e
<1>9. CASE st = "CONFIRMED"
  <2>1. Notified(e) = IF unlock > 0 /\ n >= unlock THEN "FINALIZED" ELSE "CONFIRMED"
    BY <1>5, <1>9, Zenon DEF NormalizeDepositLifecycleStatus
  <2>2. n >= unlock => n >= UnlockConfs
    BY <1>2
  <2>3. Asks(e)
    BY <1>6, <1>9, Zenon DEF MapDepositLedgerStatus
  <2> QED BY <1>9, <2>1, <2>2, <2>3, Zenon DEF e
<1>10. CASE st \in {"SEEN", "PENDING"}
  <2>1. MapDepositLedgerStatus(st) = "PENDING"
    BY <1>10, Zenon DEF MapDepositLedgerStatus
  <2>2. n < req /\ ~(unlock > 0 /\ n >= unlock)
    BY <1>1, <1>2, <1>10 DEF req
  <2>3. Notified(e) = "PENDING"
    BY <1>1, <1>3, <1>5, <1>10, <2>1, <2>2, SMTT(60) DEF NormalizeDepositLifecycleStatus
  <2> QED BY <1>6, <1>10, <2>1, <2>3, Zenon DEF e
<1> QED BY <1>7, <1>8, <1>9, <1>10, Zenon DEF ScanStatus, e

\* So an answer becomes an event that reverts a failed deposit, and credits one
\* that is final or deep enough.
LEMMA SightIs ==
    ASSUME NEW f, f.status \in Verdicts, f.confs \in Int
    PROVE  /\ Sight(f) \in EventType
           /\ Notified(Sight(f)) \in Credited <=> Asks(Sight(f))
           /\ Notified(Sight(f)) = "REVERTED" => f.status = "REVERTED"
           /\ Notified(Sight(f)) \in Credited =>
                \/ f.status = "FINALIZED"
                \/ f.status # "REVERTED" /\ f.confs >= AtLeastOne(CreditConfs)
           /\ Notified(Sight(f)) = "FINALIZED" => f.status = "FINALIZED" \/ f.confs >= UnlockConfs
           /\ f.status # "REVERTED" /\ f.confs >= AtLeastOne(CreditConfs) => Asks(Sight(f))
<1> DEFINE st == ResolveDepositScanStatus(f.status, f.confs, CreditConfs, UnlockConfs, ReorgWindow)
           min == AtLeastOne(CreditConfs)
<1>1. \/ f.status = "REVERTED" /\ st = "REORGED"
      \/ f.status = "FINALIZED" /\ st = "FINALIZED"
      \/ /\ f.status \notin {"REVERTED", "FINALIZED"}
         /\ \/ f.confs <= 0 /\ st = "SEEN"
            \/ f.confs > 0 /\ f.confs < min /\ st = "PENDING"
            \/ f.confs >= min /\ st = "CONFIRMED"
            \/ f.confs >= min /\ f.confs >= UnlockConfs /\ st = "FINALIZED"
  BY ScanStatusIs, Zenon
<1>2. min \in Nat /\ min >= 1
  BY DepositAssumption DEF AtLeastOne
<1>3. Sight(f) = EventOf(st, f.confs)
  BY Zenon DEF Sight
<1> HIDE DEF st, min
<1>4. st \in ScanStatus /\ (st = "SEEN" => f.confs <= 0) /\ (st = "PENDING" => f.confs < min)
  BY <1>1, Zenon DEF ScanStatus
<1>5. /\ st = "REORGED" => Notified(Sight(f)) = "REVERTED" /\ ~Asks(Sight(f))
      /\ st = "FINALIZED" => Notified(Sight(f)) = "FINALIZED" /\ Asks(Sight(f))
      /\ st = "CONFIRMED" =>
           /\ Asks(Sight(f))
           /\ \/ Notified(Sight(f)) = "CONFIRMED"
              \/ Notified(Sight(f)) = "FINALIZED" /\ f.confs >= UnlockConfs
      /\ st \in {"SEEN", "PENDING"} => Notified(Sight(f)) = "PENDING" /\ ~Asks(Sight(f))
  BY <1>3, <1>4, NotifiedIs DEF min
<1>6. Sight(f) \in EventType
  BY <1>3, <1>4 DEF EventOf, EventType, MapDepositLedgerStatus, LedgerStatus
<1> QED BY <1>1, <1>2, <1>4, <1>5, <1>6 DEF Credited, min, ScanStatus

\* What the node shows of a transaction.
LEMMA ShownIs ==
    ASSUME PipeTyped, ChainTells, NEW x \in Transactions
    PROVE  /\ Shown(x) \in ShownTx
           /\ Shown(x).place = "block" <=> Mined(x)
           /\ Mined(x) => Shown(x).depth = chain[x].confs /\ (Shown(x).good <=> chain[x].raw = "OK")
<1>1. chain[x].confs \in Int /\ chain[x].confs >= -1
  BY Zenon DEF PipeTyped, ChainTells, ChainType
<1>2. CASE chain[x].confs = -1
  <2>1. Shown(x) = Unknown
    BY <1>2 DEF Shown
  <2> QED BY <1>2, <2>1 DEF ShownTx, Unknown, Mined
<1>3. CASE chain[x].confs = 0
  <2>1. Shown(x) = Pooled
    BY <1>3 DEF Shown
  <2> QED BY <1>3, <2>1 DEF ShownTx, Pooled, Mined
<1>4. CASE chain[x].confs >= 1
  <2>1. chain[x].confs \in Nat \ {0}
    BY <1>1, <1>4
  <2>2. Shown(x) = InBlock(chain[x].confs, chain[x].raw = "OK")
    BY <1>4 DEF Shown
  <2>3. CASE chain[x].raw = "OK"
    <3>1. Shown(x) = InBlock(chain[x].confs, TRUE)
      BY <2>2, <2>3, Zenon
    <3>2. InBlock(chain[x].confs, TRUE) \in ShownTx
      BY <2>1, Zenon DEF ShownTx
    <3>3. /\ Shown(x).place = "block" /\ Shown(x).depth = chain[x].confs
          /\ Shown(x).good = TRUE
      BY <3>1 DEF InBlock
    <3> QED BY <1>4, <2>3, <3>1, <3>2, <3>3, Zenon DEF Mined
  <2>4. CASE chain[x].raw # "OK"
    <3>1. Shown(x) = InBlock(chain[x].confs, FALSE)
      BY <2>2, <2>4, Zenon
    <3>2. InBlock(chain[x].confs, FALSE) \in ShownTx
      BY <2>1, Zenon DEF ShownTx
    <3>3. /\ Shown(x).place = "block" /\ Shown(x).depth = chain[x].confs
          /\ Shown(x).good = FALSE
      BY <3>1 DEF InBlock
    <3> QED BY <1>4, <2>4, <3>1, <3>2, <3>3, Zenon DEF Mined
  <2> QED BY <2>3, <2>4, Zenon
<1> QED BY <1>1, <1>2, <1>3, <1>4

\* What an answer may say of a transaction.
Honest(x, f) ==
    /\ f.status \in Verdicts /\ f.confs \in Int
    /\ f.status = "REVERTED" => Mined(x) /\ chain[x].raw # "OK"
    /\ f.status = "FINALIZED" => Mined(x) /\ chain[x].raw = "OK" /\ chain[x].confs >= FinalDepth
    /\ f.confs > 0 /\ f.status # "REVERTED" =>
         /\ Mined(x) /\ f.confs <= chain[x].confs
         /\ chain[x].raw = "OK" \/ setup.family = "lagging"
    /\ setup.family \in {"evm", "token"} /\ Mined(x) /\ chain[x].raw = "OK" =>
         f.status = "CONFIRMED" /\ f.confs = chain[x].confs

\* On an EVM chain the answers count whatever succeeded in a block.
LEMMA EvmAnswers ==
    ASSUME NEW family \in {"evm", "token"}, NEW tx \in ShownTx, tx.place = "block", tx.good,
           NEW f \in TxFinality(family, tx) \cup IncomingTransfers(family, tx)
    PROVE  f.status = "CONFIRMED" /\ f.confs = tx.depth
<1>1. tx.depth \in Nat \ {0}
  BY DEF ShownTx, Unknown, Pooled, InBlock
<1>2. EvmTx(tx) = {Payload("CONFIRMED", tx.depth)}
  BY Zenon DEF EvmTx
<1>3. /\ Payload("CONFIRMED", tx.depth).status = "CONFIRMED"
      /\ Payload("CONFIRMED", tx.depth).confs = tx.depth
  BY Zenon DEF Payload
<1>4. NormalizeTxStatus("CONFIRMED") = "CONFIRMED" /\ NormalizeConfirmations(tx.depth) = tx.depth
  BY <1>1 DEF NormalizeTxStatus, NormalizeConfirmations
<1>5. CASE f \in TxFinality(family, tx)
  <2>1. f = Finality(Payload("CONFIRMED", tx.depth))
    BY <1>2, <1>5, Zenon DEF TxFinality, GetTxByHash
  <2> QED BY <1>3, <1>4, <2>1, Zenon DEF Finality
<1>6. CASE f \in IncomingTransfers(family, tx)
  <2>1. GetTxByAddress(family, tx) = {Payload("CONFIRMED", tx.depth)}
    <3>1. CASE family = "evm"
      BY <1>2, <3>1, Zenon DEF GetTxByAddress, EvmListed
    <3>2. CASE family = "token"
      BY <3>2, Zenon DEF GetTxByAddress, TokenListed
    <3> QED BY <3>1, <3>2, Zenon
  <2>2. f.status = "CONFIRMED" /\ f.confs = NormalizeConfirmations(tx.depth)
    BY <1>3, <1>4, <1>6, <2>1 DEF IncomingTransfers, Unspents
  <2> QED BY <1>4, <2>2, Zenon
<1> QED BY <1>5, <1>6, Zenon

\* TxFinality's answers are honest.
LEMMA FinalityHonest ==
    ASSUME PipeTyped, ChainTells, setup.family # "aptos", NEW x \in Transactions,
           NEW f \in TxFinality(setup.family, Shown(x))
    PROVE  Honest(x, f) /\ f.found
<1>1. setup.family \in Families
  BY PipelineAssumption, Zenon DEF PipeTyped, SetupType
<1> DEFINE tx == Shown(x)
<1>2. /\ tx \in ShownTx /\ (tx.place = "block" <=> Mined(x))
      /\ Mined(x) => tx.depth = chain[x].confs /\ (tx.good <=> chain[x].raw = "OK")
  BY ShownIs, Zenon
<1> HIDE DEF tx
<1>3. f \in TxFinality(setup.family, tx)
  BY Zenon DEF tx
<1>4. /\ f.status \in {"PENDING", "CONFIRMED", "REVERTED", "FINALIZED"} /\ f.confs \in Int
      /\ f.status = "REVERTED" => tx.place = "block" /\ ~tx.good
      /\ f.status \in {"CONFIRMED", "FINALIZED"} /\ f.confs > 0 =>
           tx.place = "block" /\ tx.good /\ f.confs <= tx.depth
      /\ f.status = "FINALIZED" => tx.place = "block" /\ tx.good /\ tx.depth >= FinalDepth
      /\ f.status = "PENDING" /\ f.confs > 0 =>
           setup.family = "lagging" /\ tx.place = "block" /\ f.confs <= tx.depth
  BY <1>1, <1>2, <1>3, AnswersFair
<1>5. setup.family \in {"evm", "token"} /\ Mined(x) /\ chain[x].raw = "OK" =>
        f.status = "CONFIRMED" /\ f.confs = chain[x].confs
  BY <1>2, <1>3, EvmAnswers, ZenonT(60)
<1>6. f.found
  BY <1>3 DEF TxFinality, Finality
<1> QED BY <1>2, <1>4, <1>5, <1>6, Zenon DEF Honest, Verdicts

\* So are the listings.
LEMMA ListingHonest ==
    ASSUME PipeTyped, ChainTells, NEW x \in Transactions,
           NEW f \in IncomingTransfers(setup.family, Shown(x))
    PROVE  /\ Honest(x, f) /\ setup.family # "aptos"
           /\ setup.family \in Unspents => f.status = "BLANK"
<1>1. setup.family \in Families
  BY PipelineAssumption, Zenon DEF PipeTyped, SetupType
<1> DEFINE tx == Shown(x)
<1>2. /\ tx \in ShownTx /\ (tx.place = "block" <=> Mined(x))
      /\ Mined(x) => tx.depth = chain[x].confs /\ (tx.good <=> chain[x].raw = "OK")
  BY ShownIs, Zenon
<1> HIDE DEF tx
<1>3. f \in IncomingTransfers(setup.family, tx)
  BY Zenon DEF tx
<1>4. /\ f.status \in Verdicts /\ f.confs \in Int
      /\ f.status = "REVERTED" => tx.place = "block" /\ ~tx.good
      /\ f.status = "FINALIZED" => tx.place = "block" /\ tx.good /\ tx.depth >= FinalDepth
      /\ f.confs > 0 => /\ tx.place = "block" /\ f.confs <= tx.depth
                        /\ tx.good \/ f.status = "REVERTED" \/ setup.family \in Unspents
      /\ setup.family \in Unspents => f.status = "BLANK"
      /\ setup.family # "aptos"
  BY <1>1, <1>2, <1>3, ListingsFair, Zenon DEF Verdicts
<1>5. setup.family \in {"evm", "token"} /\ Mined(x) /\ chain[x].raw = "OK" =>
        f.status = "CONFIRMED" /\ f.confs = chain[x].confs
  BY <1>2, <1>3, EvmAnswers, ZenonT(60)
<1>6. setup.family \in Unspents => chain[x].raw = "OK"
  BY Zenon DEF ChainTells
<1> QED BY <1>2, <1>4, <1>5, <1>6, Zenon DEF Honest

\* An honest answer becomes an event the chain has earned; on an EVM chain
\* without reorganisations it credits exactly what is deep enough.
LEMMA SightEarned ==
    ASSUME PipeTyped, ChainTells, NEW d \in Deposits, NEW f, Honest(TxOf[d], f)
    PROVE  /\ Sight(f) \in EventType
           /\ Sees(setup, undone, deepest, d, Sight(f))
           /\ setup.family \in {"evm", "token"} =>
                /\ Notified(Sight(f)) \in Credited => Rooted(TxOf[d])
                /\ Rooted(TxOf[d]) => Asks(Sight(f))
<1> DEFINE x == TxOf[d]
           e == Sight(f)
           min == AtLeastOne(CreditConfs)
<1>1. x \in Transactions
  BY PipelineAssumption, Zenon
<1>2. min \in Nat /\ min >= 1 /\ min >= CreditConfs /\ UnlockConfs \in Int /\ CreditConfs \in Int
  BY DepositAssumption DEF AtLeastOne
<1>3. FinalDepth \in Nat \ {0}
  BY FinalDepthAssumption, Zenon
<1>4. /\ e \in EventType
      /\ Notified(e) \in Credited <=> Asks(e)
      /\ Notified(e) = "REVERTED" => f.status = "REVERTED"
      /\ Notified(e) \in Credited =>
           \/ f.status = "FINALIZED"
           \/ f.status # "REVERTED" /\ f.confs >= min
      /\ Notified(e) = "FINALIZED" => f.status = "FINALIZED" \/ f.confs >= UnlockConfs
      /\ f.status # "REVERTED" /\ f.confs >= min => Asks(e)
  <2>1. f.status \in Verdicts /\ f.confs \in Int
    BY Zenon DEF Honest
  <2> QED BY <2>1, SightIs, Zenon
<1>5. /\ chain[x].confs \in Int /\ deepest[x] \in Nat
      /\ Mined(x) /\ chain[x].raw = "OK" => deepest[x] >= chain[x].confs
      /\ chain[x].raw # "OK" => <<x, "failed">> \in undone
  BY <1>1, Zenon DEF PipeTyped, ChainTells, ChainType
<1>6. Honest(x, f)
  BY Zenon
<1> HIDE DEF x, e, min
<1>7. Notified(e) = "REVERTED" => <<x, "failed">> \in undone
  BY <1>4, <1>5, <1>6, Zenon DEF Honest
<1>8. ASSUME Notified(e) \in Credited, f.status = "FINALIZED"
      PROVE  deepest[x] >= FinalDepth
  BY <1>3, <1>5, <1>6, <1>8, SMTT(60) DEF Honest
<1>9. ASSUME Notified(e) \in Credited, f.status # "FINALIZED",
             setup.family # "lagging" \/ <<x, "failed">> \notin undone
      PROVE  /\ f.confs >= min /\ deepest[x] >= f.confs
             /\ chain[x].raw = "OK" /\ chain[x].confs >= f.confs
  BY <1>2, <1>4, <1>5, <1>6, <1>9 DEF Honest
<1>10. Deserved(setup, undone, deepest, d, Notified(e))
  <2>1. ~Misread(setup, undone, d) <=> setup.family # "lagging" \/ <<x, "failed">> \notin undone
    BY Zenon DEF Misread, x
  <2>2. f.confs \in Int
    BY Zenon DEF Honest
  <2>3. Notified(e) = "FINALIZED" => Notified(e) \in Credited
    BY Zenon DEF Credited
  <2>4. ASSUME Notified(e) \in Credited, ~Misread(setup, undone, d)
        PROVE  /\ deepest[x] >= 1
               /\ Thresholds => deepest[x] >= CreditConfs
               /\ Notified(e) = "FINALIZED" /\ Thresholds => deepest[x] >= UnlockConfs
    <3>1. CASE f.status = "FINALIZED"
      BY <1>2, <1>3, <1>5, <1>8, <2>4, <3>1, SMTT(60) DEF Thresholds
    <3>2. CASE f.status # "FINALIZED"
      BY <1>2, <1>4, <1>5, <1>9, <2>1, <2>2, <2>4, <3>2, SMTT(60)
    <3> QED BY <3>1, <3>2, Zenon
  <2> QED BY <1>7, <2>3, <2>4, Zenon DEF Deserved, x
<1>11. Formed(setup, e)
  BY <1>4, Zenon DEF Formed
<1>12. ASSUME setup.family \in {"evm", "token"}
       PROVE  /\ Notified(e) \in Credited => Rooted(x)
              /\ Rooted(x) => Asks(e)
  <2>1. ASSUME Rooted(x)
        PROVE  f.status = "CONFIRMED" /\ f.confs >= min
    BY <1>2, <1>5, <1>6, <1>12, <2>1 DEF Honest, Rooted, Mined, min
  <2>2. f.status # "FINALIZED"
    BY <1>6, <1>12, ZenonT(60) DEF Honest
  <2>3. f.confs \in Int
    BY Zenon DEF Honest
  <2>4. Notified(e) \in Credited => Rooted(x)
    BY <1>2, <1>5, <1>9, <1>12, <2>2, <2>3, SMTT(60) DEF Rooted, min
  <2> QED BY <1>4, <2>1, <2>4, ZenonT(60)
<1> QED BY <1>4, <1>10, <1>11, <1>12, Zenon DEF Sees, x, e

\* The event of an unspent output credits at the threshold, and never more.
LEMMA UnspentEarned ==
    ASSUME PipeTyped, ChainTells, NEW d \in Deposits, NEW f, Honest(TxOf[d], f),
           f.status = "BLANK", setup.family \in Unspents,
           NEW e, e = [scan |-> "BLANK", confs |-> f.confs,
                       status |-> ResolveDepositStatus(f.status, f.confs, CreditConfs)]
    PROVE  e \in EventType /\ Sees(setup, undone, deepest, d, e)
<1> DEFINE x == TxOf[d]
           min == AtLeastOne(CreditConfs)
<1>1. x \in Transactions
  BY PipelineAssumption, Zenon
<1>2. min \in Nat /\ min >= 1 /\ min >= CreditConfs /\ CreditConfs \in Int /\ AtLeastOne(min) = min
  BY DepositAssumption DEF AtLeastOne
<1>3. f.confs \in Int
  BY Zenon DEF Honest
<1>4. /\ chain[x].confs \in Int /\ deepest[x] \in Nat
      /\ Mined(x) /\ chain[x].raw = "OK" => deepest[x] >= chain[x].confs
      /\ chain[x].raw = "OK"
  BY <1>1, Zenon DEF PipeTyped, ChainTells, ChainType
<1>5. Honest(x, f)
  BY Zenon
<1>6. ResolveDepositStatus(f.status, f.confs, CreditConfs) =
        IF f.confs >= min THEN "CONFIRMED" ELSE "PENDING"
  BY Zenon DEF ResolveDepositStatus
<1> HIDE DEF x, min
<1>7. e.scan = "BLANK" /\ e.confs = f.confs /\ ~Asks(e)
  BY Zenon DEF Asks
<1>8. e.status = IF f.confs >= min THEN "CONFIRMED" ELSE "PENDING"
  BY <1>6, Zenon
<1>9. e \in EventType
  BY <1>3, <1>6, Zenon DEF EventType, LedgerStatus
<1>10. Notified(e) = NormalizeDepositLifecycleStatus("BLANK", e.status, f.confs, min, 0)
  BY <1>7, Zenon DEF Notified, min
<1>11. RaisedUnlock(0, min) = 0
  BY <1>2 DEF RaisedUnlock
<1>12. Notified(e) = IF f.confs >= min THEN "CONFIRMED" ELSE "PENDING"
  BY <1>2, <1>3, <1>8, <1>10, <1>11, SMTT(60) DEF NormalizeDepositLifecycleStatus
<1>13. f.confs >= min => deepest[x] >= min
  BY <1>2, <1>3, <1>4, <1>5, SMTT(60) DEF Honest
<1>14. Deserved(setup, undone, deepest, d, Notified(e))
  BY <1>2, <1>4, <1>12, <1>13, SMTT(60) DEF Deserved, Credited, x
<1> QED BY <1>7, <1>9, <1>14, Zenon DEF Sees, Formed

\* The event of a row that does not exist says nothing.
LEMMA NoEventEarned ==
    ASSUME NEW s, NEW u, NEW p, NEW d
    PROVE  NoEvent \in EventType /\ Notified(NoEvent) = "PENDING" /\ Sees(s, u, p, d, NoEvent)
<1> DEFINE min == AtLeastOne(CreditConfs)
<1>1. min \in Nat /\ min >= 1 /\ AtLeastOne(min) = min
  BY DepositAssumption DEF AtLeastOne
<1>2. NoEvent.scan = "BLANK" /\ NoEvent.status = "BLANK" /\ NoEvent.confs = 0
  BY Zenon DEF NoEvent
<1>3. Notified(NoEvent) = NormalizeDepositLifecycleStatus("BLANK", "BLANK", 0, min, 0)
  BY <1>2, Zenon DEF Notified
<1> HIDE DEF min
<1>4. RaisedUnlock(0, min) = 0
  BY <1>1 DEF RaisedUnlock
<1>5. Notified(NoEvent) = "PENDING"
  BY <1>1, <1>3, <1>4 DEF NormalizeDepositLifecycleStatus
<1>6. ~Asks(NoEvent)
  BY <1>2, Zenon DEF Asks
<1>7. NoEvent \in EventType
  BY DEF NoEvent, EventType
<1> QED BY <1>5, <1>6, <1>7, Zenon DEF Sees, Deserved, Formed, Credited

\* What the chain has shown once stays shown.
LEMMA EarnedStays ==
    ASSUME NEW s, NEW u, NEW v, u \subseteq v,
           NEW p \in [Transactions -> Nat], NEW q \in [Transactions -> Nat],
           \A x \in Transactions : p[x] <= q[x],
           NEW d \in Deposits
    PROVE  /\ \A st : Deserved(s, u, p, d, st) => Deserved(s, v, q, d, st)
           /\ \A e : Sees(s, u, p, d, e) => Sees(s, v, q, d, e)
<1>1. TxOf[d] \in Transactions /\ p[TxOf[d]] \in Nat /\ q[TxOf[d]] \in Nat
        /\ p[TxOf[d]] <= q[TxOf[d]]
  BY PipelineAssumption, Zenon
<1>2. ~Misread(s, v, d) => ~Misread(s, u, d)
  BY Zenon DEF Misread
<1>3. ASSUME NEW st, Deserved(s, u, p, d, st)
      PROVE  Deserved(s, v, q, d, st)
  BY <1>1, <1>2, <1>3, DepositAssumption DEF Deserved
<1> QED BY <1>3, Zenon DEF Sees

-----------------------------------------------------------------------------
(* The shapes of the pipeline's steps. *)

PipeInv == PipeTyped /\ ChainTells /\ AllDeserved /\ Blind /\ CreditFirst /\ Exclusive /\ Followed

\* The chain moves and nothing else does.
ChainMoves ==
    /\ UNCHANGED <<setup, journal, deposits, seen, outbox, announced, hands>>
    /\ chain' \in [Transactions -> ChainType] /\ deepest' \in [Transactions -> Nat]
    /\ undone \subseteq undone'
    /\ \A x \in Transactions :
         /\ deepest[x] <= deepest'[x]
         /\ Rooted(x) /\ <<x, "orphaned">> \notin undone' => Rooted(x)'

\* A scanner moves and the chain does not, but for the scan checkpoint.
HandMoves(i, h) ==
    /\ hands' = [hands EXCEPT ![i] = h] /\ h \in HandRow
    /\ UNCHANGED <<setup, deepest, undone>>
    /\ chain' \in [Transactions -> ChainType]
    /\ \A x \in Transactions : chain'[x].confs = chain[x].confs /\ chain'[x].raw = chain[x].raw

Carries(g, h) == h.dep = g.dep /\ h.event = g.event /\ h.found = g.found

\* A scanner looks at the chain.
Looks(i, h) ==
    /\ HandMoves(i, h) /\ UNCHANGED <<journal, deposits, seen, outbox, announced>>
    /\ h.pc \in {"note", "upsert"} /\ h.dep \in Deposits /\ h.found
    /\ Sees(setup, undone, deepest, h.dep, h.event)
    /\ setup.family # "aptos"
    /\ setup.family \in {"evm", "token"} =>
         /\ i \in setup.scanners
         /\ Notified(h.event) \in Credited => Rooted(TxOf[h.dep])
         /\ Rooted(TxOf[h.dep]) => Asks(h.event)

\* A scanner takes an event from the outbox.
Fetches(i, h) ==
    /\ HandMoves(i, h) /\ UNCHANGED <<journal, deposits, seen, outbox, announced>>
    /\ i \in setup.scanners
    /\ h.pc = "deliver" /\ h.dep \in Deposits /\ h.found
    /\ outbox[h.dep].status = "PENDING" /\ h.event = outbox[h.dep].event

\* A scanner goes on with what it holds, or drops it.
Works(i, h) ==
    /\ HandMoves(i, h) /\ UNCHANGED <<journal, deposits, outbox, announced>>
    /\ seen' \in [Deposits -> SeenRow]
    /\ hands[i].pc # "idle"
    /\ \/ h = Idle
       \/ /\ hands[i].pc \in {"note", "upsert"} /\ h.pc \in {"upsert", "enqueue", "checkpoint"}
          /\ Carries(hands[i], h)

\* The event a scanner holds is staged; a row that was dispatched may stay.
Stages(i, h, b) ==
    /\ HandMoves(i, h) /\ UNCHANGED <<journal, deposits, seen, announced>>
    /\ outbox' = [outbox EXCEPT ![hands[i].dep] = b] /\ b \in BoxRow
    /\ hands[i].pc = "enqueue"
    /\ h = Idle \/ (h.pc = "checkpoint" /\ Carries(hands[i], h))
    /\ \/ b = outbox[hands[i].dep]
       \/ b.status = "PENDING" /\ b.event = hands[i].event

\* The event a scanner holds reaches the ledger, or does not.
Delivers(i, h) ==
    /\ HandMoves(i, h) /\ UNCHANGED <<seen, outbox, announced>>
    /\ hands[i].pc = "deliver" /\ Carries(hands[i], h)
    /\ \/ /\ CreditDepositTo(hands[i].dep, Notified(hands[i].event))
          /\ h.pc = (IF Asks(hands[i].event) THEN "follow" ELSE "done") \/ h.pc = "retry"
       \/ h.pc = "retry" /\ UNCHANGED <<journal, deposits>>

\* The follow-ups of a delivered event are staged.
FollowsUp(i, h) ==
    /\ HandMoves(i, h) /\ UNCHANGED <<journal, deposits, seen, outbox>>
    /\ hands[i].pc = "follow" /\ h.pc = "done" /\ Carries(hands[i], h)
    /\ \/ announced' = announced \cup {hands[i].dep}
       \/ announced' = announced /\ "db" \in setup.faultKinds

\* The event is marked as dispatched or for another try.
Marks(i, h, b) ==
    /\ HandMoves(i, h) /\ UNCHANGED <<journal, deposits, seen, announced>>
    /\ outbox' = [outbox EXCEPT ![hands[i].dep] = b] /\ b \in BoxRow
    /\ h = Idle /\ b.event = outbox[hands[i].dep].event
    /\ \/ hands[i].pc = "done" /\ b.status = "DONE"
       \/ hands[i].pc = "retry" /\ b.status \in {"PENDING", "FAILED"}

\* A scanner that goes to another step keeps what it holds.
LEMMA GotoMoves ==
    ASSUME PipeTyped, NEW i \in Scanners, NEW q \in HandStep, Goto(i, q)
    PROVE  \E h \in HandRow : /\ hands' = [hands EXCEPT ![i] = h]
                              /\ h.pc = q /\ Carries(hands[i], h)
<1> DEFINE h == [hands[i] EXCEPT !.pc = q]
<1>1. hands[i] \in HandRow
  BY Zenon DEF PipeTyped
<1>2. h \in HandRow /\ h.pc = q /\ h.dep = hands[i].dep /\ h.event = hands[i].event
        /\ h.found = hands[i].found
  BY <1>1, Zenon DEF HandRow
<1>3. hands' = [hands EXCEPT ![i] = h]
  BY Zenon DEF Goto
<1> HIDE DEF h
<1> QED BY <1>2, <1>3, Zenon DEF Carries

\* The hand of a scanner that rests.
LEMMA IdleHand ==
    Idle \in HandRow /\ Idle.pc = "idle"
<1>1. NoEvent \in EventType
  BY DEF NoEvent, EventType
<1> QED BY <1>1, Zenon DEF Idle, HandRow, HandStep

\* A scanner that leaves goes to the checkpoint, or rests.
LEMMA LeaveMoves ==
    ASSUME PipeTyped, NEW i \in Scanners, Leave(i)
    PROVE  \E h \in HandRow : /\ hands' = [hands EXCEPT ![i] = h]
                              /\ h = Idle \/ (h.pc = "checkpoint" /\ Carries(hands[i], h))
<1>1. CASE hands[i].scan
  <2>1. Goto(i, "checkpoint")
    BY <1>1, Zenon DEF Leave
  <2>2. "checkpoint" \in HandStep
    BY Zenon DEF HandStep
  <2> QED BY <2>1, <2>2, GotoMoves, Zenon
<1>2. CASE ~hands[i].scan
  <2>1. Rest(i)
    BY <1>2, Zenon DEF Leave
  <2> QED BY <2>1, IdleHand, Zenon DEF Rest
<1> QED BY <1>1, <1>2, Zenon

\* The steps of the chain.
LEMMA ChainStepMoves ==
    ASSUME PipeTyped, ChainTells, ChainStep
    PROVE  ChainMoves /\ ChainTells'
<1> USE PipelineAssumption
<1>1. ASSUME NEW d \in Deposits, Include(d)
      PROVE  ChainMoves /\ ChainTells'
  <2> DEFINE x == TxOf[d]
  <2>1. x \in Transactions /\ chain[x].confs \in Int /\ deepest[x] \in Nat
    BY Zenon DEF PipeTyped, ChainType
  <2>2. ~Mined(x) /\ ~(chain[x].confs >= 1)
    BY <1>1, Zenon DEF Include, Mined
  <2>3. PICK raw \in Outcomes, ahead \in {TRUE, <<x, "orphaned">> \notin undone} :
          /\ chain' = [chain EXCEPT ![x] = [confs |-> 1, at |-> d, raw |-> raw, ahead |-> ahead]]
          /\ deepest' = [deepest EXCEPT ![x] = IF raw = "OK" /\ @ = 0 THEN 1 ELSE @]
          /\ undone' = IF raw = "OK" THEN undone ELSE undone \cup {<<x, "failed">>}
    BY <1>1, Zenon DEF Include
  <2>4. raw \in {"OK", "REVERTED"} /\ (setup.family \in Unspents => raw = "OK")
    BY Zenon DEF Outcomes
  <2>5. [confs |-> 1, at |-> d, raw |-> raw, ahead |-> ahead] \in ChainType
    <3>1. ahead \in BOOLEAN
      BY Zenon
    <3>2. 1 \in Int
      OBVIOUS
    <3> HIDE DEF x
    <3> QED BY <2>4, <3>1, <3>2, Zenon DEF ChainType
  <2>6. /\ chain' \in [Transactions -> ChainType]
        /\ chain'[x].confs = 1 /\ chain'[x].raw = raw
        /\ \A y \in Transactions \ {x} : chain'[y] = chain[y]
    BY <2>1, <2>3, <2>5, Zenon DEF PipeTyped
  <2>7. /\ deepest' \in [Transactions -> Nat]
        /\ deepest'[x] = IF raw = "OK" /\ deepest[x] = 0 THEN 1 ELSE deepest[x]
        /\ \A y \in Transactions \ {x} : deepest'[y] = deepest[y]
    BY <2>1, <2>3, Zenon DEF PipeTyped
  <2>8. /\ UNCHANGED <<setup, journal, deposits, seen, outbox, announced, hands>>
    BY <1>1, Zenon DEF Include, ledgerVars
  <2>9. /\ undone \subseteq undone'
        /\ raw = "OK" => undone' = undone
        /\ raw # "OK" => <<x, "failed">> \in undone'
        /\ \A y \in Transactions : <<y, "orphaned">> \in undone' <=> <<y, "orphaned">> \in undone
        /\ \A y \in Transactions \ {x} : <<y, "failed">> \in undone' <=> <<y, "failed">> \in undone
    BY <2>3, Zenon
  <2> HIDE DEF x
  <2>10. \A y \in Transactions :
           /\ deepest[y] <= deepest'[y]
           /\ Rooted(y) /\ <<y, "orphaned">> \notin undone' => Rooted(y)'
    <3>1. AtLeastOne(CreditConfs) \in Nat /\ AtLeastOne(CreditConfs) >= 1
      BY DepositAssumption DEF AtLeastOne
    <3>2. ~Rooted(x)
      BY <2>1, <2>2, <3>1, SMTT(60) DEF Rooted
    <3> QED BY <2>1, <2>6, <2>7, <3>2, SMTT(60) DEF Rooted, PipeTyped
  <2>11. ChainTells'
    <3> SUFFICES ASSUME NEW y \in Transactions
                 PROVE  /\ chain'[y].confs >= -1
                        /\ chain'[y].confs >= 1 /\ chain'[y].raw = "OK" => deepest'[y] >= chain'[y].confs
                        /\ chain'[y].raw # "OK" => <<y, "failed">> \in undone'
                        /\ setup.family \in Unspents => chain'[y].raw = "OK"
                        /\ <<y, "orphaned">> \notin undone' =>
                             \/ ~(chain'[y].confs >= 1) /\ deepest'[y] = 0 /\ <<y, "failed">> \notin undone'
                             \/ chain'[y].confs >= 1 /\ chain'[y].raw = "OK" /\ <<y, "failed">> \notin undone'
                             \/ chain'[y].confs >= 1 /\ chain'[y].raw # "OK" /\ deepest'[y] = 0
      BY <2>8, ZenonT(60) DEF ChainTells, Mined
    <3>1. CASE y = x
      BY <2>1, <2>2, <2>4, <2>6, <2>7, <2>9, <3>1, SMTT(60) DEF ChainTells, Mined
    <3>2. CASE y # x
      BY <2>6, <2>7, <2>9, <3>2, ZenonT(60) DEF ChainTells, Mined
    <3> QED BY <3>1, <3>2, Zenon
  <2> QED BY <2>6, <2>7, <2>8, <2>9, <2>10, <2>11, Zenon DEF ChainMoves
<1>2. ASSUME NEW x \in Transactions, Deepen(x)
      PROVE  ChainMoves /\ ChainTells'
  <2>1. chain[x] \in ChainType /\ chain[x].confs \in Int /\ deepest[x] \in Nat
    BY Zenon DEF PipeTyped, ChainType
  <2>2. chain[x].confs >= 1
    BY <1>2, Zenon DEF Deepen, Mined
  <2>3. [chain[x] EXCEPT !.confs = chain[x].confs + 1] \in ChainType
    BY <2>1 DEF ChainType
  <2>4. chain' = [chain EXCEPT ![x] = [chain[x] EXCEPT !.confs = chain[x].confs + 1]]
    BY <1>2, Zenon DEF Deepen
  <2>5. /\ chain' \in [Transactions -> ChainType]
        /\ \A y \in Transactions \ {x} : chain'[y] = chain[y]
    BY <2>3, <2>4, Zenon DEF PipeTyped
  <2>6. chain'[x].confs = chain[x].confs + 1 /\ chain'[x].raw = chain[x].raw
    BY <2>1, <2>4, Zenon DEF PipeTyped, ChainType
  <2>7. /\ deepest' \in [Transactions -> Nat]
        /\ deepest'[x] = IF chain[x].raw = "OK" /\ deepest[x] <= chain[x].confs
                         THEN chain[x].confs + 1 ELSE deepest[x]
        /\ \A y \in Transactions \ {x} : deepest'[y] = deepest[y]
    <3>1. deepest' = [deepest EXCEPT ![x] = IF chain[x].raw = "OK" /\ deepest[x] <= chain[x].confs
                                            THEN chain[x].confs + 1 ELSE deepest[x]]
      BY <1>2, Zenon DEF Deepen
    <3> QED BY <2>1, <2>2, <3>1 DEF PipeTyped
  <2>8. UNCHANGED <<setup, undone, journal, deposits, seen, outbox, announced, hands>>
    BY <1>2, Zenon DEF Deepen, ledgerVars
  <2>9. \A y \in Transactions :
          /\ deepest[y] <= deepest'[y]
          /\ Rooted(y) /\ <<y, "orphaned">> \notin undone' => Rooted(y)'
    <3>1. AtLeastOne(CreditConfs) \in Nat
      BY DepositAssumption DEF AtLeastOne
    <3> QED BY <2>1, <2>5, <2>6, <2>7, <3>1, SMTT(60) DEF Rooted, PipeTyped
  <2>10. ChainTells'
    <3> SUFFICES ASSUME NEW y \in Transactions
                 PROVE  /\ chain'[y].confs >= -1
                        /\ chain'[y].confs >= 1 /\ chain'[y].raw = "OK" => deepest'[y] >= chain'[y].confs
                        /\ chain'[y].raw # "OK" => <<y, "failed">> \in undone
                        /\ setup.family \in Unspents => chain'[y].raw = "OK"
                        /\ <<y, "orphaned">> \notin undone =>
                             \/ ~(chain'[y].confs >= 1) /\ deepest'[y] = 0 /\ <<y, "failed">> \notin undone
                             \/ chain'[y].confs >= 1 /\ chain'[y].raw = "OK" /\ <<y, "failed">> \notin undone
                             \/ chain'[y].confs >= 1 /\ chain'[y].raw # "OK" /\ deepest'[y] = 0
      BY <2>8, Zenon DEF ChainTells, Mined
    <3>1. CASE y = x
      BY <2>1, <2>2, <2>6, <2>7, <3>1, SMTT(60) DEF ChainTells, Mined
    <3>2. CASE y # x
      BY <2>5, <2>7, <3>2, Zenon DEF ChainTells, Mined
    <3> QED BY <3>1, <3>2, Zenon
  <2> QED BY <2>5, <2>7, <2>8, <2>9, <2>10, Zenon DEF ChainMoves
<1>3. ASSUME NEW x \in Transactions, Reorg(x)
      PROVE  ChainMoves /\ ChainTells'
  <2>1. PICK c \in {-1, 0} : chain' = [chain EXCEPT ![x] = NotMined(c)]
    BY <1>3, Zenon DEF Reorg
  <2>2. NotMined(c) \in ChainType /\ NotMined(c).confs = c /\ NotMined(c).raw = "OK"
    BY DEF NotMined, ChainType
  <2>3. /\ chain' \in [Transactions -> ChainType]
        /\ chain'[x].confs = c /\ chain'[x].raw = "OK"
        /\ \A y \in Transactions \ {x} : chain'[y] = chain[y]
    BY <2>1, <2>2, Zenon DEF PipeTyped
  <2>4. /\ UNCHANGED <<setup, deepest, journal, deposits, seen, outbox, announced, hands>>
        /\ undone' = undone \cup {<<x, "orphaned">>}
    BY <1>3, Zenon DEF Reorg, ledgerVars
  <2>5. \A y \in Transactions :
          /\ deepest[y] <= deepest'[y]
          /\ Rooted(y) /\ <<y, "orphaned">> \notin undone' => Rooted(y)'
    BY <2>3, <2>4 DEF Rooted, PipeTyped
  <2>6. ChainTells'
    <3> SUFFICES ASSUME NEW y \in Transactions
                 PROVE  /\ chain'[y].confs >= -1
                        /\ chain'[y].confs >= 1 /\ chain'[y].raw = "OK" => deepest[y] >= chain'[y].confs
                        /\ chain'[y].raw # "OK" => <<y, "failed">> \in undone'
                        /\ setup.family \in Unspents => chain'[y].raw = "OK"
                        /\ <<y, "orphaned">> \notin undone' =>
                             \/ ~(chain'[y].confs >= 1) /\ deepest[y] = 0 /\ <<y, "failed">> \notin undone'
                             \/ chain'[y].confs >= 1 /\ chain'[y].raw = "OK" /\ <<y, "failed">> \notin undone'
                             \/ chain'[y].confs >= 1 /\ chain'[y].raw # "OK" /\ deepest[y] = 0
      BY <2>4, Zenon DEF ChainTells, Mined
    <3>1. CASE y = x
      BY <2>3, <2>4, <3>1, SMTT(60)
    <3>2. CASE y # x
      BY <2>3, <2>4, <3>2, Zenon DEF ChainTells, Mined
    <3> QED BY <3>1, <3>2, Zenon
  <2> QED BY <2>3, <2>4, <2>5, <2>6, Zenon DEF ChainMoves, PipeTyped
<1> QED BY <1>1, <1>2, <1>3, Zenon DEF ChainStep

\* A scanner takes up a deposit d with the event e.
Takes(i, h, pc, d, e) ==
    /\ HandMoves(i, h) /\ UNCHANGED <<journal, deposits, seen, outbox, announced>>
    /\ hands[i].pc = "idle"
    /\ h.pc = pc /\ h.dep = d /\ h.event = e /\ h.found

\* What it takes up is all that moves.
LEMMA TakeMoves ==
    ASSUME PipeTyped, NEW i \in Scanners, NEW pc \in HandStep, NEW d \in Deposits,
           NEW e \in EventType,
           \E count \in Nat, scan \in BOOLEAN : Take(i, pc, d, e, count, scan, TRUE)
    PROVE  \E h : Takes(i, h, pc, d, e)
<1>1. PICK count \in Nat, scan \in BOOLEAN : Take(i, pc, d, e, count, scan, TRUE)
  BY Zenon
<1> DEFINE h == [pc |-> pc, dep |-> d, event |-> e, count |-> count, scan |-> scan, found |-> TRUE]
<1>2. h \in HandRow
  BY Zenon DEF HandRow
<1>3. hands' = [hands EXCEPT ![i] = h] /\ hands[i].pc = "idle"
  BY <1>1, Zenon DEF Take, At
<1>4. UNCHANGED <<setup, deepest, undone, chain>>
        /\ UNCHANGED <<journal, deposits, seen, outbox, announced>>
  BY <1>1, Zenon DEF Take, ledgerVars, chainVars
<1>5. h.pc = pc /\ h.dep = d /\ h.event = e /\ h.found
  BY Zenon
<1> HIDE DEF h
<1>6. HandMoves(i, h)
  BY <1>2, <1>3, <1>4, Zenon DEF HandMoves, PipeTyped
<1> QED BY <1>3, <1>4, <1>5, <1>6, Zenon DEF Takes

\* The steps that start something.
LEMMA StartShape ==
    ASSUME PipeTyped, ChainTells, Blind, NEW i \in Scanners, NEW d \in Deposits, Start(i, d)
    PROVE  \E h : hands[i].pc = "idle" /\ (Looks(i, h) \/ Fetches(i, h))
<1>1. TxOf[d] \in Transactions
  BY PipelineAssumption, Zenon
<1>2. /\ "note" \in HandStep /\ "upsert" \in HandStep /\ "deliver" \in HandStep
      /\ 0 \in Nat /\ TRUE \in BOOLEAN /\ FALSE \in BOOLEAN
  BY Zenon DEF HandStep
<1>3. CASE Scan(i, d)
  <2>1. PICK f \in IncomingTransfers(setup.family, Shown(TxOf[d])) :
          Take(i, "upsert", d, Sight(f), 0, TRUE, TRUE)
    BY <1>3, Zenon DEF Scan
  <2>2. Honest(TxOf[d], f) /\ setup.family # "aptos"
    BY <1>1, ListingHonest, Zenon
  <2>3. /\ Sight(f) \in EventType
        /\ Sees(setup, undone, deepest, d, Sight(f))
        /\ setup.family \in {"evm", "token"} =>
             /\ Notified(Sight(f)) \in Credited => Rooted(TxOf[d])
             /\ Rooted(TxOf[d]) => Asks(Sight(f))
    BY <2>2, SightEarned, Zenon
  <2>4. PICK h : Takes(i, h, "upsert", d, Sight(f))
    <3>1. \E count \in Nat, scan \in BOOLEAN : Take(i, "upsert", d, Sight(f), count, scan, TRUE)
      BY <1>2, <2>1, Zenon
    <3> QED BY <1>2, <2>3, <3>1, TakeMoves, Zenon
  <2>5. i \in setup.scanners
    BY <1>3, Zenon DEF Scan
  <2>6. Looks(i, h)
    BY <2>2, <2>3, <2>4, <2>5, Zenon DEF Looks, Takes
  <2> QED BY <2>4, <2>6, Zenon DEF Takes
<1>4. CASE ScanUnspent(i, d)
  <2>1. PICK f \in IncomingTransfers(setup.family, Shown(TxOf[d])) :
          Take(i, "upsert", d,
               [scan |-> "BLANK", status |-> ResolveDepositStatus(f.status, f.confs, CreditConfs),
                confs |-> f.confs], 0, TRUE, TRUE)
    BY <1>4, Zenon DEF ScanUnspent
  <2>2. setup.family \in Unspents
    BY <1>4, Zenon DEF ScanUnspent
  <2>3. Honest(TxOf[d], f) /\ setup.family # "aptos" /\ f.status = "BLANK"
    BY <1>1, <2>2, ListingHonest, Zenon
  <2> DEFINE e == [scan |-> "BLANK", status |-> ResolveDepositStatus(f.status, f.confs, CreditConfs),
                   confs |-> f.confs]
  <2>4. e \in EventType /\ Sees(setup, undone, deepest, d, e)
    <3>1. e = [scan |-> "BLANK", confs |-> f.confs,
               status |-> ResolveDepositStatus(f.status, f.confs, CreditConfs)]
      BY Zenon
    <3> HIDE DEF e
    <3> QED BY <2>2, <2>3, <3>1, UnspentEarned, Zenon
  <2>5. Take(i, "upsert", d, e, 0, TRUE, TRUE)
    BY <2>1, Zenon
  <2> HIDE DEF e
  <2>6. PICK h : Takes(i, h, "upsert", d, e)
    <3>1. \E count \in Nat, scan \in BOOLEAN : Take(i, "upsert", d, e, count, scan, TRUE)
      BY <1>2, <2>5, Zenon
    <3> QED BY <1>2, <2>4, <3>1, TakeMoves, Zenon
  <2>7. setup.family \notin {"evm", "token"}
    BY <2>2, Zenon DEF Unspents
  <2>8. Looks(i, h)
    BY <2>3, <2>4, <2>6, <2>7, Zenon DEF Looks, Takes
  <2> QED BY <2>6, <2>8, Zenon DEF Takes
<1>5. CASE Reconcile(i, d)
  <2>1. PICK f \in TxFinality(setup.family, Shown(TxOf[d])) :
          Take(i, "note", d, IF f.found THEN Sight(f) ELSE EventOf("REORGED", 0),
               seen[d].misses, FALSE, f.found)
    BY <1>5, Zenon DEF Reconcile
  <2>2. setup.family # "aptos"
    BY <1>5, Zenon DEF Reconcile, Candidate, Blind
  <2>3. Honest(TxOf[d], f) /\ f.found = TRUE
    <3>1. Honest(TxOf[d], f)
      BY <1>1, <2>2, FinalityHonest, Zenon
    <3>2. f.found = TRUE
      BY DEF TxFinality, Finality
    <3> QED BY <3>1, <3>2, Zenon
  <2>4. /\ Sight(f) \in EventType
        /\ Sees(setup, undone, deepest, d, Sight(f))
        /\ setup.family \in {"evm", "token"} =>
             /\ Notified(Sight(f)) \in Credited => Rooted(TxOf[d])
             /\ Rooted(TxOf[d]) => Asks(Sight(f))
    BY <2>3, SightEarned, Zenon
  <2>5. Take(i, "note", d, Sight(f), seen[d].misses, FALSE, TRUE)
    BY <2>1, <2>3, Zenon
  <2>6. seen[d].misses \in Nat
    BY Zenon DEF PipeTyped, SeenRow
  <2>7. PICK h : Takes(i, h, "note", d, Sight(f))
    <3>1. \E count \in Nat, scan \in BOOLEAN : Take(i, "note", d, Sight(f), count, scan, TRUE)
      BY <1>2, <2>5, <2>6, Zenon
    <3> QED BY <1>2, <2>4, <3>1, TakeMoves, Zenon
  <2>8. i \in setup.scanners
    BY <1>5, Zenon DEF Reconcile
  <2>9. Looks(i, h)
    BY <2>2, <2>4, <2>7, <2>8, Zenon DEF Looks, Takes
  <2> QED BY <2>7, <2>9, Zenon DEF Takes
<1>6. CASE Fetch(i, d)
  <2>1. /\ i \in setup.scanners /\ outbox[d].status = "PENDING"
        /\ Take(i, "deliver", d, outbox[d].event, outbox[d].tries, FALSE, TRUE)
    BY <1>6, Zenon DEF Fetch
  <2>2. outbox[d].event \in EventType /\ outbox[d].tries \in Nat
    BY Zenon DEF PipeTyped, BoxRow
  <2>3. PICK h : Takes(i, h, "deliver", d, outbox[d].event)
    <3>1. \E count \in Nat, scan \in BOOLEAN : Take(i, "deliver", d, outbox[d].event, count, scan, TRUE)
      BY <1>2, <2>1, <2>2, Zenon
    <3> QED BY <1>2, <2>2, <3>1, TakeMoves, Zenon
  <2>4. Fetches(i, h)
    BY <2>1, <2>3, Zenon DEF Fetches, Takes
  <2> QED BY <2>3, <2>4, Zenon DEF Takes
<1> QED BY <1>3, <1>4, <1>5, <1>6, Zenon DEF Start

\* The steps of a tick.
LEMMA ProceedShape ==
    ASSUME PipeTyped, AllDeserved, NEW i \in Scanners, Proceed(i) \/ Crash(i)
    PROVE  \E h : \/ Works(i, h) \/ Delivers(i, h) \/ FollowsUp(i, h)
                  \/ \E b : Stages(i, h, b) \/ Marks(i, h, b)
<1>1. hands[i].pc # "idle" => hands[i].dep \in Deposits /\ hands[i].found
  BY Zenon DEF AllDeserved
<1>2. hands[i] \in HandRow /\ hands[i].event \in EventType /\ hands[i].count \in Nat
  BY Zenon DEF PipeTyped, HandRow
<1>3. HandStep = {"idle", "note", "upsert", "enqueue", "checkpoint", "deliver", "follow", "done",
                  "retry"}
  BY Zenon DEF HandStep
<1>4. ASSUME NEW h \in HandRow, hands' = [hands EXCEPT ![i] = h],
             UNCHANGED <<setup, deepest, undone, chain>>
      PROVE  HandMoves(i, h)
  BY <1>4, Zenon DEF HandMoves, PipeTyped
<1>5. CASE Note(i)
  <2>1. hands[i].pc = "note"
    BY <1>5, Zenon DEF Note, At
  <2> DEFINE d == hands[i].dep
  <2>2. /\ seen' = [seen EXCEPT ![d].misses = IF hands[i].count > 0 THEN 0 ELSE @]
        /\ Goto(i, "upsert")
    BY <1>1, <1>5, <2>1, Zenon DEF Note
  <2>3. UNCHANGED <<setup, deepest, undone, chain>> /\ UNCHANGED <<journal, deposits, outbox, announced>>
    BY <1>5, Zenon DEF Note, ledgerVars, chainVars
  <2>4. PICK h \in HandRow : hands' = [hands EXCEPT ![i] = h] /\ h.pc = "upsert" /\ Carries(hands[i], h)
    BY <1>3, <2>2, GotoMoves, Zenon
  <2>5. seen' \in [Deposits -> SeenRow]
    <3>1. d \in Deposits /\ seen[d] \in SeenRow
      BY <1>1, <2>1, Zenon DEF PipeTyped
    <3> DEFINE n == IF hands[i].count > 0 THEN 0 ELSE seen[d].misses
    <3>2. n \in Nat
      BY <3>1, Zenon DEF SeenRow
    <3>3. [seen[d] EXCEPT !.misses = n] \in SeenRow
      <4> HIDE DEF n
      <4> QED BY <3>1, <3>2, Zenon DEF SeenRow
    <3>4. seen' = [seen EXCEPT ![d] = [seen[d] EXCEPT !.misses = n]]
      BY <2>2, Zenon
    <3> QED BY <3>1, <3>3, <3>4, Zenon DEF PipeTyped
  <2>6. Works(i, h)
    BY <1>4, <2>1, <2>3, <2>4, <2>5, Zenon DEF Works
  <2> QED BY <2>6, Zenon
<1>6. CASE UpsertSeenEvent(i)
  <2>1. hands[i].pc = "upsert"
    BY <1>6, Zenon DEF UpsertSeenEvent, At
  <2>2. UNCHANGED <<setup, deepest, undone, chain>> /\ UNCHANGED <<journal, deposits, outbox, announced>>
    BY <1>6, Zenon DEF UpsertSeenEvent, ledgerVars, chainVars
  <2> DEFINE d == hands[i].dep
             e == hands[i].event
  <2>3. CASE /\ seen' = [seen EXCEPT ![d] = [status |-> SeenStatus(e), confs |-> e.confs, misses |-> 0]]
             /\ Goto(i, "enqueue")
    <3>1. PICK h \in HandRow : hands' = [hands EXCEPT ![i] = h] /\ h.pc = "enqueue"
                                 /\ Carries(hands[i], h)
      BY <1>3, <2>3, GotoMoves, Zenon
    <3>2. SeenStatus(e) \in ScanStatus \cup LedgerStatus \cup {"NONE", "BLANK"} /\ e.confs \in Int
      BY <1>2, Zenon DEF SeenStatus, EventType
    <3>3. [status |-> SeenStatus(e), confs |-> e.confs, misses |-> 0] \in SeenRow
      BY <3>2, Zenon DEF SeenRow
    <3>4. seen' \in [Deposits -> SeenRow]
      BY <1>1, <2>1, <2>3, <3>3, Zenon DEF PipeTyped
    <3>5. Works(i, h)
      BY <1>4, <2>1, <2>2, <3>1, <3>4, ZenonT(60) DEF Works
    <3> QED BY <3>5, Zenon
  <2>4. CASE Leave(i) /\ UNCHANGED seen
    <3>1. PICK h \in HandRow : /\ hands' = [hands EXCEPT ![i] = h]
                               /\ h = Idle \/ (h.pc = "checkpoint" /\ Carries(hands[i], h))
      BY <2>4, LeaveMoves, Zenon
    <3>2. Works(i, h)
      BY <1>4, <2>1, <2>2, <2>4, <3>1, ZenonT(60) DEF Works, PipeTyped
    <3> QED BY <3>2, Zenon
  <2> QED BY <1>6, <2>3, <2>4, Zenon DEF UpsertSeenEvent
<1>7. CASE Enqueue(i)
  <2>1. hands[i].pc = "enqueue" /\ Leave(i)
    BY <1>7, Zenon DEF Enqueue, At
  <2>2. UNCHANGED <<setup, deepest, undone, chain>> /\ UNCHANGED <<journal, deposits, seen, announced>>
    BY <1>7, Zenon DEF Enqueue, ledgerVars, chainVars
  <2>3. PICK h \in HandRow : /\ hands' = [hands EXCEPT ![i] = h]
                             /\ h = Idle \/ (h.pc = "checkpoint" /\ Carries(hands[i], h))
    BY <2>1, LeaveMoves, Zenon
  <2> DEFINE d == hands[i].dep
             new == [status |-> "PENDING", event |-> hands[i].event, tries |-> 0]
  <2>4. new \in BoxRow /\ new.status = "PENDING" /\ new.event = hands[i].event
    BY <1>2, Zenon DEF BoxRow
  <2>5. outbox[d] \in BoxRow
    BY <1>1, <2>1, Zenon DEF PipeTyped
  <2>6. PICK b \in {new, outbox[d]} : outbox' = [outbox EXCEPT ![d] = b]
    BY <1>7, Zenon DEF Enqueue, UpsertUnspentEvent, UpsertOutboxEvent
  <2> HIDE DEF new
  <2>7. Stages(i, h, b)
    BY <1>4, <2>1, <2>2, <2>3, <2>4, <2>5, <2>6, ZenonT(60) DEF Stages
  <2> QED BY <2>7, Zenon
<1>8. CASE Checkpoint(i)
  <2>1. hands[i].pc = "checkpoint" /\ hands' = [hands EXCEPT ![i] = Idle]
    BY <1>8, Zenon DEF Checkpoint, At, Rest
  <2> DEFINE x == TxOf[hands[i].dep]
  <2>2. PICK ahead \in {FALSE, chain[x].ahead /\ <<x, "orphaned">> \in undone} :
          chain' = [chain EXCEPT ![x].ahead = ahead]
    BY <1>8, Zenon DEF Checkpoint
  <2>3. x \in Transactions /\ chain[x] \in ChainType
    BY <1>1, <2>1, PipelineAssumption, Zenon DEF PipeTyped
  <2>4. ahead \in BOOLEAN
    BY <2>3, Zenon DEF ChainType
  <2> DEFINE c == [chain[x] EXCEPT !.ahead = ahead]
  <2>5. c \in ChainType /\ c.confs = chain[x].confs /\ c.raw = chain[x].raw
    BY <2>3, <2>4, Zenon DEF ChainType
  <2>6. chain' = [chain EXCEPT ![x] = c]
    BY <2>2, Zenon
  <2> HIDE DEF c, x
  <2>7. /\ chain' \in [Transactions -> ChainType]
        /\ \A y \in Transactions : chain'[y].confs = chain[y].confs /\ chain'[y].raw = chain[y].raw
    BY <2>3, <2>5, <2>6, Zenon DEF PipeTyped
  <2>8. UNCHANGED <<setup, deepest, undone>> /\ UNCHANGED <<journal, deposits, seen, outbox, announced>>
    BY <1>8, Zenon DEF Checkpoint, ledgerVars
  <2>9. HandMoves(i, Idle)
    BY <2>1, <2>7, <2>8, IdleHand, ZenonT(60) DEF HandMoves
  <2>10. Works(i, Idle)
    BY <2>1, <2>8, <2>9, Zenon DEF Works, PipeTyped
  <2> QED BY <2>10, Zenon
<1>9. CASE Deliver(i)
  <2>1. hands[i].pc = "deliver"
    BY <1>9, Zenon DEF Deliver, At
  <2>2. UNCHANGED <<setup, deepest, undone, chain>> /\ UNCHANGED <<seen, outbox, announced>>
    BY <1>9, Zenon DEF Deliver, chainVars
  <2>3. PICK q \in {"follow", "done", "retry"} :
          /\ Goto(i, q)
          /\ \/ /\ CreditDepositTo(hands[i].dep, Notified(hands[i].event))
                /\ q = (IF Asks(hands[i].event) THEN "follow" ELSE "done") \/ q = "retry"
             \/ q = "retry" /\ UNCHANGED <<journal, deposits>>
    BY <1>9, Zenon DEF Deliver, ledgerVars
  <2>4. PICK h \in HandRow : hands' = [hands EXCEPT ![i] = h] /\ h.pc = q /\ Carries(hands[i], h)
    BY <1>3, <2>3, GotoMoves, SMTT(60)
  <2>5. Delivers(i, h)
    BY <1>4, <2>1, <2>2, <2>3, <2>4, Zenon DEF Delivers
  <2> QED BY <2>5, Zenon
<1>10. CASE Follow(i)
  <2>1. hands[i].pc = "follow" /\ Goto(i, "done")
    BY <1>10, Zenon DEF Follow, At
  <2>2. UNCHANGED <<setup, deepest, undone, chain>> /\ UNCHANGED <<journal, deposits, seen, outbox>>
    BY <1>10, Zenon DEF Follow, ledgerVars, chainVars
  <2>3. \/ announced' = announced \cup {hands[i].dep}
        \/ announced' = announced /\ "db" \in setup.faultKinds
    BY <1>10, Zenon DEF Follow, MayFail
  <2>4. PICK h \in HandRow : hands' = [hands EXCEPT ![i] = h] /\ h.pc = "done" /\ Carries(hands[i], h)
    BY <1>3, <2>1, GotoMoves, Zenon
  <2>5. FollowsUp(i, h)
    BY <1>4, <2>1, <2>2, <2>3, <2>4, Zenon DEF FollowsUp
  <2> QED BY <2>5, Zenon
<1>11. CASE MarkDone(i)
  <2>1. hands[i].pc = "done" /\ hands' = [hands EXCEPT ![i] = Idle]
    BY <1>11, Zenon DEF MarkDone, At, Rest
  <2>2. UNCHANGED <<setup, deepest, undone, chain>> /\ UNCHANGED <<journal, deposits, seen, announced>>
    BY <1>11, Zenon DEF MarkDone, ledgerVars, chainVars
  <2> DEFINE d == hands[i].dep
             b == [outbox[d] EXCEPT !.status = "DONE"]
  <2>3. outbox[d] \in BoxRow
    BY <1>1, <2>1, Zenon DEF PipeTyped
  <2>4. b \in BoxRow /\ b.status = "DONE" /\ b.event = outbox[d].event
    BY <2>3, Zenon DEF BoxRow
  <2>5. outbox' = [outbox EXCEPT ![d] = b]
    BY <1>11, Zenon DEF MarkDone
  <2> HIDE DEF b
  <2>6. Marks(i, Idle, b)
    BY <1>4, <2>1, <2>2, <2>4, <2>5, IdleHand, ZenonT(60) DEF Marks
  <2> QED BY <2>6, Zenon
<1>12. CASE MarkRetry(i)
  <2>1. hands[i].pc = "retry" /\ hands' = [hands EXCEPT ![i] = Idle]
    BY <1>12, Zenon DEF MarkRetry, At, Rest
  <2>2. UNCHANGED <<setup, deepest, undone, chain>> /\ UNCHANGED <<journal, deposits, seen, announced>>
    BY <1>12, Zenon DEF MarkRetry, ledgerVars, chainVars
  <2> DEFINE d == hands[i].dep
             n == hands[i].count + 1
             st == IF n >= MaxTries THEN "FAILED" ELSE "PENDING"
             b == [outbox[d] EXCEPT !.status = st, !.tries = n]
  <2>3. outbox[d] \in BoxRow /\ n \in Nat /\ st \in {"FAILED", "PENDING"}
    BY <1>1, <1>2, <2>1 DEF PipeTyped
  <2>4. outbox' = [outbox EXCEPT ![d].status = st, ![d].tries = n]
    BY <1>12, Zenon DEF MarkRetry
  <2> HIDE DEF n, st
  <2>5. b \in BoxRow /\ b.status = st /\ b.event = outbox[d].event
    BY <2>3, Zenon DEF BoxRow
  <2>6. outbox' = [outbox EXCEPT ![d] = b]
    BY <1>1, <2>1, <2>4, Zenon DEF PipeTyped
  <2> HIDE DEF b
  <2>7. Marks(i, Idle, b)
    BY <1>4, <2>1, <2>2, <2>3, <2>5, <2>6, IdleHand, ZenonT(60) DEF Marks
  <2> QED BY <2>7, Zenon
<1>13. CASE Crash(i)
  <2>1. hands[i].pc # "idle" /\ hands' = [hands EXCEPT ![i] = Idle]
    BY <1>13, Zenon DEF Crash, At, Rest
  <2>2. /\ UNCHANGED <<setup, deepest, undone, chain>>
        /\ UNCHANGED <<journal, deposits, seen, outbox, announced>>
    BY <1>13, Zenon DEF Crash, ledgerVars, chainVars
  <2>3. Works(i, Idle)
    BY <1>4, <2>1, <2>2, IdleHand, Zenon DEF Works, PipeTyped
  <2> QED BY <2>3, Zenon
<1> QED BY <1>5, <1>6, <1>7, <1>8, <1>9, <1>10, <1>11, <1>12, <1>13, ZenonT(60) DEF Proceed

-----------------------------------------------------------------------------
(* What the steps keep. *)

\* An event asks for a ledger status.
LEMMA NotifiedLedger ==
    ASSUME NEW e \in EventType
    PROVE  Notified(e) \in LedgerStatus
<1>1. ASSUME NEW scan, NEW status, NEW n, NEW req, NEW unlock
      PROVE  NormalizeDepositLifecycleStatus(scan, status, n, req, unlock) \in LedgerStatus
  BY Zenon DEF NormalizeDepositLifecycleStatus, LedgerStatus
<1> QED BY <1>1, Zenon DEF Notified, TargetStatus

\* The effective status of a deposit is its old one or the one asked for.
LEMMA EffectiveFrom ==
    ASSUME NEW old \in LedgerStatus \cup {"NONE"}, NEW target \in LedgerStatus
    PROVE  LET st == ResolveEffectiveDepositStatus(old, target)
           IN /\ st \in LedgerStatus
              /\ st = "REVERTED" => old = "REVERTED" \/ target = "REVERTED"
              /\ st \in Credited => old \in Credited \/ target \in Credited
              /\ st = "FINALIZED" => old = "FINALIZED" \/ target = "FINALIZED"
              /\ target \in Credited => st \in Credited \cup {"REVERTED"}
<1> DEFINE o == NormalizeStoredDepositStatus(old)
           st == ResolveEffectiveDepositStatus(old, target)
<1>1. NormalizeStoredDepositStatus(target) = target
  BY Zenon DEF NormalizeStoredDepositStatus, LedgerStatus
<1>2. o = IF old = "NONE" THEN "PENDING" ELSE old
  BY Zenon DEF NormalizeStoredDepositStatus, LedgerStatus
<1>3. st = CASE target = "REVERTED" \/ o = "REVERTED" -> "REVERTED"
             [] target # "REVERTED" /\ o = "FINALIZED" -> "FINALIZED"
             [] target # "REVERTED" /\ o = "CONFIRMED" ->
                  IF target = "FINALIZED" THEN "FINALIZED" ELSE "CONFIRMED"
             [] target # "REVERTED" /\ o = "PENDING" -> target
  BY <1>1, Zenon DEF ResolveEffectiveDepositStatus
<1> HIDE DEF o, st
<1>4. /\ st \in LedgerStatus
      /\ st = "REVERTED" => old = "REVERTED" \/ target = "REVERTED"
      /\ st \in Credited => old \in Credited \/ target \in Credited
      /\ st = "FINALIZED" => old = "FINALIZED" \/ target = "FINALIZED"
      /\ target \in Credited => st \in Credited \cup {"REVERTED"}
  BY <1>2, <1>3, Zenon DEF LedgerStatus, Credited
<1> QED BY <1>4, Zenon DEF st

\* What a notification does to the ledger, as the pipeline sees it.
LEMMA NoticeTells ==
    ASSUME PipeTyped, NEW d \in Deposits, NEW target \in LedgerStatus, CreditDepositTo(d, target)
    PROVE  LET st == deposits'[d].status
               old == deposits[d].status
           IN /\ DepositTypeOK' /\ DepositRowsAgree'
              /\ \A c \in Deposits \ {d} : deposits'[c] = deposits[c]
              /\ journal \subseteq journal'
              /\ st \in Credited /\ old \notin Credited => <<"DEPOSIT", d, "CREDIT">> \in journal'
              /\ st \in LedgerStatus
              /\ st = "REVERTED" => old = "REVERTED" \/ target = "REVERTED"
              /\ st \in Credited => old \in Credited \/ target \in Credited
              /\ st = "FINALIZED" => old = "FINALIZED" \/ target = "FINALIZED"
              /\ target \in Credited => st \in Credited \cup {"REVERTED"}
<1> DEFINE old == deposits[d].status
<1>1. old \in LedgerStatus \cup {"NONE"} /\ DepositTypeOK /\ DepositRowsAgree
  BY Zenon DEF PipeTyped, DepositTypeOK, DepositRow
<1>2. PICK st \in LedgerStatus :
        /\ deposits' = [deposits EXCEPT ![d] =
                          [status |-> st, credited |-> st \in {"CONFIRMED", "FINALIZED"},
                           unlocked |-> st = "FINALIZED"]]
        /\ \/ old \in {"NONE", "PENDING"} /\ st = "CONFIRMED" /\ Credit(d)
           \/ old \in {"NONE", "PENDING"} /\ st = "FINALIZED" /\ CreditAndUnlock(d)
           \/ old = "CONFIRMED" /\ st = "FINALIZED" /\ Unlock(d)
           \/ old \in {"CONFIRMED", "FINALIZED"} /\ st = "REVERTED" /\ Revert(d)
           \/ /\ \/ old \in {"NONE", "PENDING"} /\ st \in {"PENDING", "REVERTED"}
                 \/ old = st
              /\ UNCHANGED <<bal, journal>>
  BY <1>1, DepositCases, Zenon
<1> DEFINE row == [status |-> st, credited |-> st \in {"CONFIRMED", "FINALIZED"},
                   unlocked |-> st = "FINALIZED"]
<1>3. /\ row \in DepositRow /\ row.status = st
      /\ row.credited <=> st \in {"CONFIRMED", "FINALIZED"}
      /\ row.unlocked <=> st = "FINALIZED"
  <2>1. (st \in {"CONFIRMED", "FINALIZED"}) \in BOOLEAN /\ (st = "FINALIZED") \in BOOLEAN
    OBVIOUS
  <2> QED BY <2>1, Zenon DEF DepositRow
<1>4. deposits' = [deposits EXCEPT ![d] = row]
  BY <1>2, Zenon
<1> HIDE DEF row
<1>5. /\ deposits'[d] = row
      /\ \A c \in Deposits \ {d} : deposits'[c] = deposits[c]
      /\ deposits' \in [Deposits -> DepositRow]
  BY <1>1, <1>3, <1>4, Zenon DEF DepositTypeOK
<1>6. st = ResolveEffectiveDepositStatus(old, target)
  <2>1. deposits'[d].status = ResolveEffectiveDepositStatus(old, target)
    BY <1>1, Zenon DEF CreditDepositTo, DepositTypeOK
  <2> QED BY <1>3, <1>5, <2>1, Zenon
<1>7. /\ st = "REVERTED" => old = "REVERTED" \/ target = "REVERTED"
      /\ st \in Credited => old \in Credited \/ target \in Credited
      /\ st = "FINALIZED" => old = "FINALIZED" \/ target = "FINALIZED"
      /\ target \in Credited => st \in Credited \cup {"REVERTED"}
  BY <1>1, <1>6, EffectiveFrom, Zenon
<1>8. DepositTypeOK' /\ DepositRowsAgree'
  BY <1>1, <1>3, <1>5, Zenon DEF DepositTypeOK, DepositRowsAgree
<1>9. /\ journal \subseteq journal'
      /\ st \in Credited /\ old \notin Credited => <<"DEPOSIT", d, "CREDIT">> \in journal'
  <2>1. CASE Credit(d)
    BY <2>1, Zenon DEF Credit, Post
  <2>2. CASE CreditAndUnlock(d)
    BY <2>2, Zenon DEF CreditAndUnlock
  <2>3. CASE old = "CONFIRMED" /\ Unlock(d)
    BY <2>3, Zenon DEF Unlock, Post, Credited
  <2>4. CASE st = "REVERTED" /\ Revert(d)
    BY <2>4, Zenon DEF Revert, Credited
  <2>5. CASE /\ \/ st \in {"PENDING", "REVERTED"}
                \/ old = st
             /\ UNCHANGED journal
    BY <2>5, Zenon DEF Credited
  <2> QED BY <1>2, <2>1, <2>2, <2>3, <2>4, <2>5, ZenonT(60)
<1> QED BY <1>3, <1>5, <1>7, <1>8, <1>9, ZenonT(60)

\* A step of the chain keeps everything.
LEMMA ChainKeeps ==
    ASSUME PipeInv, ChainMoves, ChainTells'
    PROVE  PipeInv'
<1> USE DEF PipeInv
<1>1. \A d \in Deposits : TxOf[d] \in Transactions
  BY PipelineAssumption, Zenon
<1>2. PipeTyped'
  BY Zenon DEF ChainMoves, PipeTyped, DepositTypeOK, DepositRowsAgree
<1>3. AllDeserved'
  <2>1. /\ undone \subseteq undone' /\ setup' = setup
        /\ deepest \in [Transactions -> Nat] /\ deepest' \in [Transactions -> Nat]
        /\ \A x \in Transactions : deepest[x] <= deepest'[x]
    BY Zenon DEF ChainMoves, PipeTyped
  <2>2. ASSUME NEW d \in Deposits
        PROVE  /\ \A st : Deserved(setup, undone, deepest, d, st) =>
                          Deserved(setup', undone', deepest', d, st)
               /\ \A e : Sees(setup, undone, deepest, d, e) => Sees(setup', undone', deepest', d, e)
    BY <2>1, EarnedStays, Zenon
  <2> QED BY <2>2, Zenon DEF AllDeserved, ChainMoves
<1>4. Blind' /\ Exclusive'
  BY Zenon DEF Blind, Exclusive, Alone, ChainMoves
<1>5. \A d \in Deposits : ~Orphaned(d)' => ~Orphaned(d) /\ (Rooted(TxOf[d]) => Rooted(TxOf[d])')
  BY <1>1, Zenon DEF Orphaned, ChainMoves
<1>6. CreditFirst'
  BY <1>5, Zenon DEF CreditFirst, CreditPosted, ChainMoves
<1>7. Followed'
  BY <1>5, ZenonT(60) DEF Followed, RootedFor, Pursued, Alone, ChainMoves
<1> QED BY <1>2, <1>3, <1>4, <1>6, <1>7, ZenonT(60)

\* A scanner's step leaves the chain as it is.
LEMMA ChainStays ==
    ASSUME PipeTyped, ChainTells, NEW i \in Scanners, NEW h, HandMoves(i, h)
    PROVE  /\ ChainTells' /\ setup' = setup /\ undone' = undone /\ deepest' = deepest
           /\ \A x \in Transactions : Rooted(x)' <=> Rooted(x)
           /\ \A d \in Deposits : Orphaned(d)' <=> Orphaned(d)
           /\ hands' \in [Scanners -> HandRow] /\ h \in HandRow
           /\ hands'[i] = h /\ \A j \in Scanners \ {i} : hands'[j] = hands[j]
           /\ chain' \in [Transactions -> ChainType]
<1>1. /\ setup' = setup /\ undone' = undone /\ deepest' = deepest
      /\ hands' \in [Scanners -> HandRow] /\ h \in HandRow
      /\ hands'[i] = h /\ \A j \in Scanners \ {i} : hands'[j] = hands[j]
      /\ chain' \in [Transactions -> ChainType]
  BY Zenon DEF HandMoves, PipeTyped
<1>2. \A x \in Transactions : chain'[x].confs = chain[x].confs /\ chain'[x].raw = chain[x].raw
  BY Zenon DEF HandMoves
<1>3. ChainTells'
  BY <1>1, <1>2, Zenon DEF ChainTells, Mined
<1>4. \A x \in Transactions : Rooted(x)' <=> Rooted(x)
  BY <1>2, Zenon DEF Rooted
<1> QED BY <1>1, <1>3, <1>4, Zenon DEF Orphaned

\* The scanner that owns the only hand on a deposit still owns it after a step
\* of that hand that leaves the outbox alone.
LEMMA HandStaysExclusive ==
    ASSUME Exclusive, setup' = setup, outbox' = outbox, NEW i \in Scanners, NEW h,
           hands'[i] = h, \A j \in Scanners \ {i} : hands'[j] = hands[j],
           Alone /\ h.pc # "idle" => i \in setup.scanners,
           Alone /\ h.pc \in Dispatching =>
             outbox[h.dep].status = "PENDING" /\ outbox[h.dep].event = h.event
    PROVE  Exclusive'
<1>1. Alone' <=> Alone
  BY Zenon DEF Alone
<1>2. ASSUME Alone, NEW j \in Scanners
      PROVE  /\ hands'[j].pc # "idle" => j \in setup.scanners
             /\ hands'[j].pc \in Dispatching =>
                  /\ outbox[hands'[j].dep].status = "PENDING"
                  /\ outbox[hands'[j].dep].event = hands'[j].event
  <2>1. CASE j = i
    BY <1>2, <2>1, Zenon
  <2>2. CASE j # i
    BY <1>2, <2>2, Zenon DEF Exclusive
  <2> QED BY <2>1, <2>2, Zenon
<1> QED BY <1>1, <1>2, Zenon DEF Exclusive

\* A deposit's promises about the depth of its transaction outlive a step of one
\* hand if they hold for what the step leaves in that hand and in the outbox.
LEMMA HandStaysRooted ==
    ASSUME NEW d \in Deposits, RootedFor(d), setup' = setup, Orphaned(d)' <=> Orphaned(d),
           Rooted(TxOf[d])' <=> Rooted(TxOf[d]),
           deposits'[d].status \in Credited => deposits[d].status \in Credited,
           NEW i \in Scanners, NEW h,
           hands'[i] = h, \A j \in Scanners \ {i} : hands'[j] = hands[j],
           setup.family \in {"evm", "token"} /\ ~Orphaned(d) =>
             /\ Notified(outbox'[d].event) \in Credited => Rooted(TxOf[d])
             /\ h.pc # "idle" /\ h.dep = d /\ Notified(h.event) \in Credited => Rooted(TxOf[d])
    PROVE  RootedFor(d)'
<1>1. SUFFICES ASSUME setup.family \in {"evm", "token"}, ~Orphaned(d)
               PROVE  /\ deposits'[d].status \in Credited => Rooted(TxOf[d])
                      /\ Notified(outbox'[d].event) \in Credited => Rooted(TxOf[d])
                      /\ \A j \in Scanners :
                           hands'[j].pc # "idle" /\ hands'[j].dep = d
                             /\ Notified(hands'[j].event) \in Credited => Rooted(TxOf[d])
  BY Zenon DEF RootedFor
<1>2. ASSUME NEW j \in Scanners, hands'[j].pc # "idle", hands'[j].dep = d,
             Notified(hands'[j].event) \in Credited
      PROVE  Rooted(TxOf[d])
  <2>1. CASE j = i
    BY <1>1, <1>2, <2>1, Zenon
  <2>2. CASE j # i
    BY <1>1, <1>2, <2>2, Zenon DEF RootedFor
  <2> QED BY <2>1, <2>2, Zenon
<1> QED BY <1>1, <1>2, Zenon DEF RootedFor

\* The same of the promise that a credit will be followed up.
LEMMA HandStillPursues ==
    ASSUME NEW d \in Deposits, Pursued(d), setup' = setup, Orphaned(d)' <=> Orphaned(d),
           deposits'[d].status \in Credited => deposits[d].status \in Credited,
           d \in announced => d \in announced',
           NEW i \in Scanners, NEW h,
           hands'[i] = h, \A j \in Scanners \ {i} : hands'[j] = hands[j],
           /\ Alone /\ "db" \notin setup.faultKinds /\ ~Orphaned(d)
           /\ deposits[d].status \in Credited /\ d \notin announced'
           => /\ outbox'[d].status \in {"PENDING", "FAILED"}
              /\ outbox'[d].status = "PENDING" => Asks(outbox'[d].event)
              /\ h.dep = d => /\ h.pc \in {"note", "upsert", "enqueue"} => Asks(h.event)
                              /\ h.pc # "done"
    PROVE  Pursued(d)'
<1>1. Alone' <=> Alone
  BY Zenon DEF Alone
<1>2. SUFFICES ASSUME Alone, "db" \notin setup.faultKinds, ~Orphaned(d),
                      deposits[d].status \in Credited, d \notin announced', d \notin announced
               PROVE  /\ outbox'[d].status \in {"PENDING", "FAILED"}
                      /\ outbox'[d].status = "PENDING" => Asks(outbox'[d].event)
                      /\ \A j \in Scanners : hands'[j].dep = d =>
                           /\ hands'[j].pc \in {"note", "upsert", "enqueue"} => Asks(hands'[j].event)
                           /\ hands'[j].pc # "done"
  BY <1>1, Zenon DEF Pursued
<1>3. ASSUME NEW j \in Scanners, hands'[j].dep = d
      PROVE  /\ hands'[j].pc \in {"note", "upsert", "enqueue"} => Asks(hands'[j].event)
             /\ hands'[j].pc # "done"
  <2>1. CASE j = i
    BY <1>2, <1>3, <2>1, Zenon
  <2>2. CASE j # i
    BY <1>2, <1>3, <2>2, Zenon DEF Pursued
  <2> QED BY <2>1, <2>2, Zenon
<1> QED BY <1>2, <1>3, Zenon

\* Looking at the chain keeps everything.
LEMMA LooksKeeps ==
    ASSUME PipeInv, NEW i \in Scanners, NEW h, Looks(i, h)
    PROVE  PipeInv'
<1> USE DEF PipeInv
<1>1. HandMoves(i, h)
  BY Zenon DEF Looks
<1>2. /\ ChainTells' /\ setup' = setup /\ undone' = undone /\ deepest' = deepest
      /\ \A x \in Transactions : Rooted(x)' <=> Rooted(x)
      /\ \A d \in Deposits : Orphaned(d)' <=> Orphaned(d)
      /\ hands' \in [Scanners -> HandRow] /\ h \in HandRow
      /\ hands'[i] = h /\ \A j \in Scanners \ {i} : hands'[j] = hands[j]
      /\ chain' \in [Transactions -> ChainType]
  BY <1>1, ChainStays, Zenon
<1>3. UNCHANGED <<journal, deposits, seen, outbox, announced>>
  BY Zenon DEF Looks
<1>4. /\ h.pc \in {"note", "upsert"} /\ h.dep \in Deposits /\ h.found
      /\ Sees(setup, undone, deepest, h.dep, h.event)
      /\ setup.family # "aptos"
      /\ setup.family \in {"evm", "token"} =>
           /\ i \in setup.scanners
           /\ Notified(h.event) \in Credited => Rooted(TxOf[h.dep])
           /\ Rooted(TxOf[h.dep]) => Asks(h.event)
  BY Zenon DEF Looks
<1>5. \A d \in Deposits : TxOf[d] \in Transactions
  BY PipelineAssumption, Zenon
<1>6. PipeTyped'
  BY <1>2, <1>3, Zenon DEF PipeTyped, DepositTypeOK, DepositRowsAgree
<1>7. AllDeserved'
  BY <1>2, <1>3, <1>4, Zenon DEF AllDeserved
<1>8. Blind'
  BY <1>2, <1>4, Zenon DEF Blind
<1>9. CreditFirst'
  BY <1>2, <1>3, <1>4, Zenon DEF CreditFirst, CreditPosted
<1>10. Exclusive'
  <2>1. Alone /\ h.pc # "idle" => i \in setup.scanners
    BY <1>4, Zenon DEF Alone
  <2>2. Alone /\ h.pc \in Dispatching =>
          outbox[h.dep].status = "PENDING" /\ outbox[h.dep].event = h.event
    BY <1>4, Zenon DEF Dispatching
  <2> QED BY <1>2, <1>3, <2>1, <2>2, HandStaysExclusive, Zenon
<1>11. ASSUME NEW d \in Deposits
       PROVE  RootedFor(d)' /\ Pursued(d)'
  <2>1. RootedFor(d) /\ Pursued(d)
    BY Zenon DEF Followed
  <2>2. RootedFor(d)'
    <3>1. setup.family \in {"evm", "token"} /\ ~Orphaned(d) =>
            /\ Notified(outbox'[d].event) \in Credited => Rooted(TxOf[d])
            /\ h.pc # "idle" /\ h.dep = d /\ Notified(h.event) \in Credited => Rooted(TxOf[d])
      BY <1>3, <1>4, <2>1, Zenon DEF RootedFor
    <3> QED BY <1>2, <1>3, <1>5, <2>1, <3>1, HandStaysRooted, Zenon
  <2>3. Pursued(d)'
    <3>1. /\ Alone /\ "db" \notin setup.faultKinds /\ ~Orphaned(d)
          /\ deposits[d].status \in Credited /\ d \notin announced'
          => /\ outbox'[d].status \in {"PENDING", "FAILED"}
             /\ outbox'[d].status = "PENDING" => Asks(outbox'[d].event)
             /\ h.dep = d => /\ h.pc \in {"note", "upsert", "enqueue"} => Asks(h.event)
                             /\ h.pc # "done"
      BY <1>3, <1>4, <2>1, ZenonT(30) DEF RootedFor, Pursued, Alone
    <3> QED BY <1>2, <1>3, <2>1, <3>1, HandStillPursues, Zenon
  <2> QED BY <2>2, <2>3, Zenon
<1> QED BY <1>2, <1>6, <1>7, <1>8, <1>9, <1>10, <1>11, ZenonT(60) DEF Followed

\* So does taking an event from the outbox.
LEMMA FetchesKeeps ==
    ASSUME PipeInv, NEW i \in Scanners, NEW h, Fetches(i, h)
    PROVE  PipeInv'
<1> USE DEF PipeInv
<1>1. HandMoves(i, h)
  BY Zenon DEF Fetches
<1>2. /\ ChainTells' /\ setup' = setup /\ undone' = undone /\ deepest' = deepest
      /\ \A x \in Transactions : Rooted(x)' <=> Rooted(x)
      /\ \A d \in Deposits : Orphaned(d)' <=> Orphaned(d)
      /\ hands' \in [Scanners -> HandRow] /\ h \in HandRow
      /\ hands'[i] = h /\ \A j \in Scanners \ {i} : hands'[j] = hands[j]
      /\ chain' \in [Transactions -> ChainType]
  BY <1>1, ChainStays, Zenon
<1>3. UNCHANGED <<journal, deposits, seen, outbox, announced>>
  BY Zenon DEF Fetches
<1>4. /\ i \in setup.scanners
      /\ h.pc = "deliver" /\ h.dep \in Deposits /\ h.found
      /\ outbox[h.dep].status = "PENDING" /\ h.event = outbox[h.dep].event
  BY Zenon DEF Fetches
<1>5. \A d \in Deposits : TxOf[d] \in Transactions
  BY PipelineAssumption, Zenon
<1>6. PipeTyped'
  BY <1>2, <1>3, Zenon DEF PipeTyped, DepositTypeOK, DepositRowsAgree
<1>7. AllDeserved'
  BY <1>2, <1>3, <1>4, Zenon DEF AllDeserved
<1>8. Blind'
  BY <1>2, <1>3, <1>4, Zenon DEF Blind
<1>9. CreditFirst'
  BY <1>2, <1>3, <1>4, ZenonT(60) DEF CreditFirst, CreditPosted
<1>10. Exclusive'
  <2>1. Alone /\ h.pc # "idle" => i \in setup.scanners
    BY <1>4, Zenon
  <2>2. Alone /\ h.pc \in Dispatching =>
          outbox[h.dep].status = "PENDING" /\ outbox[h.dep].event = h.event
    BY <1>4, ZenonT(60)
  <2> QED BY <1>2, <1>3, <2>1, <2>2, HandStaysExclusive, Zenon
<1>11. ASSUME NEW d \in Deposits
       PROVE  RootedFor(d)' /\ Pursued(d)'
  <2>1. RootedFor(d) /\ Pursued(d)
    BY Zenon DEF Followed
  <2>2. RootedFor(d)'
    <3>1. setup.family \in {"evm", "token"} /\ ~Orphaned(d) =>
            /\ Notified(outbox'[d].event) \in Credited => Rooted(TxOf[d])
            /\ h.pc # "idle" /\ h.dep = d /\ Notified(h.event) \in Credited => Rooted(TxOf[d])
      BY <1>3, <1>4, <2>1, Zenon DEF RootedFor
    <3> QED BY <1>2, <1>3, <1>5, <2>1, <3>1, HandStaysRooted, Zenon
  <2>3. Pursued(d)'
    <3>1. /\ Alone /\ "db" \notin setup.faultKinds /\ ~Orphaned(d)
          /\ deposits[d].status \in Credited /\ d \notin announced'
          => /\ outbox'[d].status \in {"PENDING", "FAILED"}
             /\ outbox'[d].status = "PENDING" => Asks(outbox'[d].event)
             /\ h.dep = d => /\ h.pc \in {"note", "upsert", "enqueue"} => Asks(h.event)
                             /\ h.pc # "done"
      BY <1>3, <1>4, <2>1, ZenonT(30) DEF Pursued
    <3> QED BY <1>2, <1>3, <2>1, <3>1, HandStillPursues, Zenon
  <2> QED BY <2>2, <2>3, Zenon
<1> QED BY <1>2, <1>6, <1>7, <1>8, <1>9, <1>10, <1>11, Zenon DEF Followed

\* So does going on with what is held, or dropping it.
LEMMA WorksKeeps ==
    ASSUME PipeInv, NEW i \in Scanners, NEW h, Works(i, h)
    PROVE  PipeInv'
<1> USE DEF PipeInv
<1>1. HandMoves(i, h)
  BY Zenon DEF Works
<1>2. /\ ChainTells' /\ setup' = setup /\ undone' = undone /\ deepest' = deepest
      /\ \A x \in Transactions : Rooted(x)' <=> Rooted(x)
      /\ \A d \in Deposits : Orphaned(d)' <=> Orphaned(d)
      /\ hands' \in [Scanners -> HandRow] /\ h \in HandRow
      /\ hands'[i] = h /\ \A j \in Scanners \ {i} : hands'[j] = hands[j]
      /\ chain' \in [Transactions -> ChainType]
  BY <1>1, ChainStays, Zenon
<1>3. UNCHANGED <<journal, deposits, outbox, announced>> /\ seen' \in [Deposits -> SeenRow]
  BY Zenon DEF Works
<1>4. /\ hands[i].pc # "idle"
      /\ \/ h.pc = "idle"
         \/ /\ hands[i].pc \in {"note", "upsert"} /\ h.pc \in {"upsert", "enqueue", "checkpoint"}
            /\ h.dep = hands[i].dep /\ h.event = hands[i].event /\ h.found = hands[i].found
  BY IdleHand, Zenon DEF Works, Carries
<1>5. \A d \in Deposits : TxOf[d] \in Transactions
  BY PipelineAssumption, Zenon
<1>6. PipeTyped'
  BY <1>2, <1>3, Zenon DEF PipeTyped, DepositTypeOK, DepositRowsAgree
<1>7. AllDeserved'
  BY <1>2, <1>3, <1>4, Zenon DEF AllDeserved
<1>8. Blind'
  BY <1>2, <1>4, Zenon DEF Blind
<1>9. CreditFirst'
  BY <1>2, <1>3, <1>4, Zenon DEF CreditFirst, CreditPosted
<1>10. Exclusive'
  BY <1>2, <1>3, <1>4, ZenonT(60) DEF Exclusive, Alone, Dispatching
<1>11. ASSUME NEW d \in Deposits
       PROVE  RootedFor(d)' /\ Pursued(d)'
  <2>1. RootedFor(d) /\ Pursued(d)
    BY Zenon DEF Followed
  <2>2. RootedFor(d)'
    <3>1. setup.family \in {"evm", "token"} /\ ~Orphaned(d) =>
            /\ Notified(outbox'[d].event) \in Credited => Rooted(TxOf[d])
            /\ h.pc # "idle" /\ h.dep = d /\ Notified(h.event) \in Credited => Rooted(TxOf[d])
      BY <1>3, <1>4, <2>1, Zenon DEF RootedFor
    <3> QED BY <1>2, <1>3, <1>5, <2>1, <3>1, HandStaysRooted, Zenon
  <2>3. Pursued(d)'
    <3>1. /\ Alone /\ "db" \notin setup.faultKinds /\ ~Orphaned(d)
          /\ deposits[d].status \in Credited /\ d \notin announced'
          => /\ outbox'[d].status \in {"PENDING", "FAILED"}
             /\ outbox'[d].status = "PENDING" => Asks(outbox'[d].event)
             /\ h.dep = d => /\ h.pc \in {"note", "upsert", "enqueue"} => Asks(h.event)
                             /\ h.pc # "done"
      BY <1>3, <1>4, <2>1, ZenonT(30) DEF Pursued
    <3> QED BY <1>2, <1>3, <2>1, <3>1, HandStillPursues, Zenon
  <2> QED BY <2>2, <2>3, Zenon
<1> QED BY <1>2, <1>6, <1>7, <1>8, <1>9, <1>10, <1>11, Zenon DEF Followed

\* So does staging an event.
LEMMA StagesKeeps ==
    ASSUME PipeInv, NEW i \in Scanners, NEW h, NEW b, Stages(i, h, b)
    PROVE  PipeInv'
<1> USE DEF PipeInv
<1>1. HandMoves(i, h)
  BY Zenon DEF Stages
<1>2. /\ ChainTells' /\ setup' = setup /\ undone' = undone /\ deepest' = deepest
      /\ \A x \in Transactions : Rooted(x)' <=> Rooted(x)
      /\ \A d \in Deposits : Orphaned(d)' <=> Orphaned(d)
      /\ hands' \in [Scanners -> HandRow] /\ h \in HandRow
      /\ hands'[i] = h /\ \A j \in Scanners \ {i} : hands'[j] = hands[j]
      /\ chain' \in [Transactions -> ChainType]
  BY <1>1, ChainStays, Zenon
<1>3. UNCHANGED <<journal, deposits, seen, announced>>
  BY Zenon DEF Stages
<1> DEFINE c == hands[i].dep
<1>4. /\ hands[i].pc = "enqueue"
      /\ \/ h.pc = "idle"
         \/ /\ h.pc = "checkpoint"
            /\ h.dep = hands[i].dep /\ h.event = hands[i].event /\ h.found = hands[i].found
  BY IdleHand, Zenon DEF Stages, Carries
<1>5. \A d \in Deposits : TxOf[d] \in Transactions
  BY PipelineAssumption, Zenon
<1>6. c \in Deposits /\ hands[i].found /\ Sees(setup, undone, deepest, c, hands[i].event)
  BY <1>4, Zenon DEF AllDeserved
<1>7. /\ outbox' \in [Deposits -> BoxRow] /\ outbox'[c] = b
      /\ \A d \in Deposits \ {c} : outbox'[d] = outbox[d]
      /\ \/ b = outbox[c]
         \/ b.status = "PENDING" /\ b.event = hands[i].event
  BY <1>6, Zenon DEF Stages, PipeTyped
<1> HIDE DEF c
<1>8. PipeTyped'
  BY <1>2, <1>3, <1>7, ZenonT(60) DEF PipeTyped, DepositTypeOK, DepositRowsAgree
<1>9. AllDeserved'
  BY <1>2, <1>3, <1>4, <1>6, <1>7, ZenonT(60) DEF AllDeserved, c
<1>10. Blind'
  BY <1>2, <1>4, Zenon DEF Blind
<1>11. CreditFirst'
  BY <1>2, <1>3, <1>4, Zenon DEF CreditFirst, CreditPosted
<1>12. Exclusive'
  <2>1. Alone => i \in setup.scanners /\ \A j \in Scanners \ {i} : hands[j].pc = "idle"
    BY <1>4, Zenon DEF Exclusive, Alone
  <2> QED BY <1>2, <1>4, <2>1, ZenonT(60) DEF Exclusive, Alone, Dispatching
<1>13. ASSUME NEW d \in Deposits
       PROVE  RootedFor(d)' /\ Pursued(d)'
  <2>1. RootedFor(d) /\ Pursued(d)
    BY ZenonT(60) DEF Followed
  <2>2. RootedFor(d)'
    <3>1. setup.family \in {"evm", "token"} /\ ~Orphaned(d) =>
            /\ Notified(outbox'[d].event) \in Credited => Rooted(TxOf[d])
            /\ h.pc # "idle" /\ h.dep = d /\ Notified(h.event) \in Credited => Rooted(TxOf[d])
      BY <1>3, <1>4, <1>7, <2>1, ZenonT(30) DEF RootedFor, c
    <3> QED BY <1>2, <1>3, <1>5, <2>1, <3>1, HandStaysRooted, Zenon
  <2>3. Pursued(d)'
    <3>1. /\ Alone /\ "db" \notin setup.faultKinds /\ ~Orphaned(d)
          /\ deposits[d].status \in Credited /\ d \notin announced'
          => /\ outbox'[d].status \in {"PENDING", "FAILED"}
             /\ outbox'[d].status = "PENDING" => Asks(outbox'[d].event)
             /\ h.dep = d => /\ h.pc \in {"note", "upsert", "enqueue"} => Asks(h.event)
                             /\ h.pc # "done"
      BY <1>3, <1>4, <1>7, <2>1, ZenonT(30) DEF Pursued, c
    <3> QED BY <1>2, <1>3, <2>1, <3>1, HandStillPursues, Zenon
  <2> QED BY <2>2, <2>3, Zenon
<1> QED BY <1>2, <1>8, <1>9, <1>10, <1>11, <1>12, <1>13, ZenonT(60) DEF Followed

\* So does staging the follow-ups.
LEMMA FollowsUpKeeps ==
    ASSUME PipeInv, NEW i \in Scanners, NEW h, FollowsUp(i, h)
    PROVE  PipeInv'
<1> USE DEF PipeInv
<1>1. HandMoves(i, h)
  BY Zenon DEF FollowsUp
<1>2. /\ ChainTells' /\ setup' = setup /\ undone' = undone /\ deepest' = deepest
      /\ \A x \in Transactions : Rooted(x)' <=> Rooted(x)
      /\ \A d \in Deposits : Orphaned(d)' <=> Orphaned(d)
      /\ hands' \in [Scanners -> HandRow] /\ h \in HandRow
      /\ hands'[i] = h /\ \A j \in Scanners \ {i} : hands'[j] = hands[j]
      /\ chain' \in [Transactions -> ChainType]
  BY <1>1, ChainStays, Zenon
<1>3. UNCHANGED <<journal, deposits, seen, outbox>>
  BY Zenon DEF FollowsUp
<1>4. /\ hands[i].pc = "follow" /\ h.pc = "done"
      /\ h.dep = hands[i].dep /\ h.event = hands[i].event /\ h.found = hands[i].found
      /\ \/ announced' = announced \cup {hands[i].dep}
         \/ announced' = announced /\ "db" \in setup.faultKinds
  BY Zenon DEF FollowsUp, Carries
<1>5. \A d \in Deposits : TxOf[d] \in Transactions
  BY PipelineAssumption, Zenon
<1>6. PipeTyped'
  BY <1>2, <1>3, Zenon DEF PipeTyped, DepositTypeOK, DepositRowsAgree
<1>7. AllDeserved'
  BY <1>2, <1>3, <1>4, Zenon DEF AllDeserved
<1>8. Blind'
  BY <1>2, <1>3, <1>4, Zenon DEF Blind
<1>9. CreditFirst'
  BY <1>2, <1>3, <1>4, Zenon DEF CreditFirst, CreditPosted
<1>10. Exclusive'
  <2>1. Alone /\ h.pc # "idle" => i \in setup.scanners
    BY <1>4, Zenon DEF Exclusive
  <2>2. Alone /\ h.pc \in Dispatching =>
          outbox[h.dep].status = "PENDING" /\ outbox[h.dep].event = h.event
    BY <1>4, Zenon DEF Exclusive, Dispatching
  <2> QED BY <1>2, <1>3, <2>1, <2>2, HandStaysExclusive, Zenon
<1>11. ASSUME NEW d \in Deposits
       PROVE  RootedFor(d)' /\ Pursued(d)'
  <2>1. RootedFor(d) /\ Pursued(d)
    BY Zenon DEF Followed
  <2>2. RootedFor(d)'
    <3>1. setup.family \in {"evm", "token"} /\ ~Orphaned(d) =>
            /\ Notified(outbox'[d].event) \in Credited => Rooted(TxOf[d])
            /\ h.pc # "idle" /\ h.dep = d /\ Notified(h.event) \in Credited => Rooted(TxOf[d])
      BY <1>3, <1>4, <2>1, Zenon DEF RootedFor
    <3> QED BY <1>2, <1>3, <1>5, <2>1, <3>1, HandStaysRooted, Zenon
  <2>3. Pursued(d)'
    <3>1. /\ Alone /\ "db" \notin setup.faultKinds /\ ~Orphaned(d)
          /\ deposits[d].status \in Credited /\ d \notin announced'
          => /\ outbox'[d].status \in {"PENDING", "FAILED"}
             /\ outbox'[d].status = "PENDING" => Asks(outbox'[d].event)
             /\ h.dep = d => /\ h.pc \in {"note", "upsert", "enqueue"} => Asks(h.event)
                             /\ h.pc # "done"
      BY <1>3, <1>4, <2>1, ZenonT(30) DEF Pursued
    <3> QED BY <1>2, <1>3, <1>4, <2>1, <3>1, HandStillPursues, Zenon
  <2> QED BY <2>2, <2>3, Zenon
<1> QED BY <1>2, <1>6, <1>7, <1>8, <1>9, <1>10, <1>11, Zenon DEF Followed

\* So does marking an event.
LEMMA MarksKeeps ==
    ASSUME PipeInv, NEW i \in Scanners, NEW h, NEW b, Marks(i, h, b)
    PROVE  PipeInv'
<1> USE DEF PipeInv
<1>1. HandMoves(i, h)
  BY Zenon DEF Marks
<1>2. /\ ChainTells' /\ setup' = setup /\ undone' = undone /\ deepest' = deepest
      /\ \A x \in Transactions : Rooted(x)' <=> Rooted(x)
      /\ \A d \in Deposits : Orphaned(d)' <=> Orphaned(d)
      /\ hands' \in [Scanners -> HandRow] /\ h \in HandRow
      /\ hands'[i] = h /\ \A j \in Scanners \ {i} : hands'[j] = hands[j]
      /\ chain' \in [Transactions -> ChainType]
  BY <1>1, ChainStays, Zenon
<1>3. UNCHANGED <<journal, deposits, seen, announced>>
  BY Zenon DEF Marks
<1> DEFINE c == hands[i].dep
<1>4. /\ h.pc = "idle" /\ b.event = outbox[c].event
      /\ \/ hands[i].pc = "done" /\ b.status = "DONE"
         \/ hands[i].pc = "retry" /\ b.status \in {"PENDING", "FAILED"}
  BY IdleHand, Zenon DEF Marks
<1>5. \A d \in Deposits : TxOf[d] \in Transactions
  BY PipelineAssumption, Zenon
<1>6. c \in Deposits
  BY <1>4, Zenon DEF AllDeserved
<1>7. /\ outbox' \in [Deposits -> BoxRow] /\ outbox'[c] = b
      /\ \A d \in Deposits \ {c} : outbox'[d] = outbox[d]
  BY <1>6, Zenon DEF Marks, PipeTyped
<1> HIDE DEF c
<1>8. PipeTyped'
  BY <1>2, <1>3, <1>7, Zenon DEF PipeTyped, DepositTypeOK, DepositRowsAgree
<1>9. AllDeserved'
  BY <1>2, <1>3, <1>4, <1>6, <1>7, ZenonT(60) DEF AllDeserved
<1>10. Blind'
  BY <1>2, <1>4, Zenon DEF Blind
<1>11. CreditFirst'
  BY <1>2, <1>3, <1>4, ZenonT(60) DEF CreditFirst, CreditPosted
<1>12. Alone => /\ outbox[c].status = "PENDING"
                /\ i \in setup.scanners /\ \A j \in Scanners \ {i} : hands[j].pc = "idle"
  BY <1>4, ZenonT(60) DEF Exclusive, Alone, Dispatching, c
<1>13. Exclusive'
  BY <1>2, <1>4, <1>12, ZenonT(60) DEF Exclusive, Alone, Dispatching
<1>14. ASSUME NEW d \in Deposits
       PROVE  RootedFor(d)' /\ Pursued(d)'
  <2>1. RootedFor(d) /\ Pursued(d)
    BY Zenon DEF Followed
  <2>2. RootedFor(d)'
    <3>1. setup.family \in {"evm", "token"} /\ ~Orphaned(d) =>
            /\ Notified(outbox'[d].event) \in Credited => Rooted(TxOf[d])
            /\ h.pc # "idle" /\ h.dep = d /\ Notified(h.event) \in Credited => Rooted(TxOf[d])
      BY <1>3, <1>4, <1>6, <1>7, <2>1, Zenon DEF RootedFor
    <3> QED BY <1>2, <1>3, <1>5, <2>1, <3>1, HandStaysRooted, Zenon
  <2>3. Pursued(d)'
    <3>1. /\ Alone /\ "db" \notin setup.faultKinds /\ ~Orphaned(d)
          /\ deposits[d].status \in Credited /\ d \notin announced'
          => /\ outbox'[d].status \in {"PENDING", "FAILED"}
             /\ outbox'[d].status = "PENDING" => Asks(outbox'[d].event)
             /\ h.dep = d => /\ h.pc \in {"note", "upsert", "enqueue"} => Asks(h.event)
                             /\ h.pc # "done"
      BY <1>3, <1>4, <1>7, <1>12, <2>1, ZenonT(30) DEF Pursued, c
    <3> QED BY <1>2, <1>3, <2>1, <3>1, HandStillPursues, Zenon
  <2> QED BY <2>2, <2>3, Zenon
<1> QED BY <1>2, <1>8, <1>9, <1>10, <1>11, <1>13, <1>14, Zenon DEF Followed

\* So does a delivery: what was asked for is deserved, and on an EVM chain with
\* one instance a credit is followed up before its event is done.
LEMMA DeliversKeeps ==
    ASSUME PipeInv, NEW i \in Scanners, NEW h, Delivers(i, h)
    PROVE  PipeInv'
<1> USE DEF PipeInv
<1>1. HandMoves(i, h)
  BY Zenon DEF Delivers
<1>2. /\ ChainTells' /\ setup' = setup /\ undone' = undone /\ deepest' = deepest
      /\ \A x \in Transactions : Rooted(x)' <=> Rooted(x)
      /\ \A d \in Deposits : Orphaned(d)' <=> Orphaned(d)
      /\ hands' \in [Scanners -> HandRow] /\ h \in HandRow
      /\ hands'[i] = h /\ \A j \in Scanners \ {i} : hands'[j] = hands[j]
      /\ chain' \in [Transactions -> ChainType]
  BY <1>1, ChainStays, Zenon
<1>3. UNCHANGED <<seen, outbox, announced>>
  BY Zenon DEF Delivers
<1> DEFINE c == hands[i].dep
           e == hands[i].event
           old == deposits[c].status
           st == deposits'[c].status
<1>4. /\ hands[i].pc = "deliver" /\ h.pc \in {"follow", "done", "retry"}
      /\ h.dep = c /\ h.event = e /\ h.found = hands[i].found
      /\ h.pc = "follow" => Asks(e) /\ CreditDepositTo(c, Notified(e))
      /\ h.pc = "done" => ~Asks(e)
  BY Zenon DEF Delivers, Carries
<1>5. \A d \in Deposits : TxOf[d] \in Transactions
  BY PipelineAssumption, Zenon
<1>6. c \in Deposits /\ hands[i].found /\ Sees(setup, undone, deepest, c, e)
  BY <1>4, Zenon DEF AllDeserved
<1>7. e \in EventType /\ Notified(e) \in LedgerStatus
  BY NotifiedLedger, Zenon DEF PipeTyped, HandRow
<1>8. /\ DepositTypeOK' /\ DepositRowsAgree'
      /\ \A d \in Deposits \ {c} : deposits'[d] = deposits[d]
      /\ journal \subseteq journal'
      /\ st \in Credited /\ old \notin Credited => <<"DEPOSIT", c, "CREDIT">> \in journal'
      /\ st = "REVERTED" => old = "REVERTED" \/ Notified(e) = "REVERTED"
      /\ st \in Credited => old \in Credited \/ Notified(e) \in Credited
      /\ st = "FINALIZED" => old = "FINALIZED" \/ Notified(e) = "FINALIZED"
      /\ h.pc = "follow" /\ Notified(e) \in Credited => st \in Credited \cup {"REVERTED"}
  <2>1. CASE CreditDepositTo(c, Notified(e))
    <3> HIDE DEF c, e
    <3>1. c \in Deposits /\ Notified(e) \in LedgerStatus
      BY <1>6, <1>7, Zenon
    <3> QED BY <2>1, <3>1, NoticeTells, ZenonT(60) DEF old, st
  <2>2. CASE h.pc = "retry" /\ UNCHANGED <<journal, deposits>>
    BY <2>2, Zenon DEF PipeTyped, DepositTypeOK, DepositRowsAgree
  <2> QED BY <2>1, <2>2, Zenon DEF Delivers
<1> HIDE DEF c, e, old, st
<1>9. PipeTyped'
  BY <1>2, <1>3, <1>8, ZenonT(60) DEF PipeTyped
<1>10. Deserved(setup, undone, deepest, c, st)
  <2>1. Deserved(setup, undone, deepest, c, old) /\ Deserved(setup, undone, deepest, c, Notified(e))
    BY <1>6, Zenon DEF AllDeserved, Sees, old
  <2> QED BY <1>8, <2>1, Zenon DEF Deserved
<1>11. AllDeserved'
  <2>1. ASSUME NEW d \in Deposits
        PROVE  /\ Deserved(setup, undone, deepest, d, deposits'[d].status)
               /\ Sees(setup, undone, deepest, d, outbox[d].event)
    BY <1>8, <1>10, Zenon DEF AllDeserved, st
  <2>2. ASSUME NEW j \in Scanners, hands'[j].pc # "idle"
        PROVE  /\ hands'[j].dep \in Deposits /\ hands'[j].found
               /\ Sees(setup, undone, deepest, hands'[j].dep, hands'[j].event)
    BY <1>2, <1>4, <1>6, <2>2, ZenonT(60) DEF AllDeserved
  <2> QED BY <1>2, <1>3, <2>1, <2>2, ZenonT(60) DEF AllDeserved
<1>12. Blind'
  BY <1>2, <1>4, Zenon DEF Blind
<1>13. ASSUME setup.family # "lagging", ~Orphaned(c), h.pc = "follow"
       PROVE  st \in Credited
  <2>1. Notified(e) \in Credited
    BY <1>4, <1>6, <1>13, Zenon DEF Sees, Formed
  <2>2. TxOf[c] \in Transactions /\ ~Misread(setup, undone, c)
    BY <1>5, <1>6, <1>13, Zenon DEF Misread
  <2>3. deepest[TxOf[c]] >= 1 /\ deepest[TxOf[c]] \in Nat
    BY <1>6, <2>1, <2>2, ZenonT(60) DEF Sees, Deserved, PipeTyped
  <2>4. ~(<<TxOf[c], "failed">> \in undone)
    BY <1>13, <2>2, <2>3, SMTT(60) DEF ChainTells, Orphaned
  <2>5. st # "REVERTED"
    BY <1>10, <2>4, Zenon DEF Deserved
  <2> QED BY <1>8, <1>13, <2>1, <2>5, ZenonT(60)
<1>14. CreditFirst'
  <2>1. ASSUME NEW d \in Deposits
        PROVE  /\ deposits'[d].status \in Credited => <<"DEPOSIT", d, "CREDIT">> \in journal'
               /\ setup.family # "lagging" /\ ~Orphaned(d) =>
                    /\ d \in announced => <<"DEPOSIT", d, "CREDIT">> \in journal'
                    /\ \A j \in Scanners : hands'[j].pc = "follow" /\ hands'[j].dep = d =>
                                           <<"DEPOSIT", d, "CREDIT">> \in journal'
    <3>1. deposits'[d].status \in Credited => <<"DEPOSIT", d, "CREDIT">> \in journal'
      BY <1>6, <1>8, Zenon DEF CreditFirst, CreditPosted, old, st
    <3>2. ASSUME setup.family # "lagging", ~Orphaned(d), NEW j \in Scanners,
                 hands'[j].pc = "follow", hands'[j].dep = d
          PROVE  <<"DEPOSIT", d, "CREDIT">> \in journal'
      <4>1. CASE j = i
        BY <1>2, <1>4, <1>13, <3>1, <3>2, <4>1, ZenonT(60) DEF st
      <4>2. CASE j # i
        BY <1>2, <1>8, <3>2, <4>2, Zenon DEF CreditFirst, CreditPosted
      <4> QED BY <4>1, <4>2, Zenon
    <3> QED BY <1>8, <3>1, <3>2, Zenon DEF CreditFirst, CreditPosted
  <2> QED BY <1>2, <1>3, <2>1, Zenon DEF CreditFirst, CreditPosted
<1>15. Exclusive'
  <2>1. Alone /\ h.pc # "idle" => i \in setup.scanners
    BY <1>4, Zenon DEF Exclusive
  <2>2. Alone /\ h.pc \in Dispatching =>
          outbox[h.dep].status = "PENDING" /\ outbox[h.dep].event = h.event
    BY <1>4, Zenon DEF Exclusive, Dispatching, c, e
  <2> QED BY <1>2, <1>3, <2>1, <2>2, HandStaysExclusive, ZenonT(60)
<1>16. ASSUME NEW d \in Deposits
       PROVE  RootedFor(d)'
  <2>1. RootedFor(d)
    BY Zenon DEF Followed
  <2>2. CASE d = c
    BY <1>2, <1>3, <1>4, <1>5, <1>8, <2>1, <2>2, ZenonT(60) DEF RootedFor, c, e, old, st
  <2>3. CASE d # c
    <3>1. deposits'[d] = deposits[d] /\ outbox'[d] = outbox[d]
      BY <1>3, <1>8, <2>3, Zenon
    <3>2. setup.family \in {"evm", "token"} /\ ~Orphaned(d) =>
            /\ Notified(outbox'[d].event) \in Credited => Rooted(TxOf[d])
            /\ h.pc # "idle" /\ h.dep = d /\ Notified(h.event) \in Credited => Rooted(TxOf[d])
      BY <1>4, <2>1, <2>3, <3>1, Zenon DEF RootedFor
    <3> QED BY <1>2, <1>5, <2>1, <3>1, <3>2, HandStaysRooted, Zenon
  <2> QED BY <2>2, <2>3, Zenon
<1>17. ASSUME NEW d \in Deposits
       PROVE  Pursued(d)'
  <2>1. Pursued(d)
    BY Zenon DEF Followed
  <2>2. CASE d # c
    <3>1. deposits'[d] = deposits[d] /\ outbox'[d] = outbox[d]
      BY <1>3, <1>8, <2>2, Zenon
    <3>2. /\ Alone /\ "db" \notin setup.faultKinds /\ ~Orphaned(d)
          /\ deposits[d].status \in Credited /\ d \notin announced'
          => /\ outbox'[d].status \in {"PENDING", "FAILED"}
             /\ outbox'[d].status = "PENDING" => Asks(outbox'[d].event)
             /\ h.dep = d => /\ h.pc \in {"note", "upsert", "enqueue"} => Asks(h.event)
                             /\ h.pc # "done"
      BY <1>3, <1>4, <2>1, <2>2, <3>1, ZenonT(30) DEF Pursued
    <3> QED BY <1>2, <1>3, <2>1, <3>1, <3>2, HandStillPursues, Zenon
  <2>3. CASE d = c
    <3> SUFFICES ASSUME Alone, "db" \notin setup.faultKinds, ~Orphaned(c), st \in Credited,
                        c \notin announced
                 PROVE  /\ outbox[c].status \in {"PENDING", "FAILED"}
                        /\ outbox[c].status = "PENDING" => Asks(outbox[c].event)
                        /\ \A j \in Scanners : hands'[j].dep = c =>
                             /\ hands'[j].pc \in {"note", "upsert", "enqueue"} => Asks(hands'[j].event)
                             /\ hands'[j].pc # "done"
      BY <1>2, <1>3, <2>3, ZenonT(60) DEF Pursued, Alone, st
    <3>1. /\ outbox[c].status = "PENDING" /\ outbox[c].event = e
          /\ \A j \in Scanners \ {i} : hands[j].pc = "idle"
      BY <1>4, Zenon DEF Exclusive, Alone, Dispatching, c, e
    <3>2. Asks(e)
      <4>1. CASE old \in Credited
        BY <2>1, <2>3, <3>1, <4>1, ZenonT(60) DEF Pursued, old
      <4>2. CASE old \notin Credited
        <5>1. Notified(e) \in Credited
          BY <1>8, <4>2, Zenon
        <5>2. setup.family \notin Unspents
          BY Zenon DEF Alone, Unspents
        <5> QED BY <1>6, <5>1, <5>2, ZenonT(60) DEF Sees, Formed
      <4> QED BY <4>1, <4>2, Zenon
    <3> QED BY <1>2, <1>4, <3>1, <3>2, ZenonT(60)
  <2> QED BY <2>2, <2>3, Zenon
<1> QED BY <1>2, <1>9, <1>11, <1>12, <1>14, <1>15, <1>16, <1>17, ZenonT(60) DEF Followed

\* The pipeline starts with nothing on the chain, in a table or in hand.
LEMMA PipeInit ==
    ASSUME PipelineInit
    PROVE  PipeInv
<1> USE DEF PipelineInit
<1>1. \A s, u, p, d : NoEvent \in EventType /\ Notified(NoEvent) = "PENDING" /\ Sees(s, u, p, d, NoEvent)
  BY NoEventEarned, Zenon
<1>2. /\ \A x \in Transactions : chain[x].confs = -1 /\ chain[x].raw = "OK" /\ deepest[x] = 0
      /\ chain \in [Transactions -> ChainType] /\ deepest \in [Transactions -> Nat]
  BY DEF NotMined, ChainType
<1>3. \A d \in Deposits : TxOf[d] \in Transactions
  BY PipelineAssumption, Zenon
<1>4. /\ DepositTypeOK /\ DepositRowsAgree
      /\ \A d \in Deposits : deposits[d].status = "NONE"
  BY Zenon DEF DepositInit, DepositTypeOK, DepositRow, DepositRowsAgree
<1>5. /\ seen \in [Deposits -> SeenRow] /\ \A d \in Deposits : seen[d].status = "NONE"
  BY DEF SeenRow
<1>6. /\ outbox \in [Deposits -> BoxRow]
      /\ \A d \in Deposits : outbox[d].status = "NONE" /\ outbox[d].event = NoEvent
  BY <1>1, Zenon DEF BoxRow
<1>7. hands \in [Scanners -> HandRow] /\ \A i \in Scanners : hands[i].pc = "idle"
  BY IdleHand, Zenon
<1>8. PipeTyped
  BY <1>2, <1>4, <1>5, <1>6, <1>7, ZenonT(60) DEF PipeTyped
<1>9. ChainTells
  BY <1>2 DEF ChainTells, Mined
<1>10. AllDeserved
  BY <1>1, <1>4, <1>6, <1>7, Zenon DEF AllDeserved, Deserved, Credited
<1>11. Blind /\ CreditFirst
  BY <1>4, <1>5, <1>6, <1>7, ZenonT(60) DEF Blind, CreditFirst, Credited
<1>12. Exclusive
  BY <1>7, Zenon DEF Exclusive, Dispatching
<1>13. Followed
  BY <1>1, <1>4, <1>6, <1>7, Zenon DEF Followed, RootedFor, Pursued, Credited
<1> QED BY <1>8, <1>9, <1>10, <1>11, <1>12, <1>13, ZenonT(60) DEF PipeInv

\* Every step of the pipeline keeps its invariant.
LEMMA PipeStep ==
    ASSUME PipeInv, [PipelineNext]_pvars
    PROVE  PipeInv'
<1>1. CASE ChainStep
  BY <1>1, ChainStepMoves, ChainKeeps, Zenon DEF PipeInv
<1>2. ASSUME NEW i \in Scanners, NEW d \in Deposits, Start(i, d)
      PROVE  PipeInv'
  BY <1>2, StartShape, LooksKeeps, FetchesKeeps, Zenon DEF PipeInv
<1>3. ASSUME NEW i \in Scanners, Proceed(i) \/ Crash(i)
      PROVE  PipeInv'
  <2>1. PICK h : \/ Works(i, h) \/ Delivers(i, h) \/ FollowsUp(i, h)
                 \/ \E b : Stages(i, h, b) \/ Marks(i, h, b)
    BY <1>3, ProceedShape, Zenon DEF PipeInv
  <2> QED BY <2>1, WorksKeeps, DeliversKeeps, FollowsUpKeeps, StagesKeeps, MarksKeeps, ZenonT(60)
<1>4. CASE UNCHANGED pvars
  <2>1. UNCHANGED <<setup, journal, deposits, chain, deepest, undone, seen, outbox, announced, hands>>
    BY <1>4, Zenon DEF pvars, ledgerVars, chainVars
  <2>2. ChainMoves /\ ChainTells'
    BY <2>1 DEF PipeInv, PipeTyped, ChainTells, ChainMoves, Mined, Rooted
  <2> QED BY <2>2, ChainKeeps, Zenon
<1> QED BY <1>1, <1>2, <1>3, <1>4, Zenon DEF PipelineNext

\* The inductive invariant of the pipeline holds in every reachable state.
LEMMA PipelineInvariant == PipelineSpec => []PipeInv
<1> QED BY PipeInit, PipeStep, PTL DEF PipelineSpec

\* The ledger never runs ahead of the chain, where the thresholds do not exceed
\* the depth at which Solana calls a block final: resolveDepositScanStatus takes
\* a FINALIZED answer without looking at its count.
THEOREM LedgerFollowsChain ==
    ASSUME Thresholds
    PROVE  PipelineSpec => []CreditFollowsDepth
<1>1. ASSUME PipeInv
      PROVE  CreditFollowsDepth
  <2> SUFFICES ASSUME NEW d \in Deposits
               PROVE  \/ /\ deposits[d].credited => deepest[TxOf[d]] >= CreditConfs
                         /\ deposits[d].unlocked => deepest[TxOf[d]] >= UnlockConfs
                      \/ setup.family = "lagging" /\ <<TxOf[d], "failed">> \in undone
    BY Zenon DEF CreditFollowsDepth
  <2>1. /\ deposits[d].credited => deposits[d].status \in Credited
        /\ deposits[d].unlocked => deposits[d].status = "FINALIZED"
    BY <1>1, Zenon DEF PipeInv, PipeTyped, DepositRowsAgree, Credited
  <2>2. Deserved(setup, undone, deepest, d, deposits[d].status)
    BY <1>1, Zenon DEF PipeInv, AllDeserved
  <2> QED BY <2>1, <2>2, Zenon DEF Deserved, Misread
<1> QED BY <1>1, PipelineInvariant, PTL

\* Money is taken back only from a deposit whose transaction failed: no reorg
\* and no late answer makes CreditDeposit revert a deposit.
THEOREM RevertsAreDeserved == PipelineSpec => []RevertedWasUndone
<1>1. PipeInv => RevertedWasUndone
  BY Zenon DEF PipeInv, AllDeserved, Deserved, RevertedWasUndone
<1> QED BY <1>1, PipelineInvariant, PTL

\* Callback and sweep are staged for credited deposits, and on EVM chains with
\* one instance of the scanner for every one whose event is DONE.
THEOREM FollowUpsMatchCredits == PipelineSpec => []AnnouncedIffCredited
<1>1. ASSUME PipeInv
      PROVE  AnnouncedIffCredited
  <2> SUFFICES ASSUME NEW d \in Deposits, <<TxOf[d], "orphaned">> \notin undone
               PROVE  /\ d \in announced /\ setup.family # "lagging" =>
                           <<"DEPOSIT", d, "CREDIT">> \in journal
                      /\ /\ deposits[d].credited /\ outbox[d].status = "DONE"
                         /\ setup.family \in {"evm", "token"} /\ "db" \notin setup.faultKinds
                         /\ \A i, j \in setup.scanners : i = j
                         => d \in announced
    BY Zenon DEF AnnouncedIffCredited
  <2>1. ~Orphaned(d)
    BY Zenon DEF Orphaned
  <2>2. d \in announced /\ setup.family # "lagging" => <<"DEPOSIT", d, "CREDIT">> \in journal
    BY <1>1, <2>1, Zenon DEF PipeInv, CreditFirst, CreditPosted
  <2>3. deposits[d].credited => deposits[d].status \in Credited
    BY <1>1, Zenon DEF PipeInv, PipeTyped, DepositRowsAgree, Credited
  <2>4. Pursued(d)
    BY <1>1, Zenon DEF PipeInv, Followed
  <2> QED BY <2>1, <2>2, <2>3, <2>4, Zenon DEF Pursued, Alone
<1> QED BY <1>1, PipelineInvariant, PTL

-----------------------------------------------------------------------------
(* The balance row sums up the other tables.  CoinsTheorems is taken here and *)
(* not above, and under a name: its facts about finite sets would be in the   *)
(* way of everything else.                                                    *)

Sums == INSTANCE CoinsTheorems

\* Its words are this module's.
LEMMA SumsAgree ==
    /\ \A S : Sums!IsFiniteSet(S) <=> IsFiniteSet(S)
    /\ \A S, amt : Sums!Worth(S, amt) = Worth(S, amt)
<1>1. \A S : Sums!IsFiniteSet(S) <=> IsFiniteSet(S)
  BY Zenon DEF Sums!IsFiniteSet, IsFiniteSet
<1>2. \A S : Sums!Cardinality(S) = Cardinality(S)
  BY Zenon DEF Sums!Cardinality, Cardinality
<1> QED
  BY <1>1, <1>2, ZenonT(60) DEF Sums!Worth, Worth, Sums!CoinsOf, CoinsOf

\* The worth of finitely many orders is a natural number.
LEMMA WorthNat ==
    ASSUME NEW S, IsFiniteSet(S), NEW amt, \A x \in S : amt[x] \in Nat
    PROVE  Worth(S, amt) \in Nat
BY SumsAgree, Sums!WorthNat, ZenonT(60)

\* Nothing is worth nothing.
LEMMA WorthEmpty ==
    ASSUME NEW amt
    PROVE  Worth({}, amt) = 0
BY SumsAgree, Sums!WorthEmpty, ZenonT(60)

\* A new order adds its amount.
LEMMA WorthAdd ==
    ASSUME NEW S, IsFiniteSet(S), NEW y, y \notin S,
           NEW amt, \A x \in S \cup {y} : amt[x] \in Nat
    PROVE  Worth(S \cup {y}, amt) = Worth(S, amt) + amt[y]
BY SumsAgree, Sums!WorthAdd, ZenonT(60)

\* An order that leaves takes its amount along.
LEMMA WorthRemove ==
    ASSUME NEW S, IsFiniteSet(S), NEW y \in S, NEW amt, \A x \in S : amt[x] \in Nat
    PROVE  /\ amt[y] <= Worth(S, amt)
           /\ Worth(S \ {y}, amt) = Worth(S, amt) - amt[y]
BY SumsAgree, Sums!WorthRemove, ZenonT(60)

\* A part of a finite set is finite.
LEMMA PartFinite ==
    ASSUME NEW S, IsFiniteSet(S), NEW T \in SUBSET S
    PROVE  IsFiniteSet(T)
BY SumsAgree, Sums!FS_Subset, ZenonT(60)

\* The book's sums are the ledger's.
LEMMA SameWorth ==
    /\ \A S : Book!IsFiniteSet(S) <=> IsFiniteSet(S)
    /\ \A S, amt : Book!Worth(S, amt) = Worth(S, amt)
<1>1. \A S : Book!IsFiniteSet(S) <=> IsFiniteSet(S)
  BY Zenon DEF Book!IsFiniteSet, IsFiniteSet
<1>2. \A S : Book!Cardinality(S) = Cardinality(S)
  BY <1>1, ZenonT(60) DEF Book!Cardinality, Cardinality
<1> QED
  BY <1>1, <1>2, Zenon DEF Book!Worth, Worth, Book!CoinsOf, CoinsOf

\* BookBalanced with the sums of this module.
BookSums ==
    /\ bal.frozen = Worth(Book!HeldOrders, Amount)
    /\ bal.locked = Worth(Book!LockedBookDeposits, DepositAmount)
    /\ bal.available + bal.frozen + Worth(Book!PaidBookOrders, Amount)
         = Worth(Book!ArrivedDeposits, DepositAmount)

BookInv == Book!BookTypeOK /\ BookSums

\* The sets the balance summarises are finite, so their worth is a number.
LEMMA BookSetsFinite ==
    /\ IsFiniteSet(Book!HeldOrders) /\ IsFiniteSet(Book!PaidBookOrders)
    /\ IsFiniteSet(Book!LockedBookDeposits) /\ IsFiniteSet(Book!ArrivedDeposits)
BY OrdersAssumption, DepositsAssumption, PartFinite, ZenonT(60)
   DEF Book!HeldOrders, Book!PaidBookOrders, Book!LockedBookDeposits, Book!ArrivedDeposits

\* Every account starts balanced, with nothing.
LEMMA BookInitInv == Book!BookInit => BookInv
<1> SUFFICES ASSUME Book!BookInit PROVE BookInv
  BY Zenon
<1>1. /\ Book!HeldOrders = {} /\ Book!PaidBookOrders = {}
      /\ Book!LockedBookDeposits = {} /\ Book!ArrivedDeposits = {}
  BY Zenon
     DEF Book!BookInit, Book!HeldOrders, Book!PaidBookOrders, Book!LockedBookDeposits,
         Book!ArrivedDeposits
<1>2. Book!BookTypeOK
  BY ZenonT(60) DEF Book!BookInit, Book!BookTypeOK, Book!NoBalance, Book!Row, Book!BalanceType
<1>3. BookSums
  BY <1>1, WorthEmpty, SMTT(60) DEF Book!BookInit, BookSums, Book!NoBalance, Book!Row
<1> QED
  BY <1>2, <1>3, ZenonT(60) DEF BookInv

\* Every step moves money between the totals exactly as it moves the order or
\* the deposit between the sets they summarise.
LEMMA BookStepInv == BookInv /\ [Book!BookNext]_(Book!bookVars) => BookInv'
<1> SUFFICES ASSUME BookInv, [Book!BookNext]_(Book!bookVars) PROVE BookInv'
  BY Zenon
<1> USE OrdersAssumption, DepositsAssumption
<1>t. bal \in Book!BalanceType /\ bal.available \in Nat /\ bal.frozen \in Nat /\ bal.locked \in Nat
  BY Zenon DEF BookInv, Book!BookTypeOK, Book!BalanceType
<1>f. /\ IsFiniteSet(Book!HeldOrders) /\ IsFiniteSet(Book!PaidBookOrders)
      /\ IsFiniteSet(Book!LockedBookDeposits) /\ IsFiniteSet(Book!ArrivedDeposits)
  BY BookSetsFinite, ZenonT(60)
<1>n. /\ Worth(Book!HeldOrders, Amount) \in Nat /\ Worth(Book!PaidBookOrders, Amount) \in Nat
      /\ Worth(Book!LockedBookDeposits, DepositAmount) \in Nat
      /\ Worth(Book!ArrivedDeposits, DepositAmount) \in Nat
  BY <1>f, WorthNat, ZenonT(60)
     DEF Book!HeldOrders, Book!PaidBookOrders, Book!LockedBookDeposits, Book!ArrivedDeposits
<1>b. /\ bal.frozen = Worth(Book!HeldOrders, Amount)
      /\ bal.locked = Worth(Book!LockedBookDeposits, DepositAmount)
      /\ bal.available + bal.frozen + Worth(Book!PaidBookOrders, Amount)
           = Worth(Book!ArrivedDeposits, DepositAmount)
  BY Zenon DEF BookInv, BookSums
<1>1. ASSUME NEW o \in Orders, Book!Hold(o) PROVE BookInv'
  <2>1. Book!HeldOrders' = Book!HeldOrders \cup {o} /\ o \notin Book!HeldOrders
    BY <1>1, ZenonT(60) DEF Book!Hold, Book!HeldOrders, BookInv, Book!BookTypeOK
  <2>2. /\ Book!PaidBookOrders' = Book!PaidBookOrders /\ Book!LockedBookDeposits' = Book!LockedBookDeposits
        /\ Book!ArrivedDeposits' = Book!ArrivedDeposits
    BY <1>1, ZenonT(60)
       DEF Book!Hold, Book!PaidBookOrders, Book!LockedBookDeposits, Book!ArrivedDeposits, BookInv,
           Book!BookTypeOK
  <2>3. Worth(Book!HeldOrders', Amount) = Worth(Book!HeldOrders, Amount) + Amount[o]
    BY <1>f, <2>1, WorthAdd, ZenonT(60) DEF Book!HeldOrders
  <2>4. /\ bal'.available = bal.available - Amount[o]
        /\ bal'.frozen = bal.frozen + Amount[o]
        /\ bal'.locked = bal.locked
        /\ Amount[o] <= bal.available /\ Amount[o] \in Nat
    <3>1. /\ bal'.available = bal.available - Amount[o] /\ bal'.frozen = bal.frozen + Amount[o]
          /\ bal'.locked = bal.locked
          /\ Amount[o] + bal.locked <= bal.available /\ Amount[o] \in Nat
      BY <1>1, ZenonT(60) DEF Book!Hold, Book!Row
    <3> QED BY <1>t, <3>1, SMTT(60)
  <2>5. Book!BookTypeOK'
    <3>1. bal' \in Book!BalanceType
      BY <1>1, <1>t, <2>4, SMTT(60) DEF Book!Hold, Book!Row, Book!BalanceType
    <3> QED BY <1>1, <3>1, ZenonT(60) DEF Book!Hold, BookInv, Book!BookTypeOK
  <2>6. BookSums'
    BY <1>t, <1>n, <1>b, <2>2, <2>3, <2>4, SMTT(60) DEF BookSums
  <2> QED BY <2>5, <2>6, ZenonT(60) DEF BookInv
<1>2. ASSUME NEW o \in Orders, Book!Pay(o) PROVE BookInv'
  <2>1. Book!HeldOrders' = Book!HeldOrders \ {o} /\ o \in Book!HeldOrders
    BY <1>2, ZenonT(60) DEF Book!Pay, Book!HeldOrders, BookInv, Book!BookTypeOK
  <2>2. Book!PaidBookOrders' = Book!PaidBookOrders \cup {o} /\ o \notin Book!PaidBookOrders
    BY <1>2, ZenonT(60) DEF Book!Pay, Book!PaidBookOrders, BookInv, Book!BookTypeOK
  <2>3. Book!LockedBookDeposits' = Book!LockedBookDeposits /\ Book!ArrivedDeposits' = Book!ArrivedDeposits
    BY <1>2, ZenonT(60) DEF Book!Pay, Book!LockedBookDeposits, Book!ArrivedDeposits
  <2>4. /\ Worth(Book!HeldOrders', Amount) = Worth(Book!HeldOrders, Amount) - Amount[o]
        /\ Amount[o] <= Worth(Book!HeldOrders, Amount)
    BY <1>f, <2>1, WorthRemove, ZenonT(60) DEF Book!HeldOrders
  <2>5. Worth(Book!PaidBookOrders', Amount) = Worth(Book!PaidBookOrders, Amount) + Amount[o]
    BY <1>f, <2>2, WorthAdd, ZenonT(60) DEF Book!PaidBookOrders
  <2>6. /\ bal'.available = bal.available /\ bal'.locked = bal.locked
        /\ bal'.frozen = bal.frozen - Amount[o] /\ Amount[o] \in Nat
    BY <1>2, <1>t, ZenonT(60) DEF Book!Pay, Book!Row, Book!BalanceType
  <2>7. Book!BookTypeOK'
    BY <1>2, <1>t, <1>b, <1>n, <2>4, <2>6, SMTT(60)
       DEF Book!Pay, Book!Row, BookInv, Book!BookTypeOK, Book!BalanceType
  <2>8. BookSums'
    BY <1>t, <1>n, <1>b, <2>3, <2>4, <2>5, <2>6, SMTT(60) DEF BookSums
  <2> QED BY <2>7, <2>8, Zenon DEF BookInv
<1>3. ASSUME NEW o \in Orders, Book!Return(o) PROVE BookInv'
  <2>1. Book!HeldOrders' = Book!HeldOrders \ {o} /\ o \in Book!HeldOrders
    BY <1>3, ZenonT(60) DEF Book!Return, Book!HeldOrders, BookInv, Book!BookTypeOK
  <2>2. /\ Book!PaidBookOrders' = Book!PaidBookOrders /\ Book!LockedBookDeposits' = Book!LockedBookDeposits
        /\ Book!ArrivedDeposits' = Book!ArrivedDeposits
    BY <1>3, ZenonT(60)
       DEF Book!Return, Book!PaidBookOrders, Book!LockedBookDeposits, Book!ArrivedDeposits, BookInv,
           Book!BookTypeOK
  <2>3. /\ Worth(Book!HeldOrders', Amount) = Worth(Book!HeldOrders, Amount) - Amount[o]
        /\ Amount[o] <= Worth(Book!HeldOrders, Amount)
    BY <1>f, <2>1, WorthRemove, Zenon DEF Book!HeldOrders
  <2>4. /\ bal'.available = bal.available + Amount[o] /\ bal'.locked = bal.locked
        /\ bal'.frozen = bal.frozen - Amount[o] /\ Amount[o] \in Nat
    BY <1>3, <1>t, ZenonT(60) DEF Book!Return, Book!Row, Book!BalanceType
  <2>5. Book!BookTypeOK'
    <3>1. bal' \in Book!BalanceType
      BY <1>3, <1>t, <1>b, <1>n, <2>3, <2>4, SMTT(60) DEF Book!Return, Book!Row, Book!BalanceType
    <3> QED BY <1>3, <3>1, ZenonT(60) DEF Book!Return, BookInv, Book!BookTypeOK
  <2>6. BookSums'
    BY <1>t, <1>n, <1>b, <2>2, <2>3, <2>4, SMTT(60) DEF BookSums
  <2> QED BY <2>5, <2>6, Zenon DEF BookInv
<1>4. ASSUME NEW d \in Deposits, NEW st \in {"locked", "free"}, Book!Arrive(d, st) PROVE BookInv'
  <2>1. Book!HeldOrders' = Book!HeldOrders /\ Book!PaidBookOrders' = Book!PaidBookOrders
    BY <1>4, ZenonT(60) DEF Book!Arrive, Book!HeldOrders, Book!PaidBookOrders
  <2>2. Book!ArrivedDeposits' = Book!ArrivedDeposits \cup {d} /\ d \notin Book!ArrivedDeposits
    BY <1>4, ZenonT(60) DEF Book!Arrive, Book!ArrivedDeposits, BookInv, Book!BookTypeOK
  <2>3. /\ st = "locked" => Book!LockedBookDeposits' = Book!LockedBookDeposits \cup {d}
        /\ st = "free" => Book!LockedBookDeposits' = Book!LockedBookDeposits
        /\ d \notin Book!LockedBookDeposits
    BY <1>4, ZenonT(60) DEF Book!Arrive, Book!LockedBookDeposits, BookInv, Book!BookTypeOK
  <2>4. Worth(Book!ArrivedDeposits', DepositAmount) = Worth(Book!ArrivedDeposits,
     DepositAmount) + DepositAmount[d]
    BY <1>f, <2>2, WorthAdd, ZenonT(60) DEF Book!ArrivedDeposits
  <2>5. Worth(Book!LockedBookDeposits \cup {d}, DepositAmount)
          = Worth(Book!LockedBookDeposits, DepositAmount) + DepositAmount[d]
    BY <1>f, <2>3, WorthAdd, ZenonT(60) DEF Book!LockedBookDeposits
  <2>6. /\ bal'.available = bal.available + DepositAmount[d] /\ bal'.frozen = bal.frozen
        /\ st = "locked" => bal'.locked = bal.locked + DepositAmount[d]
        /\ st = "free" => bal'.locked = bal.locked
        /\ DepositAmount[d] \in Nat
    BY <1>4, <1>t, ZenonT(60) DEF Book!Arrive, Book!Row, Book!BalanceType
  <2>7. Book!BookTypeOK'
    <3>1. bal' \in Book!BalanceType
      BY <1>4, <1>t, <2>6, SMTT(60) DEF Book!Arrive, Book!Row, Book!BalanceType
    <3> QED BY <1>4, <3>1, ZenonT(60) DEF Book!Arrive, BookInv, Book!BookTypeOK
  <2>8. bal'.locked = Worth(Book!LockedBookDeposits', DepositAmount)
    <3>1. CASE st = "locked"
      BY <3>1, <1>b, <2>3, <2>5, <2>6, ZenonT(60)
    <3>2. CASE st = "free"
      BY <3>2, <1>b, <2>3, <2>6, ZenonT(60)
    <3> QED BY <3>1, <3>2, ZenonT(60)
  <2>9. BookSums'
    BY <1>t, <1>n, <1>b, <2>1, <2>4, <2>6, <2>8, SMTT(60) DEF BookSums
  <2> QED BY <2>7, <2>9, ZenonT(60) DEF BookInv
<1>5. ASSUME NEW d \in Deposits, Book!Free(d) PROVE BookInv'
  <2>1. /\ Book!HeldOrders' = Book!HeldOrders /\ Book!PaidBookOrders' = Book!PaidBookOrders
        /\ Book!ArrivedDeposits' = Book!ArrivedDeposits
    BY <1>5, ZenonT(60)
       DEF Book!Free, Book!HeldOrders, Book!PaidBookOrders, Book!ArrivedDeposits, BookInv,
           Book!BookTypeOK
  <2>2. Book!LockedBookDeposits' = Book!LockedBookDeposits \ {d} /\ d \in Book!LockedBookDeposits
    BY <1>5, ZenonT(60) DEF Book!Free, Book!LockedBookDeposits, BookInv, Book!BookTypeOK
  <2>3. /\ Worth(Book!LockedBookDeposits', DepositAmount)
             = Worth(Book!LockedBookDeposits, DepositAmount) - DepositAmount[d]
        /\ DepositAmount[d] <= Worth(Book!LockedBookDeposits, DepositAmount)
    BY <1>f, <2>2, WorthRemove, ZenonT(60) DEF Book!LockedBookDeposits
  <2>4. /\ bal'.available = bal.available /\ bal'.frozen = bal.frozen
        /\ bal'.locked = bal.locked - DepositAmount[d] /\ DepositAmount[d] \in Nat
    BY <1>5, <1>t, ZenonT(60) DEF Book!Free, Book!Row, Book!BalanceType
  <2>5. Book!BookTypeOK'
    BY <1>5, <1>t, <1>b, <1>n, <2>3, <2>4, SMTT(60)
       DEF Book!Free, Book!Row, BookInv, Book!BookTypeOK, Book!BalanceType
  <2>6. BookSums'
    BY <1>t, <1>n, <1>b, <2>1, <2>3, <2>4, ZenonT(60) DEF BookSums
  <2> QED BY <2>5, <2>6, ZenonT(60) DEF BookInv
<1>6. ASSUME NEW d \in Deposits, Book!TakeBack(d) PROVE BookInv'
  <2>1. Book!HeldOrders' = Book!HeldOrders /\ Book!PaidBookOrders' = Book!PaidBookOrders
    BY <1>6, ZenonT(60) DEF Book!TakeBack, Book!HeldOrders, Book!PaidBookOrders
  <2>2. Book!ArrivedDeposits' = Book!ArrivedDeposits \ {d} /\ d \in Book!ArrivedDeposits
    BY <1>6, ZenonT(60) DEF Book!TakeBack, Book!ArrivedDeposits, BookInv, Book!BookTypeOK
  <2>3. /\ Worth(Book!ArrivedDeposits', DepositAmount)
             = Worth(Book!ArrivedDeposits, DepositAmount) - DepositAmount[d]
        /\ DepositAmount[d] <= Worth(Book!ArrivedDeposits, DepositAmount)
    BY <1>f, <2>2, WorthRemove, ZenonT(60) DEF Book!ArrivedDeposits
  <2>4. /\ bal'.available = bal.available - DepositAmount[d] /\ bal'.frozen = bal.frozen
        /\ BookDeposit[d] = "locked" => bal'.locked = bal.locked - DepositAmount[d]
        /\ BookDeposit[d] # "locked" => bal'.locked = bal.locked
        /\ DepositAmount[d] \in Nat /\ DepositAmount[d] <= bal.available
    BY <1>6, <1>t, ZenonT(60) DEF Book!TakeBack, Book!Row, Book!BalanceType
  <2>5. bal'.locked = Worth(Book!LockedBookDeposits', DepositAmount) /\ bal'.locked \in Nat
    <3>1. CASE BookDeposit[d] = "locked"
      <4>1. Book!LockedBookDeposits' = Book!LockedBookDeposits \ {d} /\ d \in Book!LockedBookDeposits
        BY <1>6, <3>1, ZenonT(60)
           DEF Book!TakeBack, Book!LockedBookDeposits, BookInv, Book!BookTypeOK
      <4>2. /\ Worth(Book!LockedBookDeposits', DepositAmount)
                 = Worth(Book!LockedBookDeposits, DepositAmount) - DepositAmount[d]
            /\ DepositAmount[d] <= Worth(Book!LockedBookDeposits, DepositAmount)
        BY <1>f, <4>1, WorthRemove, Zenon DEF Book!LockedBookDeposits
      <4> QED BY <1>b, <1>n, <2>4, <3>1, <4>2, SMTT(60)
    <3>2. CASE BookDeposit[d] # "locked"
      <4>1. Book!LockedBookDeposits' = Book!LockedBookDeposits
        BY <1>6, <3>2, ZenonT(60)
           DEF Book!TakeBack, Book!LockedBookDeposits, BookInv, Book!BookTypeOK
      <4> QED BY <1>b, <1>t, <2>4, <3>2, <4>1, ZenonT(60)
    <3> QED BY <3>1, <3>2, ZenonT(60)
  <2>6. Book!BookTypeOK'
    <3>1. bal' \in Book!BalanceType
      BY <1>6, <1>t, <2>4, <2>5, SMTT(60) DEF Book!TakeBack, Book!Row, Book!BalanceType
    <3> QED BY <1>6, <3>1, ZenonT(60) DEF Book!TakeBack, BookInv, Book!BookTypeOK
  <2>7. BookSums'
    BY <1>t, <1>n, <1>b, <2>1, <2>3, <2>4, <2>5, SMTT(60) DEF BookSums
  <2> QED BY <2>6, <2>7, Zenon DEF BookInv
<1>7. ASSUME NEW d \in Deposits, Book!NeverArrive(d) PROVE BookInv'
  <2>1. /\ Book!HeldOrders' = Book!HeldOrders /\ Book!PaidBookOrders' = Book!PaidBookOrders
        /\ Book!ArrivedDeposits' = Book!ArrivedDeposits /\ Book!LockedBookDeposits' = Book!LockedBookDeposits
    BY <1>7, ZenonT(60)
       DEF Book!NeverArrive, Book!HeldOrders, Book!PaidBookOrders, Book!ArrivedDeposits,
           Book!LockedBookDeposits, BookInv, Book!BookTypeOK
  <2>2. bal' = bal
    BY <1>7, ZenonT(60) DEF Book!NeverArrive
  <2>3. Book!BookTypeOK'
    BY <1>7, ZenonT(60) DEF Book!NeverArrive, BookInv, Book!BookTypeOK
  <2> QED BY <1>b, <2>1, <2>2, <2>3, ZenonT(60) DEF BookInv, BookSums
<1>8. CASE UNCHANGED Book!bookVars
  BY <1>8, ZenonT(60)
     DEF BookInv, Book!BookTypeOK, BookSums, Book!bookVars, Book!HeldOrders, Book!PaidBookOrders,
         Book!LockedBookDeposits, Book!ArrivedDeposits
<1> QED
  BY <1>1, <1>2, <1>3, <1>4, <1>5, <1>6, <1>7, <1>8, ZenonT(60) DEF Book!BookNext

\* The totals of the balance row are the sums of the rows, always.
THEOREM BookAlwaysBalanced == Book!BookSpec => []Book!BookBalanced
<1>1. BookInv => Book!BookBalanced
  BY SameWorth, ZenonT(60) DEF BookInv, BookSums, Book!BookBalanced
<1> QED
  BY BookInitInv, BookStepInv, <1>1, PTL DEF Book!BookSpec

\* The book's balance equations are those of the ledger.
LEMMA BookMeansLedger ==
    ASSUME LedgerInv, Book!BookBalanced
    PROVE  TotalsAreTheirRows
<1>1. Book!HeldOrders = OpenFreezes /\ Book!PaidBookOrders = PaidOrders
  BY Zenon
     DEF Book!HeldOrders, OpenFreezes, Book!PaidBookOrders, PaidOrders, BookOrder, BookEntry,
         LedgerInv, TypeOK, WithdrawTypeOK, FreezeRow, FreezeStatus
<1>2. /\ Book!LockedBookDeposits = LockedDeposits
      /\ Book!ArrivedDeposits = CreditedDeposits
  BY ZenonT(60)
     DEF Book!LockedBookDeposits, LockedDeposits, Book!ArrivedDeposits, CreditedDeposits,
         BookDeposit, LedgerInv, TypeOK, DepositTypeOK, DepositRow
<1> QED
  BY <1>1, <1>2, SameWorth, ZenonT(60)
     DEF Book!BookBalanced, FrozenIsHeldByFreezes, LockedIsUnfinalDeposits, MoneyConserved,
         TotalsAreTheirRows

\* The frozen column is exactly what open withdrawals hold, the locked column
\* exactly what unfinal deposits brought, and no money is made or lost.
THEOREM LedgerBalanced ==
    Spec => []TotalsAreTheirRows
BY LedgerImplementsBook, BookAlwaysBalanced, BookMeansLedger, LedgerInitInv, LedgerStepInv, PTL
   DEF Spec, ImplementsBook
=============================================================================
