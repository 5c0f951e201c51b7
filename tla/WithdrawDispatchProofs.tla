----------------------- MODULE WithdrawDispatchProofs -----------------------
(***************************************************************************)
(* The dispatcher's promises, for any orders, transactions, workers,       *)
(* requests and faults.                                                    *)
(*                                                                         *)
(* Five invariants carry them, each resting on those before:               *)
(*  - Ours: whatever a worker, a row, an attempt or a notice names is a    *)
(*    transaction of its order that is out, and a nonce is used once;      *)
(*  - Claims: requests under way are counted, a sender has one PROCESSING  *)
(*    job, and it has a lease if its order was requested once;             *)
(*  - Turns: while leases hold, one worker at a time is between the claim  *)
(*    and the end of an order's job, and the job says so;                  *)
(*  - Quietly: while nothing goes wrong, an order that is not BROADCASTED  *)
(*    yet has at most the transaction its worker holds, all transactions   *)
(*    of an order share a nonce, and each is recorded or in hand;          *)
(*  - Deep: confirmations that settle an order are of a final              *)
(*    transaction.                                                         *)
(***************************************************************************)
EXTENDS WithdrawDispatch, ChainAnswersTheorems

WorkerRow ==
    [pc : WorkerPC, order : Orders \cup {NoOrder},
     old : Txs \cup {NoTx}, tx : Txs \cup {NoTx}, attempt : Nat]
ChainRow == [status : ChainStatus, nonce : Txs \cup {NoTx}]
NoticeRow ==
    [order : Orders \cup {NoOrder}, tx : Txs \cup {NoTx},
     status : {"NONE", "BROADCASTED", "REPLACED", "CONFIRMED", "FAILED"}, confs : Int]

Typed ==
    /\ setup \in Setups
    /\ WithdrawTypeOK
    /\ workers \in [Workers -> WorkerRow]
    /\ chain \in [Txs -> ChainRow]
    /\ notice \in NoticeRow
    /\ creating \in [Orders -> Nat]
    /\ requests \in [Orders -> Nat]
    /\ faults \in Nat

Out(t) == chain[t].status # "absent"

\* A transaction of the order that is out.
OutFor(t, o) == t \in Txs /\ TxOrder[t] = o /\ Out(t)

\* The worker is between the claim and the end of a job, or after ConfirmWithdraw.
Queueing == {"execute", "broadcasted", "failed", "released"}
Sent == {"confirmed", "bump", "unbumped", "replaced"}

Broadcasted(o) == freezes[o].status \notin {"NONE", "FROZEN"}

WorkerOurs(w) ==
    /\ workers[w].pc = "idle" => workers[w].order = NoOrder
    /\ workers[w].pc # "idle" => /\ workers[w].order \in Orders
                                 /\ freezes[workers[w].order].status # "NONE"
                                 /\ jobs[workers[w].order].status # "NONE"
    /\ workers[w].pc \in Sent \cup {"broadcasted"} => OutFor(workers[w].tx, workers[w].order)
    /\ workers[w].pc \in Sent => Broadcasted(workers[w].order)

WorkersOurs == \A w \in Workers : WorkerOurs(w)

RowOurs(o) ==
    /\ jobs[o].status = "NONE" <=> freezes[o].status = "NONE"
    /\ jobs[o].payload # NoTx => OutFor(jobs[o].payload, o)
    /\ freezes[o].status = "BROADCASTED" => OutFor(freezes[o].tx, o)
    /\ \A t \in Txs : attempts[o][t] # "NONE" => OutFor(t, o)

RowsOurs == \A o \in Orders : RowOurs(o)

NoticeOurs ==
    /\ notice.order = NoOrder => notice.status = "NONE"
    /\ notice.order # NoOrder => OutFor(notice.tx, notice.order) /\ Broadcasted(notice.order)

\* A nonce is named after a transaction of the same order, and used once.
NoncesOurs ==
    /\ \A t \in Txs : Out(t) => OutFor(chain[t].nonce, TxOrder[t])
    /\ \A t \in Txs : ~Out(t) => chain[t].nonce = NoTx
    /\ \A t, u \in Txs :
         /\ chain[t].status \in {"included", "final", "reverted"}
         /\ chain[u].status \in {"included", "final", "reverted"}
         /\ chain[t].nonce = chain[u].nonce
         => t = u

Ours == Typed /\ WorkersOurs /\ RowsOurs /\ NoticeOurs /\ NoncesOurs

-----------------------------------------------------------------------------
\* A job that exists came from a request that is no longer creating.
Counted ==
    \A o \in Orders : IF jobs[o].status = "NONE" THEN creating[o] <= requests[o]
                                                ELSE creating[o] < requests[o]

Leased ==
    \A o \in Orders : jobs[o].status = "PROCESSING" /\ requests[o] <= 1 => jobs[o].leased

OneJobPerSender ==
    \A o, p \in Orders : /\ jobs[o].status = "PROCESSING" /\ jobs[p].status = "PROCESSING"
                         /\ Sender[o] = Sender[p]
                         => o = p

TurnOf(w) ==
    /\ workers[w].pc \in {"execute", "broadcasted"} => freezes[workers[w].order].status = "FROZEN"
    /\ workers[w].pc \in Queueing /\ freezes[workers[w].order].status = "FROZEN"
         => jobs[workers[w].order].status = "PROCESSING"

Alone ==
    \A v, w \in Workers :
      v # w /\ workers[v].pc \in Queueing /\ workers[w].pc \in Queueing
      => workers[v].order # workers[w].order

Turns == ~setup.slow => Alone /\ \A w \in Workers : TurnOf(w)

-----------------------------------------------------------------------------
\* The families whose transactions are replaced.
Replaceable == {"evm", "token", "lagging"}

\* An order that is not BROADCASTED has at most the transaction its worker
\* is about to confirm.
NotOutYet ==
    \A o \in Orders, t \in Txs : ~Broadcasted(o) /\ OutFor(t, o) =>
        \E w \in Workers : workers[w].pc = "broadcasted" /\ workers[w].order = o /\ workers[w].tx = t

\* A worker that has not broadcast, or has failed, has nothing out.
Unsent == {"execute", "failed", "released"}
NothingOut ==
    \A w \in Workers : workers[w].pc \in Unsent =>
        \A t \in Txs : ~OutFor(t, workers[w].order)

OneNonce ==
    \A t, u \in Txs : Out(t) /\ Out(u) /\ TxOrder[t] = TxOrder[u] =>
        /\ chain[t].nonce = chain[u].nonce
        /\ setup.family \notin Replaceable => t = u

\* What is out is recorded, unless a worker is about to record it.
Recording == {"confirmed", "replaced"}
Recorded ==
    \A o \in Orders, t \in Txs :
        freezes[o].status = "BROADCASTED" /\ OutFor(t, o) /\ chain[t].status # "reverted" =>
        \/ attempts[o][t] \in {"BROADCASTED", "REPLACED"}
        \/ \E w \in Workers : /\ workers[w].pc \in Recording
                              /\ workers[w].order = o /\ workers[w].tx = t

\* A release follows from nothing being out, or from a transaction that reverted.
ReleasedUnpaid ==
    setup.family # "aptos" =>
        /\ notice.status = "FAILED" => chain[notice.tx].status = "reverted"
        /\ \A o \in Orders : freezes[o].status = "RELEASED" =>
             \/ \A t \in Txs : ~OutFor(t, o)
             \/ \E t \in Txs : TxOrder[t] = o /\ chain[t].status = "reverted"

\* Only the families whose transactions are replaced have workers at it.
Bumping == {"bump", "unbumped", "replaced"}
OnlyReplaceable ==
    \A w \in Workers : workers[w].pc \in Bumping => setup.family \in Replaceable

Undisturbed == NotOutYet /\ NothingOut /\ OneNonce /\ Recorded /\ ReleasedUnpaid /\ OnlyReplaceable

Quietly == Calm => Undisturbed

-----------------------------------------------------------------------------
Final(o) == \E t \in Txs : TxOrder[t] = o /\ chain[t].status = "final"

\* Enough confirmations come from a transaction that is final.
Deep ==
    /\ notice.status = "CONFIRMED" /\ notice.confs >= RequiredConfs => chain[notice.tx].status = "final"
    /\ \A o \in Orders :
         /\ freezes[o].status # "RELEASED" /\ freezes[o].confs >= RequiredConfs => Final(o)
         /\ freezes[o].status = "CONFIRMED" => Final(o)

-----------------------------------------------------------------------------
(***************************************************************************)
(* What each step does, row by row.                                        *)
(***************************************************************************)

RowsBut(o) ==
    \A p \in Orders \ {o} :
      freezes'[p] = freezes[p] /\ jobs'[p] = jobs[p] /\ attempts'[p] = attempts[p]

WorkersBut(w) == \A v \in Workers \ {w} : workers'[v] = workers[v]

\* The job row after UPDATE withdraw_jobs ... processing_started_at=NULL.
JobGoes(o, st) ==
    jobs'[o].status = st /\ jobs'[o].payload = jobs[o].payload

FreezeGoes(o, st, t, c) ==
    freezes'[o].status = st /\ freezes'[o].tx = t /\ freezes'[o].confs = c

ChainBut(t) == \A u \in Txs \ {t} : chain'[u] = chain[u]

AttemptGoes(o, t, st) ==
    /\ \A u \in Txs \ {t} : attempts'[o][u] = attempts[o][u]
    /\ attempts'[o][t] = IF attempts[o][t] = "NONE" THEN "NONE" ELSE st

\* One worker moves, the others stay.
LEMMA WorkerSet ==
    ASSUME workers \in [Workers -> WorkerRow], NEW w \in Workers, NEW x \in WorkerRow,
           workers' = [workers EXCEPT ![w] = x]
    PROVE  workers' \in [Workers -> WorkerRow] /\ WorkersBut(w) /\ workers'[w] = x
BY Zenon DEF WorkersBut

\* A worker that goes on keeps what it holds.
LEMMA WorkerGoes ==
    ASSUME workers \in [Workers -> WorkerRow], NEW w \in Workers, NEW pc \in WorkerPC, Goto(w, pc)
    PROVE  /\ workers' \in [Workers -> WorkerRow] /\ WorkersBut(w)
           /\ workers'[w].pc = pc /\ workers'[w].order = workers[w].order
           /\ workers'[w].tx = workers[w].tx /\ workers'[w].old = workers[w].old
BY Zenon DEF Goto, WorkerRow, WorkersBut

\* A worker that ends holds nothing.
LEMMA WorkerIdles ==
    ASSUME workers \in [Workers -> WorkerRow], NEW w \in Workers, Idle(w)
    PROVE  /\ workers' \in [Workers -> WorkerRow] /\ WorkersBut(w)
           /\ workers'[w].pc = "idle" /\ workers'[w].order = NoOrder
BY Zenon DEF Idle, NoWork, WorkerRow, WorkerPC, WorkersBut

\* UPDATE withdraw_jobs writes one well-typed row.
LEMMA SetJobRow ==
    ASSUME jobs \in [Orders -> JobRow], NEW o \in Orders, NEW st \in JobStatus,
           jobs[o].status # "NONE", jobs' = SetJob(o, st)
    PROVE  /\ jobs' \in [Orders -> JobRow]
           /\ \A p \in Orders \ {o} : jobs'[p] = jobs[p]
           /\ JobGoes(o, st)
BY ZenonT(60) DEF SetJob, JobRow, JobGoes

\* The same of the table that is written.
LEMMA SetJobTxIs ==
    ASSUME jobs \in [Orders -> JobRow], NEW o \in Orders, NEW st \in JobStatus,
           NEW t \in Txs, jobs[o].status # "NONE"
    PROVE  /\ SetJobTx(o, st, t) \in [Orders -> JobRow]
           /\ \A p \in Orders \ {o} : SetJobTx(o, st, t)[p] = jobs[p]
           /\ SetJobTx(o, st, t)[o].status = st
           /\ SetJobTx(o, st, t)[o].payload = jobs[o].payload
BY ZenonT(60) DEF SetJobTx, JobRow

\* Setting the hash of a job writes one well-typed row.
LEMMA SetJobTxRow ==
    ASSUME jobs \in [Orders -> JobRow], NEW o \in Orders, NEW st \in JobStatus,
           NEW t \in Txs, jobs[o].status # "NONE", jobs' = SetJobTx(o, st, t)
    PROVE  /\ jobs' \in [Orders -> JobRow]
           /\ \A p \in Orders \ {o} : jobs'[p] = jobs[p]
           /\ JobGoes(o, st)
BY SetJobTxIs DEF JobGoes

\* UPDATE withdraw_tx_attempts touches one attempt of one order.
LEMMA SetAttemptRow ==
    ASSUME attempts \in [Orders -> [Txs -> AttemptStatus]], NEW o \in Orders, NEW t \in Txs,
           NEW st \in AttemptStatus, attempts' = SetAttempt(o, t, st)
    PROVE  /\ attempts' \in [Orders -> [Txs -> AttemptStatus]]
           /\ \A p \in Orders \ {o} : attempts'[p] = attempts[p]
           /\ AttemptGoes(o, t, st)
BY Zenon DEF SetAttempt, AttemptGoes

\* CreateQueue writes the freeze and the job of its order.
LEMMA CreateQueueRows ==
    ASSUME Ours, NEW o \in Orders, CreateQueue(o)
    PROVE  /\ Typed' /\ RowsBut(o) /\ creating[o] > 0
           /\ creating'[o] = creating[o] - 1
           /\ \A p \in Orders \ {o} : creating'[p] = creating[p]
           /\ UNCHANGED <<attempts, workers, chain, notice, requests, faults, setup>>
           /\ \/ freezes' = freezes /\ jobs' = jobs
              \/ /\ freezes[o].status \notin {"NONE", "RELEASED"}
                 /\ freezes' = freezes
                 /\ jobs'[o] = Requeued(jobs[o])
              \/ /\ freezes[o].status = "NONE"
                 /\ FreezeGoes(o, "FROZEN", freezes[o].tx, freezes[o].confs)
                 /\ jobs'[o] = Requeued(jobs[o])
<1> USE DEF Ours, Typed, WithdrawTypeOK
<1>1. /\ creating[o] > 0 /\ creating' = [creating EXCEPT ![o] = @ - 1]
      /\ UNCHANGED <<attempts, workers, chain, notice, requests, faults, setup>>
  BY Zenon DEF CreateQueue, QueueWithdraw, ledger
<1>2. /\ creating' \in [Orders -> Nat]
      /\ creating'[o] = creating[o] - 1
      /\ \A p \in Orders \ {o} : creating'[p] = creating[p]
  BY <1>1
<1>3. CASE UNCHANGED ledger
  <2>1. freezes' = freezes /\ jobs' = jobs
    BY <1>3, Zenon DEF ledger
  <2> QED BY <1>1, <1>2, <2>1, Zenon DEF RowsBut
<1>4. CASE QueueWithdraw(o)
  <2>1. Requeued(jobs[o]) \in JobRow
    <3>1. ASSUME NEW j \in JobRow
          PROVE  Requeued(j) \in JobRow
      BY <3>1, Zenon DEF Requeued, JobRow, JobStatus
    <3> QED BY <3>1, Zenon
  <2>2. jobs' = [jobs EXCEPT ![o] = Requeued(jobs[o])]
    BY <1>4, Zenon DEF QueueWithdraw
  <2>3. /\ jobs' \in [Orders -> JobRow] /\ jobs'[o] = Requeued(jobs[o])
        /\ \A p \in Orders \ {o} : jobs'[p] = jobs[p]
    BY <2>1, <2>2, Zenon
  <2>4. CASE freezes[o].status \in {"FROZEN", "BROADCASTED", "CONFIRMED"} /\ freezes' = freezes
    BY <1>1, <1>2, <2>3, <2>4, Zenon DEF RowsBut
  <2>5. CASE freezes[o].status = "NONE" /\ freezes' = [freezes EXCEPT ![o].status = "FROZEN"]
    <3>1. freezes' \in [Orders -> FreezeRow]
      BY <2>5, ZenonT(60) DEF FreezeRow, FreezeStatus
    <3>2. /\ FreezeGoes(o, "FROZEN", freezes[o].tx, freezes[o].confs)
          /\ \A p \in Orders \ {o} : freezes'[p] = freezes[p]
      BY <2>5, Zenon DEF FreezeGoes, FreezeRow
    <3> QED BY <1>1, <1>2, <2>3, <2>5, <3>1, <3>2, Zenon DEF RowsBut
  <2> QED BY <1>4, <2>4, <2>5, Zenon DEF QueueWithdraw, FreezeWithdrawTx
<1> QED BY <1>3, <1>4, Zenon DEF CreateQueue

\* Claim leases the job and the worker starts at it.
LEMMA ClaimRows ==
    ASSUME Ours, NEW w \in Workers, NEW o \in Orders, Claim(w, o)
    PROVE  /\ Typed' /\ RowsBut(o) /\ WorkersBut(w)
           /\ freezes[o].status = "FROZEN"
           /\ jobs[o].status \in {"QUEUED", "PROCESSING"}
           /\ jobs[o].status = "PROCESSING" => LeaseOver(o)
           /\ \A p \in Orders \ {o} : Sender[p] = Sender[o] => jobs[p].status # "PROCESSING"
           /\ jobs'[o].status = "PROCESSING" /\ jobs'[o].leased /\ jobs'[o].payload = jobs[o].payload
           /\ workers[w].pc = "idle"
           /\ workers'[w].pc = "execute" /\ workers'[w].order = o /\ workers'[w].tx = NoTx
           /\ UNCHANGED <<freezes, attempts, chain, notice, creating, requests, faults, setup>>
<1> USE DEF Ours, Typed, WithdrawTypeOK
<1>1. /\ Claimable(o)
      /\ jobs' = [jobs EXCEPT ![o].status = "PROCESSING", ![o].leased = TRUE, ![o].attempts = @ + 1]
      /\ UNCHANGED <<freezes, attempts, chain, notice, creating, requests, faults, setup>>
  BY Zenon DEF Claim, ClaimQueuedWithdraw, outside
<1>2. jobs' \in [Orders -> JobRow] /\ jobs[o] \in JobRow
  BY <1>1, SMTT(60) DEF JobRow, JobStatus
<1> DEFINE x == [NoWork EXCEPT !.pc = "execute", !.order = o, !.attempt = jobs[o].attempts + 1]
<1>3. jobs[o].attempts + 1 \in Nat
  BY <1>2 DEF JobRow
<1>4. x.pc = "execute" /\ x.order = o /\ x.tx = NoTx /\ x \in WorkerRow
  BY <1>3, Zenon DEF NoWork, WorkerRow, WorkerPC
<1>5. workers' = [workers EXCEPT ![w] = x]
  BY Zenon DEF Claim
<1> HIDE DEF x
<1>6. workers' \in [Workers -> WorkerRow] /\ WorkersBut(w) /\ workers'[w] = x
  BY <1>4, <1>5, WorkerSet, Zenon
<1>7. Typed'
  BY <1>1, <1>2, <1>6, Zenon
<1>8. /\ jobs'[o].status = "PROCESSING" /\ jobs'[o].leased /\ jobs'[o].payload = jobs[o].payload
      /\ \A p \in Orders \ {o} : jobs'[p] = jobs[p]
  BY <1>1, <1>2, Zenon DEF JobRow
<1> QED
  BY <1>1, <1>4, <1>6, <1>7, <1>8, Zenon DEF Claim, At, Claimable, SameSenderActive, RowsBut

\* Execute fails, or one new transaction of the order is out with a nonce of
\* its own; a lost answer leaves the worker without it.
LEMMA ExecuteRows ==
    ASSUME Ours, NEW w \in Workers, Execute(w)
    PROVE  /\ Typed' /\ WorkersBut(w)
           /\ workers[w].pc = "execute" /\ workers'[w].order = workers[w].order
           /\ UNCHANGED <<freezes, jobs, attempts, notice, creating, requests, setup>>
           /\ \/ chain' = chain /\ faults' = faults /\ workers'[w].pc = "failed"
              \/ \E t \in Txs :
                   /\ TxOrder[t] = workers[w].order /\ ~Out(t) /\ ChainBut(t)
                   /\ chain'[t] = [status |-> "pending", nonce |-> t]
                   /\ \/ workers'[w].pc = "broadcasted" /\ workers'[w].tx = t /\ faults' = faults
                      \/ workers'[w].pc = "failed" /\ faults' = faults + 1
<1> USE DEF Ours, Typed, WithdrawTypeOK
<1>1. /\ workers[w].pc = "execute"
      /\ UNCHANGED <<freezes, jobs, attempts, notice, creating, requests, setup>>
  BY Zenon DEF Execute, At, ledger
<1>2. "failed" \in WorkerPC
  BY Zenon DEF WorkerPC
<1>3. CASE Goto(w, "failed") /\ UNCHANGED <<chain, faults>>
  BY <1>1, <1>2, <1>3, WorkerGoes, Zenon
<1>4. ASSUME NEW t \in Fresh(workers[w].order), Broadcast(t, t)
      PROVE  /\ t \in Txs /\ TxOrder[t] = workers[w].order /\ ~Out(t) /\ ChainBut(t)
             /\ chain'[t] = [status |-> "pending", nonce |-> t]
             /\ chain' \in [Txs -> ChainRow]
  BY <1>4, Zenon DEF Fresh, Broadcast, Out, ChainBut, ChainRow, ChainStatus
<1>5. ASSUME NEW t \in Fresh(workers[w].order), Broadcast(t, t),
             workers' = [workers EXCEPT ![w].pc = "broadcasted", ![w].tx = t], faults' = faults
      PROVE  /\ workers' \in [Workers -> WorkerRow] /\ WorkersBut(w)
             /\ workers'[w].pc = "broadcasted" /\ workers'[w].tx = t
             /\ workers'[w].order = workers[w].order
  BY <1>5, ZenonT(60) DEF Fresh, WorkerRow, WorkerPC, WorkersBut
<1>6. ASSUME NEW t \in Fresh(workers[w].order), Broadcast(t, t),
             workers' = [workers EXCEPT ![w].pc = "broadcasted", ![w].tx = t], faults' = faults
      PROVE  Typed'
  BY <1>1, <1>4, <1>5, <1>6, Zenon
<1>7. ASSUME NEW t \in Fresh(workers[w].order), Broadcast(t, t), Goto(w, "failed"), faults' = faults + 1
      PROVE  /\ Typed' /\ WorkersBut(w)
             /\ workers'[w].pc = "failed" /\ workers'[w].order = workers[w].order
  <2>1. /\ workers' \in [Workers -> WorkerRow] /\ WorkersBut(w)
        /\ workers'[w].pc = "failed" /\ workers'[w].order = workers[w].order
    BY <1>2, <1>7, WorkerGoes, Zenon
  <2>2. chain' \in [Txs -> ChainRow]
    BY <1>4, <1>7, Zenon
  <2> QED BY <1>1, <1>7, <2>1, <2>2
<1>8. CASE \E t \in Fresh(workers[w].order) :
             /\ Broadcast(t, t)
             /\ workers' = [workers EXCEPT ![w].pc = "broadcasted", ![w].tx = t]
             /\ faults' = faults
  BY <1>1, <1>4, <1>5, <1>6, <1>8, Zenon
<1>9. CASE \E t \in Fresh(workers[w].order) :
             Broadcast(t, t) /\ Goto(w, "failed") /\ faults' = faults + 1
  BY <1>1, <1>4, <1>7, <1>9, Zenon
<1> QED BY <1>3, <1>8, <1>9, Zenon DEF Execute

\* The freeze row that ConfirmWithdraw writes.
LEMMA FrozenGoesOut ==
    ASSUME freezes \in [Orders -> FreezeRow], NEW o \in Orders, NEW t \in Txs,
           freezes' = [freezes EXCEPT ![o].status = "BROADCASTED", ![o].tx = t]
    PROVE  /\ freezes' \in [Orders -> FreezeRow]
           /\ FreezeGoes(o, "BROADCASTED", t, freezes[o].confs)
           /\ \A p \in Orders \ {o} : freezes'[p] = freezes[p]
BY Zenon DEF FreezeRow, FreezeStatus, FreezeGoes

\* ConfirmWithdraw makes a frozen order BROADCASTED.
LEMMA ConfirmRows ==
    ASSUME Ours, NEW w \in Workers, Confirm(w)
    PROVE  LET o == workers[w].order IN
           /\ Typed' /\ WorkersBut(w) /\ o \in Orders /\ RowsBut(o)
           /\ workers[w].pc = "broadcasted" /\ workers'[w].order = o /\ workers'[w].tx = workers[w].tx
           /\ UNCHANGED <<attempts, chain, notice, creating, requests, faults, setup>>
           /\ \/ /\ freezes[o].status = "RELEASED" /\ workers'[w].pc = "failed"
                 /\ UNCHANGED <<freezes, jobs>>
              \/ /\ freezes[o].status \in {"BROADCASTED", "CONFIRMED"} /\ workers'[w].pc = "confirmed"
                 /\ UNCHANGED <<freezes, jobs>>
              \/ /\ freezes[o].status = "FROZEN" /\ workers'[w].pc = "confirmed"
                 /\ FreezeGoes(o, "BROADCASTED", workers[w].tx, freezes[o].confs)
                 /\ JobGoes(o, "BROADCASTED")
<1> USE DEF Ours, Typed, WithdrawTypeOK
<1> DEFINE o == workers[w].order
           t == workers[w].tx
<1>1. /\ workers[w].pc = "broadcasted"
      /\ UNCHANGED <<attempts, chain, notice, creating, requests, faults, setup>>
  BY Zenon DEF Confirm, At, ConfirmWithdraw, outside, ledger
<1>2. o \in Orders /\ t \in Txs /\ jobs[o].status # "NONE"
  BY <1>1, Zenon DEF WorkersOurs, WorkerOurs, OutFor
<1>3. "failed" \in WorkerPC /\ "confirmed" \in WorkerPC /\ "BROADCASTED" \in JobStatus
  BY Zenon DEF WorkerPC, JobStatus
<1>4. CASE freezes[o].status = "RELEASED" /\ UNCHANGED ledger /\ Goto(w, "failed")
  <2>1. freezes' = freezes /\ jobs' = jobs
    BY <1>4, Zenon DEF ledger
  <2> QED BY <1>1, <1>2, <1>3, <1>4, <2>1, WorkerGoes, Zenon DEF RowsBut
<1>5. CASE /\ freezes[o].status \in {"BROADCASTED", "CONFIRMED"} /\ UNCHANGED <<freezes, jobs>>
           /\ Goto(w, "confirmed")
  BY <1>1, <1>2, <1>3, <1>5, WorkerGoes, Zenon DEF RowsBut
<1>6. CASE /\ freezes[o].status = "FROZEN"
           /\ freezes' = [freezes EXCEPT ![o].status = "BROADCASTED", ![o].tx = t]
           /\ jobs' = SetJobTx(o, "BROADCASTED", t)
           /\ Goto(w, "confirmed")
  <2>1. /\ freezes' \in [Orders -> FreezeRow]
        /\ FreezeGoes(o, "BROADCASTED", t, freezes[o].confs)
        /\ \A p \in Orders \ {o} : freezes'[p] = freezes[p]
    BY <1>2, <1>6, FrozenGoesOut, Zenon
  <2>2. /\ jobs' \in [Orders -> JobRow]
        /\ JobGoes(o, "BROADCASTED")
        /\ \A p \in Orders \ {o} : jobs'[p] = jobs[p]
    BY <1>2, <1>3, <1>6, SetJobTxRow, Zenon
  <2>3. /\ workers' \in [Workers -> WorkerRow] /\ WorkersBut(w) /\ workers'[w].pc = "confirmed"
        /\ workers'[w].order = o /\ workers'[w].tx = t
    BY <1>3, <1>6, WorkerGoes, Zenon
  <2>4. Typed'
    BY <1>1, <2>1, <2>2, <2>3, Zenon
  <2> QED BY <1>1, <1>2, <1>6, <2>1, <2>2, <2>3, <2>4, Zenon DEF RowsBut
<1> QED BY <1>4, <1>5, <1>6, Zenon DEF Confirm, ConfirmWithdraw

\* Storing a payload keeps the withdraw_jobs table well formed.
LEMMA PayloadType ==
    ASSUME NEW j \in [Orders -> JobRow], NEW o \in Orders, NEW t \in Txs
    PROVE  [j EXCEPT ![o].payload = t] \in [Orders -> JobRow]
BY Zenon DEF JobRow

\* The same for the payload and the count of a replacement.
LEMMA ReplacedJob ==
    ASSUME NEW j \in [Orders -> JobRow], NEW o \in Orders, NEW t \in Txs,
           jobs' = [j EXCEPT ![o].payload = t, ![o].replacements = @ + 1]
    PROVE  /\ jobs' \in [Orders -> JobRow] /\ jobs'[o].status = j[o].status /\ jobs'[o].payload = t
           /\ \A p \in Orders \ {o} : jobs'[p] = j[p]
BY SMTT(60) DEF JobRow

\* MarkDone records the broadcast transaction and its unsigned form.
LEMMA MarkDoneRows ==
    ASSUME Ours, NEW w \in Workers, MarkDone(w)
    PROVE  LET o == workers[w].order
               t == workers[w].tx IN
           /\ Typed' /\ WorkersBut(w) /\ o \in Orders /\ t \in Txs /\ RowsBut(o)
           /\ workers[w].pc = "confirmed" /\ workers'[w].pc = "idle" /\ workers'[w].order = NoOrder
           /\ UNCHANGED <<freezes, chain, notice, creating, requests, faults, setup>>
           /\ jobs'[o].status = "BROADCASTED" /\ jobs'[o].payload = t
           /\ attempts'[o][t] = "BROADCASTED"
           /\ \A u \in Txs \ {t} : attempts'[o][u] = attempts[o][u]
<1> USE DEF Ours, Typed, WithdrawTypeOK
<1> DEFINE o == workers[w].order
           t == workers[w].tx
<1>1. /\ workers[w].pc = "confirmed"
      /\ jobs' = [SetJobTx(o, "BROADCASTED", t) EXCEPT ![o].payload = t]
      /\ attempts' = [attempts EXCEPT ![o][t] = "BROADCASTED"]
      /\ UNCHANGED <<freezes, chain, notice, creating, requests, faults, setup>>
  BY Zenon DEF MarkDone, At, MarkQueuedWithdrawDone, outside
<1>2. o \in Orders /\ t \in Txs /\ jobs[o].status # "NONE"
  BY <1>1, Zenon DEF WorkersOurs, WorkerOurs, OutFor, Sent
<1>3. /\ workers' \in [Workers -> WorkerRow] /\ WorkersBut(w)
      /\ workers'[w].pc = "idle" /\ workers'[w].order = NoOrder
  BY WorkerIdles, Zenon DEF MarkDone
<1> HIDE DEF o, t
<1> DEFINE j == SetJobTx(o, "BROADCASTED", t)
<1>b. "BROADCASTED" \in JobStatus
  BY Zenon DEF JobStatus
<1>4. /\ j \in [Orders -> JobRow] /\ \A p \in Orders \ {o} : j[p] = jobs[p]
      /\ j[o].status = "BROADCASTED"
  BY <1>2, <1>b, SetJobTxIs
<1>a. jobs' = [j EXCEPT ![o].payload = t]
  BY <1>1, Zenon
<1> HIDE DEF j
<1>5. /\ jobs' \in [Orders -> JobRow]
      /\ \A p \in Orders \ {o} : jobs'[p] = jobs[p]
      /\ jobs'[o].status = "BROADCASTED" /\ jobs'[o].payload = t
  <2>1. jobs' \in [Orders -> JobRow]
    BY <1>2, <1>4, <1>a, PayloadType, Zenon
  <2>2. j[o] \in JobRow
    BY <1>2, <1>4, Zenon
  <2>3. jobs'[o] = [j[o] EXCEPT !.payload = t] /\ \A p \in Orders \ {o} : jobs'[p] = jobs[p]
    BY <1>2, <1>4, <1>a, Zenon
  <2>4. jobs'[o].status = j[o].status /\ jobs'[o].payload = t
    BY <2>2, <2>3, Zenon DEF JobRow
  <2> QED BY <1>4, <2>1, <2>3, <2>4, Zenon
<1>6. /\ attempts' \in [Orders -> [Txs -> AttemptStatus]]
      /\ \A p \in Orders \ {o} : attempts'[p] = attempts[p]
      /\ attempts'[o][t] = "BROADCASTED"
      /\ \A u \in Txs \ {t} : attempts'[o][u] = attempts[o][u]
  BY <1>1, <1>2, Zenon DEF AttemptStatus
<1>7. Typed'
  BY <1>1, <1>3, <1>5, <1>6, Zenon
<1> QED BY <1>1, <1>2, <1>3, <1>5, <1>6, <1>7, Zenon DEF RowsBut, o, t

\* Reschedule, MarkFailed and ResetBumped set the job's status and end.
LEMMA EndRows ==
    ASSUME Ours, NEW w \in Workers, Reschedule(w) \/ MarkFailed(w) \/ ResetBumped(w)
    PROVE  LET o == workers[w].order IN
           /\ Typed' /\ WorkersBut(w) /\ o \in Orders /\ RowsBut(o)
           /\ workers[w].pc \in {"failed", "released", "unbumped"}
           /\ workers'[w].pc = "idle" /\ workers'[w].order = NoOrder
           /\ UNCHANGED <<freezes, attempts, chain, notice, creating, requests, faults, setup>>
           /\ JobGoes(o, CASE workers[w].pc = "failed" -> "QUEUED"
                            [] workers[w].pc = "released" -> "FAILED"
                            [] workers[w].pc = "unbumped" -> "BROADCASTED")
<1> USE DEF Ours, Typed, WithdrawTypeOK
<1> DEFINE o == workers[w].order
<1>1. /\ workers[w].pc \in {"failed", "released", "unbumped"}
      /\ UNCHANGED <<freezes, attempts, chain, notice, creating, requests, faults, setup>>
  BY Zenon
     DEF Reschedule, MarkFailed, ResetBumped, At, RescheduleQueuedWithdraw,
         MarkQueuedWithdrawFailed, ResetBroadcastedWithdraw, outside
<1>2. o \in Orders /\ jobs[o].status # "NONE"
  BY <1>1, Zenon DEF WorkersOurs, WorkerOurs
<1>3. /\ workers' \in [Workers -> WorkerRow] /\ WorkersBut(w)
      /\ workers'[w].pc = "idle" /\ workers'[w].order = NoOrder
  BY WorkerIdles, Zenon DEF Reschedule, MarkFailed, ResetBumped
<1>4. PICK st \in {"QUEUED", "FAILED", "BROADCASTED"} :
        /\ jobs' = SetJob(o, st)
        /\ st = CASE workers[w].pc = "failed" -> "QUEUED"
                  [] workers[w].pc = "released" -> "FAILED"
                  [] workers[w].pc = "unbumped" -> "BROADCASTED"
  BY Zenon
     DEF Reschedule, MarkFailed, ResetBumped, At, RescheduleQueuedWithdraw,
         MarkQueuedWithdrawFailed, ResetBroadcastedWithdraw
<1>5. st \in JobStatus
  BY Zenon DEF JobStatus
<1>6. /\ jobs' \in [Orders -> JobRow] /\ JobGoes(o, st)
      /\ \A p \in Orders \ {o} : jobs'[p] = jobs[p]
  BY <1>2, <1>4, <1>5, SetJobRow, Zenon
<1>7. Typed'
  BY <1>1, <1>3, <1>6, Zenon
<1> QED BY <1>1, <1>2, <1>3, <1>4, <1>6, <1>7, Zenon DEF RowsBut

\* ReleaseQueued releases an open order.
LEMMA ReleaseRows ==
    ASSUME Ours, NEW w \in Workers, ReleaseQueued(w)
    PROVE  LET o == workers[w].order IN
           /\ Typed' /\ WorkersBut(w) /\ o \in Orders /\ RowsBut(o)
           /\ workers[w].pc = "failed" /\ workers'[w].pc = "released" /\ workers'[w].order = o
           /\ UNCHANGED <<attempts, chain, notice, creating, requests, faults, setup>>
           /\ \/ freezes[o].status \in {"RELEASED", "CONFIRMED"} /\ UNCHANGED <<freezes, jobs>>
              \/ /\ freezes[o].status \in {"FROZEN", "BROADCASTED"}
                 /\ FreezeGoes(o, "RELEASED", freezes[o].tx, freezes[o].confs)
                 /\ JobGoes(o, "RELEASED")
<1> USE DEF Ours, Typed, WithdrawTypeOK
<1> DEFINE o == workers[w].order
<1>1. /\ workers[w].pc = "failed"
      /\ UNCHANGED <<attempts, chain, notice, creating, requests, faults, setup>>
  BY Zenon DEF ReleaseQueued, At, ReleaseWithdraw, outside, ledger
<1>2. o \in Orders /\ jobs[o].status # "NONE"
  BY <1>1, Zenon DEF WorkersOurs, WorkerOurs
<1>3. "released" \in WorkerPC /\ "RELEASED" \in JobStatus
  BY Zenon DEF WorkerPC, JobStatus
<1>4. /\ workers' \in [Workers -> WorkerRow] /\ WorkersBut(w)
      /\ workers'[w].pc = "released" /\ workers'[w].order = o
  BY <1>3, WorkerGoes, Zenon DEF ReleaseQueued
<1>5. CASE freezes[o].status \in {"RELEASED", "CONFIRMED"} /\ UNCHANGED <<freezes, jobs>>
  BY <1>1, <1>2, <1>4, <1>5, Zenon DEF RowsBut
<1>6. CASE /\ freezes[o].status \in {"FROZEN", "BROADCASTED"}
           /\ freezes' = [freezes EXCEPT ![o].status = "RELEASED"]
           /\ jobs' = SetJob(o, "RELEASED")
  <2>1. /\ jobs' \in [Orders -> JobRow] /\ JobGoes(o, "RELEASED")
        /\ \A p \in Orders \ {o} : jobs'[p] = jobs[p]
    BY <1>2, <1>3, <1>6, SetJobRow, Zenon
  <2>2. /\ freezes' \in [Orders -> FreezeRow]
        /\ FreezeGoes(o, "RELEASED", freezes[o].tx, freezes[o].confs)
        /\ \A p \in Orders \ {o} : freezes'[p] = freezes[p]
    <3> HIDE DEF o
    <3> QED BY <1>2, <1>6, Zenon DEF FreezeRow, FreezeStatus, FreezeGoes
  <2>3. Typed'
    BY <1>1, <1>4, <2>1, <2>2, Zenon
  <2> QED BY <1>1, <1>2, <1>4, <1>6, <2>1, <2>2, <2>3, Zenon DEF RowsBut
<1> QED BY <1>5, <1>6, Zenon DEF ReleaseQueued, ReleaseWithdraw, ledger

\* ClaimStale leases a broadcast order whose payload is stored.
LEMMA ClaimStaleRows ==
    ASSUME Ours, NEW w \in Workers, NEW o \in Orders, ClaimStale(w, o)
    PROVE  /\ Typed' /\ RowsBut(o) /\ WorkersBut(w)
           /\ setup.family \in Replaceable
           /\ freezes[o].status = "BROADCASTED" /\ jobs[o].payload \in Txs
           /\ jobs'[o].status = "ACCELERATING" /\ jobs'[o].payload = jobs[o].payload
           /\ workers[w].pc = "idle"
           /\ workers'[w].pc = "bump" /\ workers'[w].order = o /\ workers'[w].tx = jobs[o].payload
           /\ UNCHANGED <<freezes, attempts, chain, notice, creating, requests, faults, setup>>
<1> USE DEF Ours, Typed, WithdrawTypeOK
<1>1. /\ Accelerable(o)
      /\ jobs' = [jobs EXCEPT ![o].status = "ACCELERATING", ![o].leased = TRUE]
      /\ UNCHANGED <<freezes, attempts, chain, notice, creating, requests, faults, setup>>
  BY Zenon DEF ClaimStale, ClaimStaleBroadcastedWithdraw, outside
<1>2. "ACCELERATING" \in JobStatus
  BY Zenon DEF JobStatus
<1>3. /\ jobs' \in [Orders -> JobRow] /\ jobs[o] \in JobRow
      /\ jobs'[o].status = "ACCELERATING" /\ jobs'[o].payload = jobs[o].payload
      /\ \A p \in Orders \ {o} : jobs'[p] = jobs[p]
  BY <1>1, <1>2, ZenonT(60) DEF JobRow
<1> DEFINE x == [NoWork EXCEPT !.pc = "bump", !.order = o, !.old = jobs[o].tx, !.tx = jobs[o].payload]
<1>4. x.pc = "bump" /\ x.order = o /\ x.tx = jobs[o].payload /\ x \in WorkerRow
  BY <1>3, Zenon DEF NoWork, WorkerRow, WorkerPC, JobRow
<1>5. workers' = [workers EXCEPT ![w] = x]
  BY Zenon DEF ClaimStale
<1> HIDE DEF x
<1>6. workers' \in [Workers -> WorkerRow] /\ WorkersBut(w) /\ workers'[w] = x
  BY <1>4, <1>5, WorkerSet, Zenon
<1>7. Typed'
  BY <1>1, <1>3, <1>6, Zenon
<1>8. jobs[o].payload \in Txs
  BY <1>1, <1>3, Zenon DEF Accelerable, JobRow
<1> QED
  BY <1>1, <1>3, <1>4, <1>6, <1>7, <1>8, Zenon DEF ClaimStale, At, Accelerable, RowsBut, Replaceable

\* SpeedUp fails, or one new transaction of the order is out with the nonce
\* of the stored one, which no mined transaction has used.
LEMMA SpeedUpRows ==
    ASSUME Ours, NEW w \in Workers, SpeedUp(w)
    PROVE  /\ Typed' /\ WorkersBut(w)
           /\ workers[w].pc = "bump" /\ workers'[w].order = workers[w].order
           /\ UNCHANGED <<freezes, jobs, attempts, notice, creating, requests, setup>>
           /\ \/ /\ chain' = chain /\ faults' = faults
                 /\ workers'[w].pc = "unbumped" /\ workers'[w].tx = workers[w].tx
              \/ \E t \in Txs :
                   /\ TxOrder[t] = workers[w].order /\ ~Out(t) /\ ChainBut(t)
                   /\ ~NonceUsed(workers[w].tx)
                   /\ chain'[t] = [status |-> "pending", nonce |-> chain[workers[w].tx].nonce]
                   /\ \/ workers'[w].pc = "replaced" /\ workers'[w].tx = t /\ faults' = faults
                      \/ /\ workers'[w].pc = "unbumped" /\ workers'[w].tx = workers[w].tx
                         /\ faults' = faults + 1
<1> USE DEF Ours, Typed, WithdrawTypeOK
<1> DEFINE n == chain[workers[w].tx].nonce
<1>1. /\ workers[w].pc = "bump"
      /\ UNCHANGED <<freezes, jobs, attempts, notice, creating, requests, setup>>
  BY Zenon DEF SpeedUp, At, ledger
<1>2. "unbumped" \in WorkerPC
  BY Zenon DEF WorkerPC
<1>a. n \in Txs \cup {NoTx}
  BY <1>1, Zenon DEF WorkersOurs, WorkerOurs, OutFor, Sent, ChainRow
<1>3. CASE Goto(w, "unbumped") /\ UNCHANGED <<chain, faults>>
  BY <1>1, <1>2, <1>3, WorkerGoes, Zenon
<1>4. ASSUME NEW t \in Fresh(workers[w].order), Broadcast(t, n)
      PROVE  /\ t \in Txs /\ TxOrder[t] = workers[w].order /\ ~Out(t) /\ ChainBut(t)
             /\ chain'[t] = [status |-> "pending", nonce |-> n]
             /\ chain' \in [Txs -> ChainRow]
  <2> HIDE DEF n
  <2> QED BY <1>a, <1>4, Zenon DEF Fresh, Broadcast, Out, ChainBut, ChainRow, ChainStatus
<1>5. ASSUME NEW t \in Fresh(workers[w].order),
             workers' = [workers EXCEPT ![w].pc = "replaced", ![w].tx = t]
      PROVE  /\ workers' \in [Workers -> WorkerRow] /\ WorkersBut(w)
             /\ workers'[w].pc = "replaced" /\ workers'[w].tx = t
             /\ workers'[w].order = workers[w].order
  <2> DEFINE h == [workers[w] EXCEPT !.pc = "replaced", !.tx = t]
  <2>1. workers[w] \in WorkerRow /\ t \in Txs
    BY Zenon DEF Fresh
  <2>2. h \in WorkerRow /\ h.pc = "replaced" /\ h.tx = t /\ h.order = workers[w].order
    BY <2>1, Zenon DEF WorkerRow, WorkerPC
  <2>3. workers' = [workers EXCEPT ![w] = h]
    BY <1>5, Zenon
  <2> HIDE DEF h
  <2>4. workers' \in [Workers -> WorkerRow] /\ workers'[w] = h
        /\ \A v \in Workers \ {w} : workers'[v] = workers[v]
    BY <2>2, <2>3, Zenon
  <2> QED BY <2>2, <2>4, Zenon DEF WorkersBut
<1>6. ASSUME NEW t \in Fresh(workers[w].order), Broadcast(t, n),
             workers' = [workers EXCEPT ![w].pc = "replaced", ![w].tx = t], faults' = faults
      PROVE  Typed'
  <2>1. workers' \in [Workers -> WorkerRow] BY <1>5, <1>6, Zenon
  <2>2. chain' \in [Txs -> ChainRow] BY <1>4, <1>6, Zenon
  <2> QED BY <1>1, <1>6, <2>1, <2>2, Zenon
<1>7. ASSUME NEW t \in Fresh(workers[w].order), Broadcast(t, n), Goto(w, "unbumped"),
             faults' = faults + 1
      PROVE  /\ Typed' /\ WorkersBut(w) /\ workers'[w].pc = "unbumped"
             /\ workers'[w].order = workers[w].order /\ workers'[w].tx = workers[w].tx
  <2>1. /\ workers' \in [Workers -> WorkerRow] /\ WorkersBut(w) /\ workers'[w].pc = "unbumped"
        /\ workers'[w].order = workers[w].order /\ workers'[w].tx = workers[w].tx
    BY <1>2, <1>7, WorkerGoes, Zenon
  <2>2. chain' \in [Txs -> ChainRow]
    BY <1>4, <1>7, Zenon
  <2> QED BY <1>1, <1>7, <2>1, <2>2
<1>8. CASE \E t \in Fresh(workers[w].order) :
             /\ ~NonceUsed(workers[w].tx)
             /\ Broadcast(t, n)
             /\ workers' = [workers EXCEPT ![w].pc = "replaced", ![w].tx = t]
             /\ faults' = faults
  <2> HIDE DEF n
  <2>1. PICK t \in Fresh(workers[w].order) :
             /\ ~NonceUsed(workers[w].tx)
             /\ Broadcast(t, n)
             /\ workers' = [workers EXCEPT ![w].pc = "replaced", ![w].tx = t]
             /\ faults' = faults
    BY <1>8, Zenon
  <2>2. /\ t \in Txs /\ TxOrder[t] = workers[w].order /\ ~Out(t) /\ ChainBut(t)
        /\ chain'[t] = [status |-> "pending", nonce |-> n]
    BY <1>4, <2>1, Zenon
  <2>3. /\ WorkersBut(w) /\ workers'[w].pc = "replaced" /\ workers'[w].tx = t
        /\ workers'[w].order = workers[w].order
    BY <1>5, <2>1, Zenon
  <2>4. Typed'
    BY <1>6, <2>1, Zenon
  <2> QED BY <1>1, <2>1, <2>2, <2>3, <2>4, Zenon DEF n
<1>9. CASE \E t \in Fresh(workers[w].order) :
             /\ ~NonceUsed(workers[w].tx)
             /\ Broadcast(t, n) /\ Goto(w, "unbumped") /\ faults' = faults + 1
  <2> HIDE DEF n
  <2>1. PICK t \in Fresh(workers[w].order) :
             /\ ~NonceUsed(workers[w].tx)
             /\ Broadcast(t, n) /\ Goto(w, "unbumped") /\ faults' = faults + 1
    BY <1>9, Zenon
  <2>2. /\ t \in Txs /\ TxOrder[t] = workers[w].order /\ ~Out(t) /\ ChainBut(t)
        /\ chain'[t] = [status |-> "pending", nonce |-> n]
    BY <1>4, <2>1, Zenon
  <2>3. /\ Typed' /\ WorkersBut(w) /\ workers'[w].pc = "unbumped"
        /\ workers'[w].order = workers[w].order /\ workers'[w].tx = workers[w].tx
    BY <1>7, <2>1, Zenon
  <2> QED BY <1>1, <2>1, <2>2, <2>3, Zenon DEF n
<1> QED BY <1>3, <1>8, <1>9, Zenon DEF SpeedUp

\* Replace records the replacement beside the transaction it replaces.
LEMMA ReplaceRows ==
    ASSUME Ours, NEW w \in Workers, Replace(w)
    PROVE  LET o == workers[w].order
               t == workers[w].tx IN
           /\ Typed' /\ WorkersBut(w) /\ o \in Orders /\ t \in Txs /\ RowsBut(o)
           /\ workers[w].pc = "replaced" /\ workers'[w].pc = "idle" /\ workers'[w].order = NoOrder
           /\ UNCHANGED <<chain, notice, creating, requests, faults, setup>>
           /\ freezes'[o].status = freezes[o].status /\ freezes'[o].confs = freezes[o].confs
           /\ freezes[o].status = "BROADCASTED" => freezes'[o].tx = t
           /\ jobs'[o].status = "BROADCASTED" /\ jobs'[o].payload = t
           /\ attempts'[o][t] = "BROADCASTED"
           /\ \A u \in Txs \ {t} :
                \/ attempts'[o][u] = attempts[o][u]
                \/ attempts[o][u] = "BROADCASTED" /\ attempts'[o][u] = "REPLACED"
<1> USE DEF Ours, Typed, WithdrawTypeOK
<1> DEFINE o == workers[w].order
           t == workers[w].tx
           j == SetJobTx(o, "BROADCASTED", t)
           a == [u \in Txs |-> CASE u = t -> "BROADCASTED"
                                 [] u = workers[w].old /\ u # t /\ attempts[o][u] = "BROADCASTED" -> "REPLACED"
                                 [] OTHER -> attempts[o][u]]
<1>1. /\ workers[w].pc = "replaced"
      /\ UNCHANGED <<chain, notice, creating, requests, faults, setup>>
  BY Zenon DEF Replace, At, outside
<1>2. /\ freezes' = IF freezes[o].status = "BROADCASTED"
                    THEN [freezes EXCEPT ![o].tx = t] ELSE freezes
      /\ jobs' = [j EXCEPT ![o].payload = t, ![o].replacements = @ + 1]
      /\ attempts' = [attempts EXCEPT ![o] = a]
  BY Zenon DEF Replace, ReplaceBroadcastedWithdraw
<1>3. o \in Orders /\ t \in Txs /\ jobs[o].status # "NONE"
  BY <1>1, Zenon DEF WorkersOurs, WorkerOurs, OutFor, Sent
<1>4. /\ workers' \in [Workers -> WorkerRow] /\ WorkersBut(w)
      /\ workers'[w].pc = "idle" /\ workers'[w].order = NoOrder
  BY WorkerIdles, Zenon DEF Replace
<1>5. "BROADCASTED" \in JobStatus
  BY Zenon DEF JobStatus
<1>6. /\ j \in [Orders -> JobRow] /\ \A p \in Orders \ {o} : j[p] = jobs[p]
      /\ j[o].status = "BROADCASTED"
  BY <1>3, <1>5, SetJobTxIs
<1>7. attempts[o] \in [Txs -> AttemptStatus]
  BY <1>3, Zenon
<1>8. /\ a \in [Txs -> AttemptStatus] /\ a[t] = "BROADCASTED"
      /\ \A u \in Txs \ {t} :
           \/ a[u] = attempts[o][u]
           \/ attempts[o][u] = "BROADCASTED" /\ a[u] = "REPLACED"
  BY <1>3, <1>7, Zenon DEF AttemptStatus
<1> HIDE DEF o, t, j, a
<1>9. /\ jobs' \in [Orders -> JobRow] /\ jobs'[o].status = "BROADCASTED" /\ jobs'[o].payload = t
      /\ \A p \in Orders \ {o} : jobs'[p] = jobs[p]
  <2>1. /\ jobs' \in [Orders -> JobRow] /\ jobs'[o].status = j[o].status /\ jobs'[o].payload = t
        /\ \A p \in Orders \ {o} : jobs'[p] = j[p]
    BY ONLY <1>2, <1>3, <1>6, ReplacedJob, Zenon
  <2> QED BY <1>6, <2>1, Zenon
<1>10. /\ freezes' \in [Orders -> FreezeRow]
       /\ freezes'[o].status = freezes[o].status /\ freezes'[o].confs = freezes[o].confs
       /\ freezes[o].status = "BROADCASTED" => freezes'[o].tx = t
       /\ \A p \in Orders \ {o} : freezes'[p] = freezes[p]
  BY <1>2, <1>3, ZenonT(60) DEF FreezeRow
<1>11. /\ attempts' \in [Orders -> [Txs -> AttemptStatus]] /\ attempts'[o] = a
       /\ \A p \in Orders \ {o} : attempts'[p] = attempts[p]
  BY <1>2, <1>3, <1>8, Zenon
<1>12. Typed'
  BY <1>1, <1>4, <1>9, <1>10, <1>11, Zenon
<1> QED BY <1>1, <1>3, <1>4, <1>8, <1>9, <1>10, <1>11, <1>12, Zenon DEF RowsBut, o, t

\* A crash and a ledger call that fails cost the worker what it holds, or
\* send it on, and leave the tables.
LEMMA FaultRows ==
    ASSUME Ours, NEW w \in Workers, Crash(w) \/ LedgerError(w)
    PROVE  /\ Typed' /\ WorkersBut(w)
           /\ UNCHANGED <<freezes, jobs, attempts, chain, notice, creating, requests, setup>>
           /\ faults' = faults + 1
           /\ \/ workers'[w].pc = "idle" /\ workers'[w].order = NoOrder
              \/ /\ workers'[w].order = workers[w].order
                 /\ \/ workers[w].pc = "broadcasted" /\ workers'[w].pc = "failed"
                    \/ workers[w].pc = "failed" /\ workers'[w].pc = "released"
<1> USE DEF Ours, Typed, WithdrawTypeOK
<1>1. /\ UNCHANGED <<freezes, jobs, attempts, chain, notice, creating, requests, setup>>
      /\ faults' = faults + 1
  BY Zenon DEF Crash, LedgerError, outside, ledger
<1>2. "failed" \in WorkerPC /\ "released" \in WorkerPC
  BY Zenon DEF WorkerPC
<1>3. CASE Idle(w)
  BY <1>1, <1>3, WorkerIdles
<1>4. CASE workers[w].pc = "broadcasted" /\ Goto(w, "failed")
  BY <1>1, <1>2, <1>4, WorkerGoes
<1>5. CASE workers[w].pc = "failed" /\ Goto(w, "released")
  BY <1>1, <1>2, <1>5, WorkerGoes
<1> QED BY <1>3, <1>4, <1>5, Zenon DEF Crash, LedgerError, At

\* A chain step changes the status of one transaction.
LEMMA ChainRows ==
    ASSUME Ours, NEW t \in Txs, ChainStep(t)
    PROVE  /\ Typed' /\ ChainBut(t)
           /\ chain'[t].nonce = chain[t].nonce
           /\ \/ /\ chain[t].status = "pending" /\ ~NonceUsed(t)
                 /\ chain'[t].status \in {"included", "reverted"}
              \/ chain[t].status = "included" /\ chain'[t].status = "final"
              \/ /\ setup.drops
                 /\ chain[t].status \in {"pending", "included", "reverted"}
                 /\ chain'[t].status \in {"pending", "dropped"}
           /\ UNCHANGED <<freezes, jobs, attempts, workers, notice, creating, requests, faults, setup>>
<1> USE DEF Ours, Typed, WithdrawTypeOK
<1>1. PICK st \in {"included", "reverted", "final", "pending", "dropped"} :
        /\ SetChain(t, st)
        /\ \/ /\ chain[t].status = "pending" /\ ~NonceUsed(t)
              /\ st \in {"included", "reverted"}
           \/ chain[t].status = "included" /\ st = "final"
           \/ /\ setup.drops
              /\ chain[t].status \in {"pending", "included", "reverted"}
              /\ st \in {"pending", "dropped"}
  BY Zenon DEF ChainStep, Mine, Finalize, Reorg, Vanish
<1>2. st \in ChainStatus
  BY Zenon DEF ChainStatus
<1>3. /\ chain' = [chain EXCEPT ![t].status = st]
      /\ UNCHANGED <<freezes, jobs, attempts, workers, notice, creating, requests, faults, setup>>
  BY <1>1, Zenon DEF SetChain, ledger
<1>4. /\ chain' \in [Txs -> ChainRow] /\ ChainBut(t)
      /\ chain'[t].nonce = chain[t].nonce /\ chain'[t].status = st
  BY <1>2, <1>3, Zenon DEF ChainRow, ChainBut
<1> QED BY <1>1, <1>3, <1>4, Zenon

-----------------------------------------------------------------------------
(* What the scanner makes of an answer. *)

\* What a report may say of a transaction.
ReportFair(family, t, f) ==
    /\ f.status \in {"NONE", "CONFIRMED", "FAILED"} /\ f.confs \in Int
    /\ f.status = "FAILED" /\ family # "aptos" => chain[t].status = "reverted"
    /\ f.status = "CONFIRMED" /\ f.confs > 1 => chain[t].status = "final"

\* A report that a transaction failed is about one that reverted, but on
\* Aptos, and a report of more than one confirmation is about a final one.
LEMMA FindingsFair ==
    ASSUME Typed, NEW t \in Txs, NEW g \in TxFinality(setup.family, Shown(t))
    PROVE  ReportFair(setup.family, t, Finding(g))
<1> DEFINE tx == Shown(t)
<1>1. setup.family \in Families
  BY DispatchAssumption, Zenon DEF Typed, SetupType
<1>2. chain[t].status \in ChainStatus
  BY Zenon DEF Typed, ChainRow
<1>3. FinalDepth \in Nat \ {0} /\ FinalDepth + RequiredConfs \in Nat \ {0} /\ 1 \in Nat \ {0}
  BY FinalDepthAssumption, WithdrawAssumption, SMTT(60)
<1>4. /\ tx \in ShownTx
      /\ tx.place = "block" /\ tx.good /\ tx.depth > 1 => chain[t].status = "final"
      /\ tx.place = "block" /\ ~tx.good => chain[t].status = "reverted"
  <2>1. CASE chain[t].status \in {"absent", "dropped"}
    <3>1. tx = Unknown /\ tx.place = "unknown"
      BY <2>1, Zenon DEF Shown, Unknown
    <3> QED BY <3>1, Zenon DEF ShownTx
  <2>2. CASE chain[t].status = "pending"
    <3>1. tx = Pooled /\ tx.place = "pool"
      BY <2>2, Zenon DEF Shown, Pooled
    <3> QED BY <3>1, Zenon DEF ShownTx
  <2>3. CASE chain[t].status = "included"
    <3>1. tx = InBlock(1, TRUE) /\ tx.depth = 1 /\ tx.good
      BY <2>3, Zenon DEF Shown, InBlock
    <3>2. tx \in ShownTx
      BY <1>3, <3>1, Zenon DEF ShownTx
    <3>3. ~(tx.depth > 1)
      <4>1. tx.depth = 1
        BY <3>1, Zenon
      <4> HIDE DEF tx
      <4> QED BY <4>1
    <3> QED BY <3>1, <3>2, <3>3, Zenon
  <2>4. CASE chain[t].status = "final"
    <3>1. tx = InBlock(FinalDepth + RequiredConfs, TRUE) /\ tx.good
      BY <2>4, Zenon DEF Shown, InBlock
    <3> QED BY <1>3, <2>4, <3>1, Zenon DEF ShownTx
  <2>5. CASE chain[t].status = "reverted"
    <3>1. tx = InBlock(FinalDepth, FALSE) /\ ~tx.good
      BY <2>5, Zenon DEF Shown, InBlock
    <3> QED BY <1>3, <2>5, <3>1, Zenon DEF ShownTx
  <2> QED BY <1>2, <2>1, <2>2, <2>3, <2>4, <2>5, Zenon DEF ChainStatus
<1> HIDE DEF tx
<1>5. /\ g.status \in {"PENDING", "CONFIRMED", "REVERTED", "FINALIZED"} /\ g.confs \in Int
      /\ g.status = "REVERTED" /\ setup.family # "aptos" => tx.place = "block" /\ ~tx.good
      /\ g.status \in {"CONFIRMED", "FINALIZED"} /\ g.confs > 0 =>
           tx.place = "block" /\ tx.good /\ g.confs <= tx.depth
  <2>1. g \in TxFinality(setup.family, tx)
    BY Zenon DEF tx
  <2> QED BY <1>1, <1>4, <2>1, AnswersFair, Zenon
<1>6. tx.depth \in Nat
  BY <1>4 DEF ShownTx, Unknown, Pooled, InBlock
<1>7. CASE g.status = "REVERTED"
  BY <1>4, <1>5, <1>7, Zenon DEF Finding, Answer, ReportFair
<1>8. CASE g.status = "PENDING"
  BY <1>8 DEF Finding, Answer, ReportFair
<1>9. CASE g.status \in {"CONFIRMED", "FINALIZED"}
  <2>1. Finding(g).status = "CONFIRMED" /\ Finding(g).confs = g.confs
    BY <1>9, Zenon DEF Finding, Answer
  <2>2. g.confs > 1 => tx.place = "block" /\ tx.good /\ tx.depth > 1
    BY <1>5, <1>6, <1>9
  <2> QED BY <1>4, <1>5, <2>1, <2>2, Zenon DEF ReportFair
<1> QED BY <1>5, <1>7, <1>8, <1>9, Zenon

-----------------------------------------------------------------------------
(* Requests and notices, row by row. *)

\* CreateLookup counts a request, and one that creates if there is no order.
LEMMA CreateLookupRows ==
    ASSUME Ours, NEW o \in Orders, CreateLookup(o)
    PROVE  /\ Typed' /\ requests'[o] = requests[o] + 1
           /\ creating'[o] = creating[o] + (IF freezes[o].status = "NONE" THEN 1 ELSE 0)
           /\ \A p \in Orders \ {o} : requests'[p] = requests[p] /\ creating'[p] = creating[p]
           /\ UNCHANGED <<freezes, jobs, attempts, workers, chain, notice, faults, setup>>
<1> USE DEF Ours, Typed, WithdrawTypeOK
<1>1. /\ requests' = [requests EXCEPT ![o] = @ + 1]
      /\ creating' = IF freezes[o].status = "NONE" THEN [creating EXCEPT ![o] = @ + 1] ELSE creating
      /\ UNCHANGED <<freezes, jobs, attempts, workers, chain, notice, faults, setup>>
  BY Zenon DEF CreateLookup, ledger
<1>2. requests' \in [Orders -> Nat] /\ creating' \in [Orders -> Nat]
  BY <1>1
<1>3. Typed'
  BY <1>1, <1>2, Zenon
<1> QED BY <1>1, <1>3

\* The scanner's own steps leave the tables, the workers and the chain.
LEMMA NoticeRows ==
    ASSUME Ours,
           \/ \E o \in Orders, t \in Txs : List(o, t)
           \/ Look
           \/ NotifyLost
    PROVE  /\ Typed'
           /\ UNCHANGED <<freezes, jobs, attempts, workers, chain, creating, requests, setup>>
           /\ faults' >= faults
           /\ \/ notice'.order = NoOrder /\ notice'.status = "NONE"
              \/ /\ notice'.order \in Orders /\ notice'.tx \in Txs
                 /\ notice'.status \in {"BROADCASTED", "REPLACED"}
                 /\ freezes[notice'.order].status = "BROADCASTED"
                 /\ attempts[notice'.order][notice'.tx] # "NONE"
              \/ /\ notice'.order = notice.order /\ notice'.tx = notice.tx
                 /\ notice.order \in Orders /\ notice.tx \in Txs
                 /\ ReportFair(setup.family, notice.tx,
                               [status |-> notice'.status, confs |-> notice'.confs])
<1> USE DEF Ours, Typed, WithdrawTypeOK
<1>1. UNCHANGED <<freezes, jobs, attempts, workers, chain, creating, requests, setup>>
  BY Zenon DEF List, Look, NotifyLost, ledger
<1>2. /\ NoNotice \in NoticeRow /\ NoNotice.order = NoOrder /\ NoNotice.status = "NONE"
  BY DEF NoNotice, NoticeRow
<1>3. CASE NotifyLost
  <2>1. notice' = NoNotice /\ faults' = faults + 1
    BY <1>3, Zenon DEF NotifyLost
  <2> QED BY <1>1, <1>2, <2>1
<1>4. CASE \E o \in Orders, t \in Txs : List(o, t)
  <2>1. PICK o \in Orders, t \in Txs : List(o, t)
    BY <1>4, Zenon
  <2>2. /\ notice' = [order |-> o, tx |-> t, status |-> attempts[o][t], confs |-> 0]
        /\ attempts[o][t] \in {"BROADCASTED", "REPLACED"} /\ freezes[o].status = "BROADCASTED"
        /\ faults' = faults
    BY <2>1, Zenon DEF List, Listed
  <2>3. notice' \in NoticeRow
    BY <2>2, SMTT(60) DEF NoticeRow
  <2> QED BY <1>1, <2>2, <2>3
<1>5. CASE Look
  <2>1. notice.order # NoOrder /\ notice.status # "NONE"
    BY <1>5, Zenon DEF Look, NoticeOurs
  <2>2. notice.order \in Orders /\ notice.tx \in Txs /\ faults' = faults
    BY <1>5, <2>1, Zenon DEF Look, NoticeOurs, OutFor, NoticeRow
  <2>3. CASE notice' = NoNotice
    BY <1>1, <1>2, <2>2, <2>3, SMTT(60)
  <2>4. CASE notice' # NoNotice
    <3> DEFINE reports == {Finding(g) : g \in TxFinality(setup.family, Shown(notice.tx))}
    <3>a. PICK f \in IF reports = {} THEN {Answer("NONE", 0)} ELSE reports :
            notice' = IF f.status = "NONE" \/ (f.status = "FAILED" /\ notice.status = "REPLACED")
                      THEN NoNotice
                      ELSE [notice EXCEPT !.status = f.status, !.confs = f.confs]
      BY <1>5, Zenon DEF Look
    <3> HIDE DEF reports
    <3>b. f.status # "NONE" /\ notice' = [notice EXCEPT !.status = f.status, !.confs = f.confs]
      BY <2>4, <3>a, Zenon
    <3>c. f # Answer("NONE", 0)
      BY <3>b DEF Answer
    <3>1. /\ f \in {Finding(g) : g \in TxFinality(setup.family, Shown(notice.tx))}
          /\ notice' = [notice EXCEPT !.status = f.status, !.confs = f.confs]
      BY <3>a, <3>b, <3>c, Zenon DEF reports
    <3>2. ReportFair(setup.family, notice.tx, f)
      BY <2>2, <3>1, FindingsFair, Zenon
    <3>3. f.status \in {"NONE", "CONFIRMED", "FAILED"} /\ f.confs \in Int
      BY <3>2, Zenon DEF ReportFair
    <3>4. /\ notice'.order = notice.order /\ notice'.tx = notice.tx
          /\ notice'.status = f.status /\ notice'.confs = f.confs
      BY <3>1, Zenon DEF NoticeRow
    <3>5. notice' \in NoticeRow
      BY <3>1, <3>3, Zenon DEF NoticeRow
    <3>6. ReportFair(setup.family, notice.tx, [status |-> notice'.status, confs |-> notice'.confs])
      BY <3>2, <3>4, Zenon DEF ReportFair
    <3>7. Typed'
      BY <1>1, <2>2, <3>5, Zenon
    <3> QED BY <1>1, <2>2, <3>4, <3>6, <3>7
  <2> QED BY <2>3, <2>4, Zenon
<1> QED BY <1>3, <1>4, <1>5, Zenon

\* The freeze row that FailWithdrawOnChain writes.
LEMMA FreezeFails ==
    ASSUME freezes \in [Orders -> FreezeRow], NEW o \in Orders, NEW c \in Int,
           freezes' = [freezes EXCEPT ![o].status = "RELEASED", ![o].confs = Max2(@, c)]
    PROVE  /\ freezes' \in [Orders -> FreezeRow]
           /\ FreezeGoes(o, "RELEASED", freezes[o].tx, Max2(c, freezes[o].confs))
           /\ \A p \in Orders \ {o} : freezes'[p] = freezes[p]
<1>1. /\ Max2(freezes[o].confs, c) = Max2(c, freezes[o].confs)
      /\ Max2(freezes[o].confs, c) \in Nat
  BY DEF Max2, FreezeRow
<1>2. "RELEASED" \in FreezeStatus
  BY Zenon DEF FreezeStatus
<1>3. freezes' \in [Orders -> FreezeRow]
  BY <1>1, <1>2, Zenon DEF FreezeRow
<1>4. /\ freezes'[o].status = "RELEASED" /\ freezes'[o].tx = freezes[o].tx
      /\ freezes'[o].confs = Max2(freezes[o].confs, c)
      /\ \A p \in Orders \ {o} : freezes'[p] = freezes[p]
  BY Zenon DEF FreezeRow
<1> QED BY <1>1, <1>3, <1>4, Zenon DEF FreezeGoes

\* What a delivered notice does to the rows of its order.
Delivered(o, t, c) ==
    LET confs == Max2(c, freezes[o].confs)
        open == freezes[o].status \in {"FROZEN", "BROADCASTED"} IN
    \/ /\ notice.status = "CONFIRMED" /\ freezes[o].status = "RELEASED"
       /\ UNCHANGED <<freezes, jobs, attempts>>
    \/ /\ notice.status = "CONFIRMED" /\ freezes[o].status = "CONFIRMED"
       /\ FreezeGoes(o, "CONFIRMED", freezes[o].tx, confs) /\ jobs' = jobs
       /\ AttemptGoes(o, t, "CONFIRMED")
    \/ /\ notice.status = "CONFIRMED" /\ open /\ confs < RequiredConfs
       /\ FreezeGoes(o, "BROADCASTED", t, confs) /\ JobGoes(o, "BROADCASTED")
       /\ AttemptGoes(o, t, "BROADCASTED")
    \/ /\ notice.status = "CONFIRMED" /\ open /\ confs >= RequiredConfs
       /\ FreezeGoes(o, "CONFIRMED", t, confs) /\ JobGoes(o, "DONE")
       /\ AttemptGoes(o, t, "CONFIRMED")
    \/ /\ notice.status = "FAILED"
       /\ freezes[o].status \in {"RELEASED", "CONFIRMED"} \/ (open /\ freezes[o].tx \notin {NoTx, t})
       /\ UNCHANGED <<freezes, jobs>> /\ AttemptGoes(o, t, "FAILED")
    \/ /\ notice.status = "FAILED" /\ open
       /\ FreezeGoes(o, "RELEASED", freezes[o].tx, confs) /\ JobGoes(o, "FAILED")
       /\ AttemptGoes(o, t, "FAILED")

\* Notify delivers what the scanner has in hand.
LEMMA NotifyRows ==
    ASSUME Ours, Notify
    PROVE  LET o == notice.order
               t == notice.tx IN
           /\ Typed' /\ o \in Orders /\ t \in Txs /\ RowsBut(o)
           /\ notice' = NoNotice
           /\ UNCHANGED <<workers, chain, creating, requests, faults, setup>>
           /\ Delivered(o, t, notice.confs)
<1> USE DEF Ours, Typed, WithdrawTypeOK
<1> DEFINE o == notice.order
           t == notice.tx
           c == notice.confs
           confs == Max2(c, freezes[o].confs)
<1>1. notice' = NoNotice /\ UNCHANGED <<workers, chain, creating, requests, faults, setup>>
  BY Zenon DEF Notify
<1>2. o \in Orders /\ t \in Txs
  <2>1. o # NoOrder
    BY Zenon DEF Notify, NoticeOurs
  <2> QED BY <2>1, Zenon DEF NoticeOurs, NoticeRow, OutFor
<1>3. Broadcasted(o) /\ jobs[o].status # "NONE"
  BY <1>2, DispatchAssumption, Zenon DEF NoticeOurs, RowsOurs, RowOurs, Broadcasted
<1>4. NoNotice \in NoticeRow
  BY DEF NoNotice, NoticeRow
<1>5. confs \in Nat
  BY <1>2 DEF Max2, FreezeRow, NoticeRow
<1>6. /\ {"BROADCASTED", "DONE", "FAILED"} \subseteq JobStatus
      /\ {"BROADCASTED", "CONFIRMED", "FAILED"} \subseteq AttemptStatus
      /\ {"BROADCASTED", "CONFIRMED", "RELEASED"} \subseteq FreezeStatus
  BY Zenon DEF JobStatus, AttemptStatus, FreezeStatus
<1> HIDE DEF o, t, c, confs
<1>7. CASE notice.status = "CONFIRMED" /\ freezes[o].status = "RELEASED" /\ UNCHANGED ledger
  <2>1. UNCHANGED <<freezes, jobs, attempts>>
    BY <1>7, Zenon DEF ledger
  <2>2. Delivered(o, t, c)
    BY <1>7, <2>1, Zenon DEF Delivered
  <2> QED BY <1>1, <1>2, <1>4, <2>1, <2>2, Zenon DEF RowsBut, o, t, c
<1>8. CASE notice.status = "CONFIRMED" /\ ConfirmWithdrawOnChain(o, t, c)
  <2>1. CASE /\ freezes[o].status = "CONFIRMED"
             /\ freezes' = [freezes EXCEPT ![o].confs = confs]
             /\ attempts' = SetAttempt(o, t, "CONFIRMED")
             /\ UNCHANGED jobs
    <3>1. /\ freezes' \in [Orders -> FreezeRow] /\ FreezeGoes(o, "CONFIRMED", freezes[o].tx, confs)
          /\ \A p \in Orders \ {o} : freezes'[p] = freezes[p]
      BY <1>2, <1>5, <2>1, Zenon DEF FreezeRow, FreezeGoes
    <3>2. /\ attempts' \in [Orders -> [Txs -> AttemptStatus]] /\ AttemptGoes(o, t, "CONFIRMED")
          /\ \A p \in Orders \ {o} : attempts'[p] = attempts[p]
      BY <1>2, <1>6, <2>1, SetAttemptRow, Zenon
    <3>3. Delivered(o, t, c)
      BY <1>8, <2>1, <3>1, <3>2, Zenon DEF Delivered, confs
    <3>4. Typed'
      BY <1>1, <1>4, <2>1, <3>1, <3>2, Zenon
    <3> QED BY <1>1, <1>2, <2>1, <3>1, <3>2, <3>3, <3>4, ZenonT(60) DEF RowsBut, o, t, c
  <2>2. CASE /\ freezes[o].status \in {"FROZEN", "BROADCASTED"} /\ confs < RequiredConfs
             /\ freezes' = [freezes EXCEPT ![o] = [status |-> "BROADCASTED", tx |-> t, confs |-> confs]]
             /\ jobs' = SetJobTx(o, "BROADCASTED", t)
             /\ attempts' = SetAttempt(o, t, "BROADCASTED")
    <3>1. /\ freezes' \in [Orders -> FreezeRow] /\ FreezeGoes(o, "BROADCASTED", t, confs)
          /\ \A p \in Orders \ {o} : freezes'[p] = freezes[p]
      BY <1>2, <1>5, <1>6, <2>2, Zenon DEF FreezeRow, FreezeGoes
    <3>2. /\ attempts' \in [Orders -> [Txs -> AttemptStatus]] /\ AttemptGoes(o, t, "BROADCASTED")
          /\ \A p \in Orders \ {o} : attempts'[p] = attempts[p]
      BY <1>2, <1>6, <2>2, SetAttemptRow, Zenon
    <3>3. /\ jobs' \in [Orders -> JobRow] /\ JobGoes(o, "BROADCASTED")
          /\ \A p \in Orders \ {o} : jobs'[p] = jobs[p]
      BY <1>2, <1>3, <1>6, <2>2, SetJobTxRow, Zenon
    <3>4. Delivered(o, t, c)
      BY <1>8, <2>2, <3>1, <3>2, <3>3, Zenon DEF Delivered, confs
    <3>5. Typed'
      BY <1>1, <1>4, <3>1, <3>2, <3>3, Zenon
    <3> QED BY <1>1, <1>2, <3>1, <3>2, <3>3, <3>4, <3>5, Zenon DEF RowsBut, o, t, c
  <2>3. CASE /\ freezes[o].status \in {"FROZEN", "BROADCASTED"} /\ confs >= RequiredConfs
             /\ freezes' = [freezes EXCEPT ![o] = [status |-> "CONFIRMED", tx |-> t, confs |-> confs]]
             /\ jobs' = SetJobTx(o, "DONE", t)
             /\ attempts' = SetAttempt(o, t, "CONFIRMED")
    <3>1. /\ freezes' \in [Orders -> FreezeRow] /\ FreezeGoes(o, "CONFIRMED", t, confs)
          /\ \A p \in Orders \ {o} : freezes'[p] = freezes[p]
      BY <1>2, <1>5, <1>6, <2>3, Zenon DEF FreezeRow, FreezeGoes
    <3>2. /\ attempts' \in [Orders -> [Txs -> AttemptStatus]] /\ AttemptGoes(o, t, "CONFIRMED")
          /\ \A p \in Orders \ {o} : attempts'[p] = attempts[p]
      BY <1>2, <1>6, <2>3, SetAttemptRow, Zenon
    <3>3. /\ jobs' \in [Orders -> JobRow] /\ JobGoes(o, "DONE")
          /\ \A p \in Orders \ {o} : jobs'[p] = jobs[p]
      BY <1>2, <1>3, <1>6, <2>3, SetJobTxRow, Zenon
    <3>4. Delivered(o, t, c)
      BY <1>8, <2>3, <3>1, <3>2, <3>3, Zenon DEF Delivered, confs
    <3>5. Typed'
      BY <1>1, <1>4, <3>1, <3>2, <3>3, Zenon
    <3> QED BY <1>1, <1>2, <3>1, <3>2, <3>3, <3>4, <3>5, Zenon DEF RowsBut, o, t, c
  <2> QED BY <1>8, <2>1, <2>2, <2>3, Zenon DEF ConfirmWithdrawOnChain, confs
<1>9. CASE notice.status = "FAILED" /\ FailWithdrawOnChain(o, t, c)
  <2>1. /\ attempts' \in [Orders -> [Txs -> AttemptStatus]] /\ AttemptGoes(o, t, "FAILED")
        /\ \A p \in Orders \ {o} : attempts'[p] = attempts[p]
    <3>1. attempts' = SetAttempt(o, t, "FAILED")
      BY <1>9, Zenon DEF FailWithdrawOnChain
    <3> QED BY <1>2, <1>6, <3>1, SetAttemptRow, Zenon
  <2>2. CASE /\ \/ freezes[o].status \in {"RELEASED", "CONFIRMED"}
                \/ /\ freezes[o].status \in {"FROZEN", "BROADCASTED"}
                   /\ freezes[o].tx \notin {NoTx, t}
             /\ UNCHANGED <<freezes, jobs>>
    <3>1. Delivered(o, t, c)
      BY <1>9, <2>1, <2>2, Zenon DEF Delivered
    <3>2. Typed'
      BY <1>1, <1>4, <2>1, <2>2, Zenon
    <3> QED BY <1>1, <1>2, <2>1, <2>2, <3>1, <3>2, Zenon DEF RowsBut, o, t, c
  <2>3. CASE /\ freezes[o].status \in {"FROZEN", "BROADCASTED"}
             /\ freezes' = [freezes EXCEPT ![o].status = "RELEASED", ![o].confs = Max2(@, c)]
             /\ jobs' = SetJob(o, "FAILED")
    <3>0. c \in Int
      BY Zenon DEF c, NoticeRow
    <3>1. /\ freezes' \in [Orders -> FreezeRow] /\ FreezeGoes(o, "RELEASED", freezes[o].tx, confs)
          /\ \A p \in Orders \ {o} : freezes'[p] = freezes[p]
      BY <1>2, <2>3, <3>0, FreezeFails, Zenon DEF confs
    <3>3. /\ jobs' \in [Orders -> JobRow] /\ JobGoes(o, "FAILED")
          /\ \A p \in Orders \ {o} : jobs'[p] = jobs[p]
      BY <1>2, <1>3, <1>6, <2>3, SetJobRow, Zenon
    <3>4. Delivered(o, t, c)
      BY <1>9, <2>1, <2>3, <3>1, <3>3, Zenon DEF Delivered, confs
    <3>5. Typed'
      BY <1>1, <1>4, <2>1, <3>1, <3>3, Zenon
    <3> QED BY <1>1, <1>2, <2>1, <3>1, <3>3, <3>4, <3>5, Zenon DEF RowsBut, o, t, c
  <2> QED BY <1>9, <2>2, <2>3, Zenon DEF FailWithdrawOnChain
<1> QED BY <1>7, <1>8, <1>9, Zenon DEF Notify, o, t, c

-----------------------------------------------------------------------------
(***************************************************************************)
(* Ours is an invariant: what is out stays out, an order and its job stay, *)
(* and what was broadcast does not go back.                                *)
(***************************************************************************)

Persist ==
    /\ \A t \in Txs : Out(t) => Out(t)'
    /\ \A o \in Orders : /\ Broadcasted(o) => Broadcasted(o)'
                         /\ freezes[o].status # "NONE" => freezes'[o].status # "NONE"
                         /\ jobs[o].status # "NONE" => jobs'[o].status # "NONE"

\* What a transaction is out for stays.
LEMMA OutStays ==
    ASSUME Persist, NEW t, NEW o, OutFor(t, o)
    PROVE  OutFor(t, o)'
BY Zenon DEF Persist, OutFor

\* A worker that a step does not move keeps its facts.
LEMMA WorkerStays ==
    ASSUME Persist, NEW v \in Workers, WorkerOurs(v), workers'[v] = workers[v]
    PROVE  WorkerOurs(v)'
<1>1. workers[v].pc \in Sent \cup {"broadcasted"} => OutFor(workers[v].tx, workers[v].order)'
  BY Zenon DEF WorkerOurs, OutFor, Persist
<1>2. workers[v].pc # "idle" =>
        workers'[v].order \in Orders /\ freezes'[workers'[v].order].status # "NONE"
                                    /\ jobs'[workers'[v].order].status # "NONE"
  BY Zenon DEF WorkerOurs, Persist
<1>3. workers[v].pc \in Sent => Broadcasted(workers[v].order)'
  <2>1. workers[v].pc \in Sent => workers[v].pc # "idle"
    BY Zenon DEF Sent
  <2> QED BY <2>1, Zenon DEF WorkerOurs, Persist, Broadcasted
<1> QED BY <1>1, <1>2, <1>3, Zenon DEF WorkerOurs

\* The workers that a step does not move keep their facts.
LEMMA OtherWorkers ==
    ASSUME Ours, Persist, NEW w \in Workers, WorkersBut(w), WorkerOurs(w)'
    PROVE  WorkersOurs'
<1> SUFFICES ASSUME NEW v \in Workers, v # w PROVE WorkerOurs(v)'
  BY Zenon DEF WorkersOurs
<1>1. WorkerOurs(v) /\ workers'[v] = workers[v]
  BY Zenon DEF Ours, WorkersOurs, WorkersBut
<1> QED BY <1>1, WorkerStays, Zenon

\* All workers, when none moves.
LEMMA SameWorkers ==
    ASSUME Ours, Persist, workers' = workers
    PROVE  WorkersOurs'
<1> SUFFICES ASSUME NEW v \in Workers PROVE WorkerOurs(v)'
  BY Zenon DEF WorkersOurs
<1>1. WorkerOurs(v) /\ workers'[v] = workers[v]
  BY Zenon DEF Ours, WorkersOurs
<1> QED BY <1>1, WorkerStays, Zenon

\* The orders that a step does not touch keep theirs.
LEMMA OtherRows ==
    ASSUME Ours, Persist, NEW o \in Orders, RowsBut(o), RowOurs(o)'
    PROVE  RowsOurs'
<1> SUFFICES ASSUME NEW p \in Orders, p # o PROVE RowOurs(p)'
  BY Zenon DEF RowsOurs
<1>1. RowOurs(p) /\ freezes'[p] = freezes[p] /\ jobs'[p] = jobs[p] /\ attempts'[p] = attempts[p]
  BY Zenon DEF Ours, RowsOurs, RowsBut
<1> QED BY <1>1, OutStays, Zenon DEF RowOurs

\* All orders, when none is touched.
LEMMA SameRows ==
    ASSUME Ours, Persist, UNCHANGED <<freezes, jobs, attempts>>
    PROVE  RowsOurs'
<1> SUFFICES ASSUME NEW p \in Orders PROVE RowOurs(p)'
  BY Zenon DEF RowsOurs
<1>1. RowOurs(p) /\ freezes'[p] = freezes[p] /\ jobs'[p] = jobs[p] /\ attempts'[p] = attempts[p]
  BY Zenon DEF Ours, RowsOurs
<1> QED BY <1>1, OutStays, Zenon DEF RowOurs

\* A notice in hand stays good.
LEMMA SameNotice ==
    ASSUME Ours, Persist, notice' = notice
    PROVE  NoticeOurs'
<1>1. CASE notice.order = NoOrder
  BY <1>1, Zenon DEF Ours, NoticeOurs
<1>2. CASE notice.order # NoOrder
  <2>1. notice.order \in Orders
    BY <1>2, Zenon DEF Ours, Typed, NoticeRow
  <2> QED BY <1>2, <2>1, OutStays, Zenon DEF Ours, NoticeOurs, Persist
<1> QED BY <1>1, <1>2, Zenon

\* The chain, when it stays.
LEMMA SameChain ==
    ASSUME Ours, chain' = chain
    PROVE  NoncesOurs'
BY Zenon DEF Ours, NoncesOurs, Out, OutFor

\* CreateQueue keeps Ours.
LEMMA CreateQueueOurs ==
    ASSUME Ours, NEW o \in Orders, CreateQueue(o)
    PROVE  Ours'
<1>1. RowOurs(o) /\ jobs[o] \in JobRow
  BY Zenon DEF Ours, RowsOurs, Typed, WithdrawTypeOK
<1>2. /\ Requeued(jobs[o]).payload = NoTx /\ Requeued(jobs[o]).status # "NONE"
  BY <1>1, Zenon DEF Requeued, JobRow
<1>3. Persist
  BY <1>1, <1>2, CreateQueueRows, Zenon DEF Persist, RowsBut, FreezeGoes, Broadcasted, Out
<1>4. RowOurs(o)'
  BY <1>1, <1>2, <1>3, OutStays, CreateQueueRows, SMTT(60) DEF RowOurs, FreezeGoes
<1> QED BY <1>3, <1>4, CreateQueueRows, SameWorkers, OtherRows, SameNotice, SameChain, Zenon
           DEF Ours

\* Claim keeps Ours.
LEMMA ClaimOurs ==
    ASSUME Ours, NEW w \in Workers, NEW o \in Orders, Claim(w, o)
    PROVE  Ours'
<1>1. RowOurs(o)
  BY Zenon DEF Ours, RowsOurs
<1>2. Persist
  BY ClaimRows, ZenonT(60) DEF Persist, RowsBut, Broadcasted, Out
<1>3. RowOurs(o)'
  BY <1>1, <1>2, OutStays, ClaimRows, SMTT(60) DEF RowOurs
<1>4. WorkerOurs(w)'
  BY ClaimRows, ZenonT(60) DEF WorkerOurs, Sent
<1> QED BY <1>2, <1>3, <1>4, ClaimRows, OtherWorkers, OtherRows, SameNotice, SameChain, Zenon
           DEF Ours

\* A new transaction with a nonce of its order.
LEMMA NewTransaction ==
    ASSUME Ours, Persist, NEW t \in Txs, NEW n, ~Out(t), ChainBut(t),
           chain'[t] = [status |-> "pending", nonce |-> n], OutFor(n, TxOrder[t])'
    PROVE  NoncesOurs'
<1>1. chain'[t].status = "pending" /\ chain'[t].nonce = n
  BY SMTT(60)
<1>2. \A u \in Txs \ {t} : chain'[u] = chain[u]
  BY Zenon DEF ChainBut
<1>3. \A u \in Txs : Out(u)' => OutFor(chain[u].nonce, TxOrder[u])'
  <2> SUFFICES ASSUME NEW u \in Txs, Out(u)' PROVE OutFor(chain[u].nonce, TxOrder[u])'
    BY Zenon
  <2>1. CASE u = t
    BY <1>1, <2>1, Zenon DEF OutFor, Out
  <2>2. CASE u # t
    <3>1. Out(u)
      BY <1>2, <2>2, Zenon DEF Out
    <3>2. OutFor(chain[u].nonce, TxOrder[u])
      BY <3>1, Zenon DEF Ours, NoncesOurs
    <3> QED BY <1>2, <2>2, <3>2, OutStays, Zenon
  <2> QED BY <2>1, <2>2, Zenon
<1>4. \A u \in Txs : ~Out(u)' => chain'[u].nonce = NoTx
  BY <1>1, <1>2, Zenon DEF Ours, NoncesOurs, Out
<1> QED BY <1>1, <1>2, <1>3, <1>4, SMTT(60) DEF Ours, NoncesOurs

\* Execute keeps Ours.
LEMMA ExecuteOurs ==
    ASSUME Ours, NEW w \in Workers, Execute(w)
    PROVE  Ours'
<1>1. WorkerOurs(w)
  BY Zenon DEF Ours, WorkersOurs
<1>2. Persist
  BY ExecuteRows, Zenon DEF Persist, Broadcasted, Out, ChainBut
<1>3. WorkerOurs(w)'
  <2>1. CASE workers'[w].pc = "failed"
    BY <1>1, <2>1, ExecuteRows, Zenon DEF WorkerOurs, Sent
  <2>2. CASE workers'[w].pc # "failed"
    <3>1. PICK t \in Txs : /\ TxOrder[t] = workers[w].order
                           /\ chain'[t] = [status |-> "pending", nonce |-> t]
                           /\ workers'[w].pc = "broadcasted" /\ workers'[w].tx = t
      BY <2>2, ExecuteRows, Zenon
    <3>2. OutFor(workers[w].tx, workers[w].order)'
      BY <3>1, ExecuteRows, SMTT(60) DEF OutFor, Out
    <3> QED BY <1>1, <3>1, <3>2, ExecuteRows, Zenon DEF WorkerOurs, Sent
  <2> QED BY <2>1, <2>2, Zenon
<1>4. NoncesOurs'
  <2>1. CASE chain' = chain
    BY <2>1, SameChain, Zenon
  <2>2. CASE chain' # chain
    <3>1. PICK t \in Txs : ~Out(t) /\ ChainBut(t) /\ chain'[t] = [status |-> "pending", nonce |-> t]
      BY <2>2, ExecuteRows, Zenon
    <3>2. OutFor(t, TxOrder[t])'
      BY <3>1, SMTT(60) DEF OutFor, Out
    <3> QED BY <1>2, <3>1, <3>2, NewTransaction, Zenon
  <2> QED BY <2>1, <2>2, Zenon
<1> QED BY <1>2, <1>3, <1>4, ExecuteRows, OtherWorkers, SameRows, SameNotice, Zenon DEF Ours

\* Confirm keeps Ours.
LEMMA ConfirmOurs ==
    ASSUME Ours, NEW w \in Workers, Confirm(w)
    PROVE  Ours'
<1>0. PICK o \in Orders, t \in Txs : o = workers[w].order /\ t = workers[w].tx
  BY ConfirmRows, Zenon DEF Ours, WorkersOurs, WorkerOurs, OutFor
<1>1. WorkerOurs(w) /\ RowOurs(o)
  BY Zenon DEF Ours, WorkersOurs, RowsOurs
<1>2. OutFor(t, o) /\ freezes[o].status # "NONE"
  BY <1>0, <1>1, ConfirmRows, Zenon DEF WorkerOurs
<1>3. Persist
  BY ConfirmRows, Zenon DEF Persist, RowsBut, FreezeGoes, JobGoes, Broadcasted, Out
<1>4. /\ workers'[w].order = o /\ workers'[w].tx = t /\ attempts' = attempts
      /\ \/ freezes' = freezes /\ jobs' = jobs
         \/ FreezeGoes(o, "BROADCASTED", t, freezes[o].confs) /\ JobGoes(o, "BROADCASTED")
  BY <1>0, ConfirmRows, Zenon
<1>5. OutFor(t, o)'
  BY <1>2, <1>3, OutStays, Zenon
<1>6. RowOurs(o)'
  <2>1. ASSUME NEW u, OutFor(u, o)
        PROVE  OutFor(u, o)'
    BY <1>3, <2>1, OutStays, Zenon
  <2>2. CASE freezes' = freezes /\ jobs' = jobs
    <3>1. /\ jobs'[o] = jobs[o] /\ freezes'[o] = freezes[o] /\ attempts'[o] = attempts[o]
      BY <1>4, <2>2, Zenon
    <3> QED BY <1>1, <2>1, <3>1, Zenon DEF RowOurs
  <2>3. CASE FreezeGoes(o, "BROADCASTED", t, freezes[o].confs) /\ JobGoes(o, "BROADCASTED")
    <3>1. /\ freezes'[o].status = "BROADCASTED" /\ freezes'[o].tx = t
          /\ jobs'[o].status = "BROADCASTED" /\ jobs'[o].payload = jobs[o].payload
          /\ attempts'[o] = attempts[o]
      BY <1>4, <2>3, Zenon DEF FreezeGoes, JobGoes
    <3> QED BY <1>1, <1>5, <2>1, <3>1, Zenon DEF RowOurs
  <2> QED BY <1>4, <2>2, <2>3, Zenon
<1>7. jobs'[o].status # "NONE" /\ freezes'[o].status # "NONE"
  BY <1>1, <1>2, <1>3, Zenon DEF Persist, RowOurs
<1>8. workers'[w].pc = "confirmed" => Broadcasted(o)'
  BY <1>0, ConfirmRows, Zenon DEF Broadcasted, FreezeGoes
<1>9. WorkerOurs(w)'
  BY <1>4, <1>5, <1>7, <1>8, ConfirmRows, Zenon DEF WorkerOurs, Sent
<1> QED BY <1>0, <1>3, <1>6, <1>9, ConfirmRows, OtherWorkers, OtherRows, SameNotice, SameChain,
           ZenonT(60)
           DEF Ours

\* MarkDone keeps Ours.
LEMMA MarkDoneOurs ==
    ASSUME Ours, NEW w \in Workers, MarkDone(w)
    PROVE  Ours'
<1>0. PICK o \in Orders, t \in Txs : o = workers[w].order /\ t = workers[w].tx
  BY MarkDoneRows, Zenon
<1>1. RowOurs(o)
  BY Zenon DEF Ours, RowsOurs
<1>2. OutFor(t, o) /\ jobs[o].status # "NONE"
  BY <1>0, MarkDoneRows, Zenon DEF Ours, WorkersOurs, WorkerOurs, Sent
<1>3. Persist
  BY <1>0, MarkDoneRows, Zenon DEF Persist, RowsBut, Broadcasted, Out
<1>4. RowOurs(o)'
  <2>1. OutFor(t, o)'
    BY <1>2, <1>3, OutStays, Zenon
  <2>2. /\ jobs'[o].status = "BROADCASTED" /\ jobs'[o].payload = t /\ freezes' = freezes
        /\ attempts'[o][t] = "BROADCASTED"
        /\ \A u \in Txs \ {t} : attempts'[o][u] = attempts[o][u]
    BY <1>0, MarkDoneRows, Zenon
  <2> QED BY <1>1, <1>2, <1>3, <2>1, <2>2, OutStays, ZenonT(60) DEF RowOurs
<1>5. WorkerOurs(w)'
  BY MarkDoneRows, Zenon DEF WorkerOurs, Sent
<1> QED BY <1>0, <1>3, <1>4, <1>5, MarkDoneRows, OtherWorkers, OtherRows, SameNotice, SameChain,
           ZenonT(60)
           DEF Ours

\* Reschedule, MarkFailed and ResetBumped keep Ours.
LEMMA EndOurs ==
    ASSUME Ours, NEW w \in Workers, Reschedule(w) \/ MarkFailed(w) \/ ResetBumped(w)
    PROVE  Ours'
<1>0. PICK o \in Orders : o = workers[w].order
  BY EndRows, Zenon
<1>1. RowOurs(o)
  BY Zenon DEF Ours, RowsOurs
<1>2. jobs[o].status # "NONE"
  BY <1>0, EndRows, Zenon DEF Ours, WorkersOurs, WorkerOurs
<1>3. jobs'[o].status # "NONE" /\ jobs'[o].payload = jobs[o].payload
  BY <1>0, EndRows, Zenon DEF JobGoes
<1>4. Persist
  BY <1>0, <1>3, EndRows, Zenon DEF Persist, RowsBut, Broadcasted, Out
<1>5. RowOurs(o)'
  BY <1>1, <1>2, <1>3, <1>4, OutStays, EndRows, Zenon DEF RowOurs
<1>6. WorkerOurs(w)'
  BY EndRows, Zenon DEF WorkerOurs, Sent
<1> QED BY <1>0, <1>4, <1>5, <1>6, EndRows, OtherWorkers, OtherRows, SameNotice, SameChain, Zenon
           DEF Ours

\* ReleaseQueued keeps Ours.
LEMMA ReleaseOurs ==
    ASSUME Ours, NEW w \in Workers, ReleaseQueued(w)
    PROVE  Ours'
<1> DEFINE o == workers[w].order
<1>1. WorkerOurs(w) /\ o \in Orders /\ RowOurs(o)
  BY ReleaseRows, Zenon DEF Ours, WorkersOurs, RowsOurs
<1>2. jobs[o].status # "NONE" /\ freezes[o].status # "NONE"
  BY <1>1, ReleaseRows, Zenon DEF WorkerOurs
<1>3. Persist
  BY ReleaseRows, Zenon DEF Persist, RowsBut, FreezeGoes, JobGoes, Broadcasted, Out
<1>4. RowOurs(o)'
  BY <1>1, <1>2, <1>3, OutStays, ReleaseRows, ZenonT(60) DEF RowOurs, FreezeGoes, JobGoes
<1>5. jobs'[o].status # "NONE" /\ freezes'[o].status # "NONE"
  BY <1>1, <1>2, <1>3, Zenon DEF Persist
<1>6. WorkerOurs(w)'
  BY <1>1, <1>5, ReleaseRows, Zenon DEF WorkerOurs, Sent
<1> QED BY <1>1, <1>3, <1>4, <1>6, ReleaseRows, OtherWorkers, OtherRows, SameNotice, SameChain,
           Zenon
           DEF Ours

\* ClaimStale keeps Ours.
LEMMA ClaimStaleOurs ==
    ASSUME Ours, NEW w \in Workers, NEW o \in Orders, ClaimStale(w, o)
    PROVE  Ours'
<1>1. RowOurs(o)
  BY Zenon DEF Ours, RowsOurs
<1>2. Persist
  BY ClaimStaleRows, ZenonT(60) DEF Persist, RowsBut, Broadcasted, Out
<1>3. RowOurs(o)'
  BY <1>1, <1>2, OutStays, ClaimStaleRows, SMTT(60) DEF RowOurs
<1>4. OutFor(jobs[o].payload, o)
  BY <1>1, ClaimStaleRows, WithdrawAssumption, ZenonT(60) DEF RowOurs
<1>5. OutFor(workers[w].tx, workers[w].order)'
  BY <1>2, <1>4, OutStays, ClaimStaleRows, ZenonT(60)
<1>6. Broadcasted(workers[w].order)'
  BY ClaimStaleRows, Zenon DEF Broadcasted
<1>7. WorkerOurs(w)'
  BY <1>5, <1>6, ClaimStaleRows, Zenon DEF WorkerOurs, Broadcasted
<1> QED BY <1>2, <1>3, <1>7, ClaimStaleRows, OtherWorkers, OtherRows, SameNotice, SameChain, Zenon
           DEF Ours

\* SpeedUp keeps Ours: the replacement's nonce is one of its order.
LEMMA SpeedUpOurs ==
    ASSUME Ours, NEW w \in Workers, SpeedUp(w)
    PROVE  Ours'
<1>1. WorkerOurs(w) /\ workers[w].pc = "bump"
  BY SpeedUpRows, Zenon DEF Ours, WorkersOurs
<1>2. /\ OutFor(workers[w].tx, workers[w].order) /\ Broadcasted(workers[w].order)
      /\ workers[w].order \in Orders
  BY <1>1, Zenon DEF WorkerOurs, Sent
<1>3. Persist
  BY SpeedUpRows, Zenon DEF Persist, Broadcasted, Out, ChainBut
<1>4. OutFor(chain[workers[w].tx].nonce, workers[w].order)
  BY <1>2, Zenon DEF Ours, NoncesOurs, OutFor
<1>5. CASE chain' = chain
  <2>1. workers'[w].pc = "unbumped" /\ workers'[w].tx = workers[w].tx
    <3>1. \A t \in Txs : ~Out(t) /\ chain'[t] = [status |-> "pending", nonce |-> chain[workers[w].tx].nonce]
                        => chain' # chain
      BY DEF Out
    <3> QED BY <1>5, <3>1, SpeedUpRows, Zenon
  <2>2. OutFor(workers[w].tx, workers[w].order)'
    BY <1>2, <1>3, <2>1, OutStays, SpeedUpRows, Zenon
  <2>3. WorkerOurs(w)'
    BY <1>1, <1>2, <2>1, <2>2, SpeedUpRows, Zenon DEF WorkerOurs, Broadcasted, Sent
  <2> QED BY <1>3, <1>5, <2>3, SpeedUpRows, OtherWorkers, SameRows, SameNotice, SameChain, Zenon
             DEF Ours
<1>6. CASE chain' # chain
  <2>1. PICK t \in Txs :
          /\ TxOrder[t] = workers[w].order /\ ~Out(t) /\ ChainBut(t)
          /\ chain'[t] = [status |-> "pending", nonce |-> chain[workers[w].tx].nonce]
          /\ \/ workers'[w].pc = "replaced" /\ workers'[w].tx = t
             \/ workers'[w].pc = "unbumped" /\ workers'[w].tx = workers[w].tx
    BY <1>6, SpeedUpRows, Zenon
  <2>2. PICK n : n = chain[workers[w].tx].nonce
    BY Zenon
  <2>3. OutFor(n, TxOrder[t])'
    BY <1>3, <1>4, <2>1, <2>2, OutStays, Zenon
  <2>4. NoncesOurs'
    BY <1>3, <2>1, <2>2, <2>3, NewTransaction, ZenonT(60)
  <2>5. OutFor(t, workers[w].order)'
    BY <2>1, SpeedUpRows DEF OutFor, Out
  <2>6. OutFor(workers[w].tx, workers[w].order)'
    BY <1>2, <1>3, <2>1, <2>5, OutStays, SpeedUpRows, Zenon
  <2>7. WorkerOurs(w)'
    BY <1>1, <1>2, <2>1, <2>6, SpeedUpRows, Zenon DEF WorkerOurs, Broadcasted, Sent
  <2> QED BY <1>3, <2>4, <2>7, SpeedUpRows, OtherWorkers, SameRows, SameNotice, Zenon DEF Ours
<1> QED BY <1>5, <1>6, Zenon

\* Replace keeps Ours.
LEMMA ReplaceOurs ==
    ASSUME Ours, NEW w \in Workers, Replace(w)
    PROVE  Ours'
<1>0. PICK o \in Orders, t \in Txs : o = workers[w].order /\ t = workers[w].tx
  BY ReplaceRows, Zenon
<1>1. RowOurs(o)
  BY Zenon DEF Ours, RowsOurs
<1>2. OutFor(t, o) /\ jobs[o].status # "NONE"
  BY <1>0, ReplaceRows, ZenonT(60) DEF Ours, WorkersOurs, WorkerOurs, Sent
<1>3. /\ jobs'[o].status = "BROADCASTED" /\ jobs'[o].payload = t
      /\ freezes'[o].status = freezes[o].status
      /\ freezes[o].status = "BROADCASTED" => freezes'[o].tx = t
      /\ attempts'[o][t] = "BROADCASTED"
      /\ \A u \in Txs \ {t} : attempts'[o][u] # "NONE" => attempts[o][u] # "NONE"
  BY <1>0, ReplaceRows, Zenon
<1>4. Persist
  BY <1>0, <1>3, ReplaceRows, SMTT(60) DEF Persist, RowsBut, Broadcasted, Out
<1>5. OutFor(t, o)'
  BY <1>2, <1>4, OutStays, Zenon
<1>6. RowOurs(o)'
  BY <1>1, <1>2, <1>3, <1>4, <1>5, OutStays, Zenon DEF RowOurs
<1>7. WorkerOurs(w)'
  BY ReplaceRows, Zenon DEF WorkerOurs, Sent
<1> QED BY <1>0, <1>4, <1>6, <1>7, ReplaceRows, OtherWorkers, OtherRows, SameNotice, SameChain,
           ZenonT(60)
           DEF Ours

\* A fault keeps Ours.
LEMMA FaultOurs ==
    ASSUME Ours, NEW w \in Workers, Crash(w) \/ LedgerError(w)
    PROVE  Ours'
<1>1. WorkerOurs(w)
  BY Zenon DEF Ours, WorkersOurs
<1>2. Persist
  BY FaultRows, Zenon DEF Persist, Broadcasted, Out
<1>3. WorkerOurs(w)'
  BY <1>1, FaultRows, Zenon DEF WorkerOurs, Sent
<1> QED BY <1>2, <1>3, FaultRows, OtherWorkers, SameRows, SameNotice, SameChain, Zenon DEF Ours

\* A chain step keeps Ours: a nonce is mined once.
LEMMA ChainOurs ==
    ASSUME Ours, NEW t \in Txs, ChainStep(t)
    PROVE  Ours'
<1>1. Persist
  BY ChainRows, Zenon DEF Persist, Broadcasted, Out, ChainBut
<1>2. /\ \A u \in Txs : chain'[u].nonce = chain[u].nonce
      /\ \A u \in Txs \ {t} : chain'[u].status = chain[u].status
  BY ChainRows, Zenon DEF ChainBut
<1>3. \A u \in Txs : Out(u) <=> Out(u)'
  BY <1>2, ChainRows, Zenon DEF Out
<1>4. \A u \in Txs : Out(u)' => OutFor(chain[u].nonce, TxOrder[u])'
  <2> SUFFICES ASSUME NEW u \in Txs, Out(u)' PROVE OutFor(chain[u].nonce, TxOrder[u])'
    BY Zenon
  <2>1. OutFor(chain[u].nonce, TxOrder[u])
    BY <1>3, Zenon DEF Ours, NoncesOurs
  <2> QED BY <1>1, <1>2, <2>1, OutStays, Zenon
<1>5. \A u \in Txs : ~Out(u)' => chain'[u].nonce = NoTx
  BY <1>2, <1>3, Zenon DEF Ours, NoncesOurs
<1>6. \A u, v \in Txs :
         /\ chain'[u].status \in {"included", "final", "reverted"}
         /\ chain'[v].status \in {"included", "final", "reverted"}
         /\ chain'[u].nonce = chain'[v].nonce
         => u = v
  <2>1. CASE chain[t].status = "pending" /\ ~NonceUsed(t)
    <3>1. \A u \in Txs : chain[u].nonce = chain[t].nonce =>
                        chain[u].status \notin {"included", "final", "reverted"}
      BY <2>1, Zenon DEF NonceUsed, SameNonce
    <3> QED BY <1>2, <3>1, SMTT(60) DEF Ours, NoncesOurs
  <2>2. CASE chain[t].status \in {"included", "final", "reverted"} \/ chain'[t].status \in {"pending", "dropped"}
    BY <1>2, <2>2, SMTT(60) DEF Ours, NoncesOurs
  <2> QED BY <2>1, <2>2, ChainRows, Zenon
<1>7. NoncesOurs'
  BY <1>4, <1>5, <1>6, Zenon DEF NoncesOurs
<1> QED BY <1>1, <1>7, ChainRows, SameWorkers, SameRows, SameNotice, Zenon DEF Ours

\* The scanner's own steps keep Ours.
LEMMA NoticesOurs ==
    ASSUME Ours,
           \/ \E o \in Orders, t \in Txs : List(o, t)
           \/ Look
           \/ NotifyLost
    PROVE  Ours'
<1>1. Persist
  BY NoticeRows, Zenon DEF Persist, Broadcasted, Out
<1>2. NoticeOurs'
  <2>1. CASE notice'.order = NoOrder /\ notice'.status = "NONE"
    BY <2>1, Zenon DEF NoticeOurs
  <2>2. CASE /\ notice'.order \in Orders /\ notice'.tx \in Txs
             /\ freezes[notice'.order].status = "BROADCASTED"
             /\ attempts[notice'.order][notice'.tx] # "NONE"
    <3>1. OutFor(notice'.tx, notice'.order) /\ Broadcasted(notice'.order)
      BY <2>2, Zenon DEF Ours, RowsOurs, RowOurs, Broadcasted
    <3>2. OutFor(notice.tx, notice.order)' /\ Broadcasted(notice.order)'
      BY <3>1, NoticeRows, Zenon DEF OutFor, Out, Broadcasted
    <3> QED BY <2>2, <3>2, DispatchAssumption, Zenon DEF NoticeOurs
  <2>3. CASE /\ notice'.order = notice.order /\ notice'.tx = notice.tx
             /\ notice.order \in Orders
    <3>1. OutFor(notice.tx, notice.order) /\ Broadcasted(notice.order) /\ notice.order # NoOrder
      BY <2>3, DispatchAssumption, Zenon DEF Ours, NoticeOurs
    <3>2. OutFor(notice.tx, notice.order)' /\ Broadcasted(notice.order)'
      BY <2>3, <3>1, NoticeRows, Zenon DEF OutFor, Out, Broadcasted
    <3> QED BY <2>3, <3>1, <3>2, Zenon DEF NoticeOurs
  <2> QED BY <2>1, <2>2, <2>3, NoticeRows, Zenon
<1> QED BY <1>1, <1>2, NoticeRows, SameWorkers, SameRows, SameChain, Zenon DEF Ours

\* A delivered notice keeps Ours.
LEMMA NotifyOurs ==
    ASSUME Ours, Notify
    PROVE  Ours'
<1>0. PICK o \in Orders, t \in Txs, c \in Int : o = notice.order /\ t = notice.tx /\ c = notice.confs
  BY NotifyRows, Zenon DEF Ours, Typed, NoticeRow
<1>1. RowOurs(o) /\ OutFor(t, o) /\ Broadcasted(o) /\ Delivered(o, t, c)
  BY <1>0, NotifyRows, DispatchAssumption, Zenon DEF Ours, RowsOurs, NoticeOurs
<1>2. /\ freezes'[o].status \notin {"NONE", "FROZEN"}
      /\ freezes'[o].status = "BROADCASTED" =>
           freezes'[o].tx = t \/ freezes' = freezes
      /\ jobs'[o].status # "NONE"
      /\ jobs'[o].payload = jobs[o].payload
      /\ \A u \in Txs : attempts'[o][u] # "NONE" => attempts[o][u] # "NONE"
  BY <1>1, Zenon DEF Delivered, FreezeGoes, JobGoes, AttemptGoes, Broadcasted, RowOurs
<1>3. Persist
  BY <1>0, <1>2, NotifyRows, Zenon DEF Persist, RowsBut, Broadcasted, Out
<1>4. RowOurs(o)'
  BY <1>1, <1>2, <1>3, OutStays, Zenon DEF RowOurs
<1>5. NoticeOurs'
  BY NotifyRows DEF NoticeOurs, NoNotice
<1> QED BY <1>0, <1>3, <1>4, <1>5, NotifyRows, SameWorkers, OtherRows, SameChain, ZenonT(60)
           DEF Ours

\* A request that is looked up keeps Ours.
LEMMA CreateLookupOurs ==
    ASSUME Ours, NEW o \in Orders, CreateLookup(o)
    PROVE  Ours'
<1>1. Persist
  BY CreateLookupRows, Zenon DEF Persist, Broadcasted, Out
<1> QED BY <1>1, CreateLookupRows, SameWorkers, SameRows, SameNotice, SameChain, Zenon DEF Ours

\* Initially there is nothing.
LEMMA OursInit == DispatchInit => Ours
<1> SUFFICES ASSUME DispatchInit PROVE Ours
  BY Zenon
<1> USE DEF DispatchInit, WithdrawInit
<1>1. freezes \in [Orders -> FreezeRow]
  BY Zenon DEF FreezeRow, FreezeStatus
<1>2. jobs \in [Orders -> JobRow]
  BY Zenon DEF JobRow, JobStatus
<1>3. attempts \in [Orders -> [Txs -> AttemptStatus]]
  BY Zenon DEF AttemptStatus
<1>4. workers \in [Workers -> WorkerRow] /\ chain \in [Txs -> ChainRow] /\ notice \in NoticeRow
  BY SMTT(60) DEF NoWork, WorkerRow, WorkerPC, ChainRow, ChainStatus, NoNotice, NoticeRow
<1>5. Typed
  BY <1>1, <1>2, <1>3, <1>4, Zenon DEF Typed, WithdrawTypeOK
<1>6. WorkersOurs
  BY Zenon DEF WorkersOurs, WorkerOurs, NoWork, Sent
<1>7. RowsOurs
  BY Zenon DEF RowsOurs, RowOurs
<1>8. NoticeOurs /\ NoncesOurs
  BY Zenon DEF NoticeOurs, NoNotice, NoncesOurs, Out
<1> QED BY <1>5, <1>6, <1>7, <1>8, Zenon DEF Ours

\* Every step keeps Ours.
LEMMA OursStep ==
    ASSUME Ours, [DispatchNext]_dvars
    PROVE  Ours'
<1>1. CASE UNCHANGED dvars
  <2>1. /\ UNCHANGED <<freezes, jobs, attempts>> /\ UNCHANGED <<setup, creating, requests, faults>>
        /\ workers' = workers /\ chain' = chain /\ notice' = notice
    BY <1>1, Zenon DEF dvars
  <2>2. Persist
    BY <2>1, Zenon DEF Persist, Out, Broadcasted
  <2>3. Typed'
    BY <2>1, Zenon DEF Ours, Typed, WithdrawTypeOK
  <2> QED BY <2>1, <2>2, <2>3, SameWorkers, SameRows, SameNotice, SameChain, Zenon DEF Ours
<1>2. ASSUME NEW o \in Orders, Create(o) PROVE Ours'
  BY <1>2, CreateLookupOurs, CreateQueueOurs, Zenon DEF Create
<1>3. ASSUME NEW w \in Workers, NEW o \in Orders, Claim(w, o) \/ ClaimStale(w, o) PROVE Ours'
  BY <1>3, ClaimOurs, ClaimStaleOurs, Zenon
<1>4. ASSUME NEW w \in Workers, Work(w) \/ Crash(w) \/ LedgerError(w) PROVE Ours'
  BY <1>4, ExecuteOurs, ConfirmOurs, MarkDoneOurs, EndOurs, ReleaseOurs, SpeedUpOurs, ReplaceOurs,
     FaultOurs, ZenonT(60)
     DEF Work
<1>5. ASSUME NEW t \in Txs, ChainStep(t) PROVE Ours'
  BY <1>5, ChainOurs, Zenon
<1>6. CASE (\E o \in Orders, t \in Txs : List(o, t)) \/ Look \/ NotifyLost
  BY <1>6, NoticesOurs, Zenon
<1>7. CASE Notify
  BY <1>7, NotifyOurs, Zenon
<1> QED BY <1>1, <1>2, <1>3, <1>4, <1>5, <1>6, <1>7, Zenon DEF DispatchNext

-----------------------------------------------------------------------------
(***************************************************************************)
(* The jobs table: who is counted, leased and claimed.                     *)
(***************************************************************************)

Claims == Counted /\ Leased /\ OneJobPerSender

\* A step that claims nothing.
ClaimsNothing ==
    /\ UNCHANGED <<creating, requests>>
    /\ \A o \in Orders : /\ jobs'[o].status = "PROCESSING" => jobs'[o] = jobs[o]
                         /\ jobs'[o].status = "NONE" <=> jobs[o].status = "NONE"

\* A step that claims nothing keeps the claims.
LEMMA ClaimsStay ==
    ASSUME Claims, ClaimsNothing
    PROVE  Claims'
<1>1. Counted'
  BY Zenon DEF Claims, ClaimsNothing, Counted
<1>2. Leased'
  BY Zenon DEF Claims, ClaimsNothing, Leased
<1>3. OneJobPerSender'
  BY ZenonT(60) DEF Claims, ClaimsNothing, OneJobPerSender
<1> QED BY <1>1, <1>2, <1>3, Zenon DEF Claims

\* CreateLookup keeps the claims: a request that creates is counted.
LEMMA CreateLookupClaims ==
    ASSUME Ours, Claims, NEW o \in Orders, CreateLookup(o)
    PROVE  Claims'
<1>1. /\ requests'[o] = requests[o] + 1 /\ jobs' = jobs
      /\ creating'[o] = creating[o] + (IF freezes[o].status = "NONE" THEN 1 ELSE 0)
      /\ \A p \in Orders \ {o} : requests'[p] = requests[p] /\ creating'[p] = creating[p]
  BY CreateLookupRows, Zenon
<1>2. \A p \in Orders : requests[p] \in Nat /\ creating[p] \in Nat
  BY Zenon DEF Ours, Typed
<1>3. jobs[o].status = "NONE" <=> freezes[o].status = "NONE"
  BY Zenon DEF Ours, RowsOurs, RowOurs
<1>4. Counted'
  BY <1>1, <1>2, <1>3 DEF Claims, Counted
<1>5. Leased'
  BY <1>1, <1>2 DEF Claims, Leased
<1>6. OneJobPerSender'
  BY <1>1, Zenon DEF Claims, OneJobPerSender
<1> QED BY <1>4, <1>5, <1>6, Zenon DEF Claims

\* CreateQueue keeps the claims: the lease it drops was that of an order with
\* a second request.
LEMMA CreateQueueClaims ==
    ASSUME Ours, Claims, NEW o \in Orders, CreateQueue(o)
    PROVE  Claims'
<1>1. /\ creating[o] > 0 /\ creating'[o] = creating[o] - 1 /\ requests' = requests
      /\ \A p \in Orders \ {o} : creating'[p] = creating[p] /\ jobs'[p] = jobs[p]
      /\ jobs' = jobs \/ jobs'[o] = Requeued(jobs[o])
  BY CreateQueueRows, Zenon DEF RowsBut
<1>2. \A p \in Orders : requests[p] \in Nat /\ creating[p] \in Nat
  BY Zenon DEF Ours, Typed
<1>3. jobs[o] \in JobRow
  BY Zenon DEF Ours, Typed, WithdrawTypeOK
<1>4. /\ Requeued(jobs[o]).status # "NONE"
      /\ Requeued(jobs[o]).status = "PROCESSING" => jobs[o].status = "PROCESSING"
  BY <1>3, Zenon DEF Requeued, JobRow
<1>5. \A p \in Orders : jobs'[p].status = "PROCESSING" => jobs[p].status = "PROCESSING"
  BY <1>1, <1>4, Zenon
<1>6. Counted'
  BY <1>1, <1>2, <1>4, SMTT(60) DEF Claims, Counted
<1>7. Leased'
  <2>1. jobs[o].status = "PROCESSING" => requests[o] > 1
    BY <1>1, <1>2 DEF Claims, Counted
  <2> QED BY <1>1, <1>2, <1>5, <2>1, SMTT(60) DEF Claims, Leased
<1>8. OneJobPerSender'
  BY <1>5, Zenon DEF Claims, OneJobPerSender
<1> QED BY <1>6, <1>7, <1>8, Zenon DEF Claims

\* Claim leases the only job of its sender that is PROCESSING.
LEMMA ClaimClaims ==
    ASSUME Ours, Claims, NEW w \in Workers, NEW o \in Orders, Claim(w, o)
    PROVE  Claims'
<1>1. /\ jobs[o].status # "NONE" /\ jobs'[o].status = "PROCESSING" /\ jobs'[o].leased
      /\ \A p \in Orders \ {o} : jobs'[p] = jobs[p]
      /\ \A p \in Orders \ {o} : Sender[p] = Sender[o] => jobs[p].status # "PROCESSING"
      /\ UNCHANGED <<creating, requests>>
  BY ClaimRows DEF RowsBut
<1>2. Counted'
  BY <1>1, Zenon DEF Claims, Counted
<1>3. Leased'
  BY <1>1, Zenon DEF Claims, Leased
<1>4. OneJobPerSender'
  BY <1>1, Zenon DEF Claims, OneJobPerSender
<1> QED BY <1>2, <1>3, <1>4, Zenon DEF Claims

\* Every other step of a worker, the chain or the scanner claims nothing.
LEMMA WorkersClaims ==
    ASSUME Ours, NEW w \in Workers, Work(w) \/ Crash(w) \/ LedgerError(w)
    PROVE  ClaimsNothing
<1>1. WorkerOurs(w)
  BY Zenon DEF Ours, WorkersOurs
<1>2. CASE Execute(w)
  BY <1>2, ExecuteRows, Zenon DEF ClaimsNothing
<1>3. CASE Confirm(w)
  BY <1>1, <1>3, ConfirmRows, ZenonT(60) DEF ClaimsNothing, RowsBut, JobGoes, WorkerOurs
<1>4. CASE MarkDone(w)
  BY <1>1, <1>4, MarkDoneRows, ZenonT(60) DEF ClaimsNothing, RowsBut, WorkerOurs
<1>5. CASE Reschedule(w) \/ MarkFailed(w) \/ ResetBumped(w)
  BY <1>1, <1>5, EndRows, Zenon DEF ClaimsNothing, RowsBut, JobGoes, WorkerOurs
<1>6. CASE ReleaseQueued(w)
  BY <1>1, <1>6, ReleaseRows, ZenonT(60) DEF ClaimsNothing, RowsBut, JobGoes, WorkerOurs
<1>7. CASE SpeedUp(w)
  BY <1>7, SpeedUpRows, Zenon DEF ClaimsNothing
<1>8. CASE Replace(w)
  BY <1>1, <1>8, ReplaceRows, SMTT(60) DEF ClaimsNothing, RowsBut, WorkerOurs
<1>9. CASE Crash(w) \/ LedgerError(w)
  BY <1>9, FaultRows, Zenon DEF ClaimsNothing
<1> QED BY <1>2, <1>3, <1>4, <1>5, <1>6, <1>7, <1>8, <1>9, ZenonT(60) DEF Work

\* Every step keeps the claims.
LEMMA ClaimsStep ==
    ASSUME Ours, Claims, [DispatchNext]_dvars
    PROVE  Claims'
<1>1. CASE UNCHANGED dvars
  BY <1>1, ClaimsStay, Zenon DEF dvars, ClaimsNothing
<1>2. ASSUME NEW o \in Orders, Create(o) PROVE Claims'
  BY <1>2, CreateLookupClaims, CreateQueueClaims, Zenon DEF Create
<1>3. ASSUME NEW w \in Workers, NEW o \in Orders, Claim(w, o) PROVE Claims'
  BY <1>3, ClaimClaims, Zenon
<1>4. ASSUME NEW w \in Workers, NEW o \in Orders, ClaimStale(w, o) PROVE Claims'
  <2>1. RowOurs(o)
    BY Zenon DEF Ours, RowsOurs
  <2>2. ClaimsNothing
    BY <1>4, <2>1, ClaimStaleRows, SMTT(60) DEF ClaimsNothing, RowsBut, RowOurs
  <2> QED BY <2>2, ClaimsStay, Zenon
<1>5. ASSUME NEW w \in Workers, Work(w) \/ Crash(w) \/ LedgerError(w) PROVE Claims'
  BY <1>5, WorkersClaims, ClaimsStay, Zenon
<1>6. ASSUME NEW t \in Txs, ChainStep(t) PROVE Claims'
  BY <1>6, ChainRows, ClaimsStay, Zenon DEF ClaimsNothing
<1>7. CASE (\E o \in Orders, t \in Txs : List(o, t)) \/ Look \/ NotifyLost
  BY <1>7, NoticeRows, ClaimsStay, Zenon DEF ClaimsNothing
<1>8. CASE Notify
  <2>1. PICK o \in Orders, t \in Txs, c \in Int : o = notice.order /\ t = notice.tx /\ c = notice.confs
    BY <1>8, NotifyRows, Zenon DEF Ours, Typed, NoticeRow
  <2>2. RowOurs(o) /\ Broadcasted(o)
    BY <2>1, DispatchAssumption, Zenon DEF Ours, RowsOurs, NoticeOurs
  <2>3. ClaimsNothing
    BY <1>8, <2>1, <2>2, NotifyRows, Zenon
       DEF ClaimsNothing, RowsBut, Delivered, JobGoes, RowOurs, Broadcasted
  <2> QED BY <2>3, ClaimsStay, Zenon
<1> QED BY <1>1, <1>2, <1>3, <1>4, <1>5, <1>6, <1>7, <1>8, ZenonT(60) DEF DispatchNext

-----------------------------------------------------------------------------
(***************************************************************************)
(* Turns: while workers do not outlive their leases, one worker at a time  *)
(* is at an order's job.                                                   *)
(***************************************************************************)

\* A worker at another order, or not at a job, keeps its turn.
LEMMA TurnElsewhere ==
    ASSUME Ours, NEW o \in Orders, RowsBut(o), NEW v \in Workers, workers'[v] = workers[v],
           TurnOf(v), workers[v].pc \in Queueing => workers[v].order # o
    PROVE  TurnOf(v)'
<1>1. CASE workers[v].pc \notin Queueing
  BY <1>1, Zenon DEF TurnOf, Queueing
<1>2. CASE workers[v].pc \in Queueing
  <2>1. workers[v].order \in Orders
    BY <1>2, Zenon DEF Ours, WorkersOurs, WorkerOurs, Queueing
  <2> QED BY <1>2, <2>1, ZenonT(60) DEF TurnOf, RowsBut, Queueing
<1> QED BY <1>1, <1>2, Zenon

\* One worker moves: it was at the job before, and the others keep their turns.
LEMMA TurnsMove ==
    ASSUME Turns, setup' = setup, NEW w \in Workers, WorkersBut(w),
           ~setup.slow => /\ TurnOf(w)'
                          /\ \A v \in Workers \ {w} : TurnOf(v)'
                          /\ \A v \in Workers \ {w} :
                               workers[v].pc \in Queueing /\ workers'[w].pc \in Queueing
                               => workers[v].order # workers'[w].order
    PROVE  Turns'
BY Zenon DEF Turns, Alone, WorkersBut

\* No worker moves.
LEMMA TurnsStay ==
    ASSUME Turns, setup' = setup, workers' = workers,
           ~setup.slow => \A v \in Workers : TurnOf(v)'
    PROVE  Turns'
BY Zenon DEF Turns, Alone

\* Nothing that turns are about changes.
LEMMA TurnsSame ==
    ASSUME Turns, UNCHANGED <<setup, workers, freezes, jobs>>
    PROVE  Turns'
BY Zenon DEF Turns, Alone, TurnOf

\* CreateQueue keeps the turns: a new order has no worker.
LEMMA CreateQueueTurns ==
    ASSUME Ours, Turns, NEW o \in Orders, CreateQueue(o)
    PROVE  Turns'
<1>1. /\ RowsBut(o) /\ setup' = setup /\ workers' = workers
      /\ \/ freezes' = freezes /\ jobs' = jobs
         \/ freezes' = freezes /\ jobs'[o] = Requeued(jobs[o])
         \/ freezes[o].status = "NONE"
  BY CreateQueueRows, Zenon
<1>2. jobs[o].status = "PROCESSING" => Requeued(jobs[o]).status = "PROCESSING"
  BY Zenon DEF Requeued, Ours, Typed, WithdrawTypeOK, JobRow
<1>3. ASSUME ~setup.slow, NEW v \in Workers PROVE TurnOf(v)'
  <2>1. TurnOf(v)
    BY <1>3, Zenon DEF Turns
  <2>2. CASE workers[v].pc \in Queueing => workers[v].order # o
    BY <1>1, <2>1, <2>2, TurnElsewhere, Zenon
  <2>3. CASE workers[v].pc \in Queueing /\ workers[v].order = o
    <3>1. freezes[o].status # "NONE"
      BY <2>3, Zenon DEF Ours, WorkersOurs, WorkerOurs, Queueing
    <3>2. /\ freezes' = freezes
          /\ jobs[o].status = "PROCESSING" => jobs'[o].status = "PROCESSING"
      BY <1>1, <1>2, <3>1, Zenon
    <3> QED BY <1>1, <2>1, <2>3, <3>2, Zenon DEF TurnOf
  <2> QED BY <2>2, <2>3, Zenon
<1> QED BY <1>1, <1>3, TurnsStay, Zenon

\* Claim gives the turn to a worker when no other has it: a job that is
\* claimed again is one that nobody holds.
LEMMA ClaimTurns ==
    ASSUME Ours, Turns, NEW w \in Workers, NEW o \in Orders, Claim(w, o)
    PROVE  Turns'
<1>1. /\ RowsBut(o) /\ WorkersBut(w) /\ setup' = setup
      /\ freezes[o].status = "FROZEN" /\ freezes' = freezes
      /\ jobs[o].status \in {"QUEUED", "PROCESSING"}
      /\ jobs[o].status = "PROCESSING" => LeaseOver(o)
      /\ jobs'[o].status = "PROCESSING"
      /\ workers'[w].pc = "execute" /\ workers'[w].order = o
  BY ClaimRows, Zenon
<1>2. ASSUME ~setup.slow, NEW v \in Workers \ {w}, workers[v].pc \in Queueing
      PROVE  workers[v].order # o
  <2>1. TurnOf(v)
    BY <1>2, Zenon DEF Turns
  <2> QED BY <1>1, <1>2, <2>1, Zenon DEF TurnOf, LeaseOver, Held
<1>3. ASSUME ~setup.slow, NEW v \in Workers \ {w} PROVE TurnOf(v)'
  <2>1. TurnOf(v) /\ workers'[v] = workers[v]
    BY <1>1, <1>3, Zenon DEF Turns, WorkersBut
  <2> QED BY <1>1, <1>2, <1>3, <2>1, TurnElsewhere, Zenon
<1>4. TurnOf(w)'
  BY <1>1, Zenon DEF TurnOf
<1> QED BY <1>1, <1>2, <1>3, <1>4, TurnsMove, Zenon

\* A worker goes on at its job, or leaves it.
LEMMA WorkerTurns ==
    ASSUME Ours, Turns, NEW w \in Workers, setup' = setup, WorkersBut(w),
           NEW o \in Orders, o = workers[w].order, RowsBut(o),
           workers'[w].pc \in Queueing => workers[w].pc \in Queueing /\ workers'[w].order = o,
           workers[w].pc \in Queueing \/ ~(freezes[o].status = "FROZEN" \/ freezes'[o].status = "FROZEN"),
           ~setup.slow => TurnOf(w)'
    PROVE  Turns'
<1>1. ASSUME ~setup.slow, NEW v \in Workers \ {w} PROVE TurnOf(v)'
  <2>1. TurnOf(v) /\ workers'[v] = workers[v] /\ TurnOf(w)
    BY <1>1, Zenon DEF Turns, WorkersBut
  <2>2. CASE workers[v].pc \in Queueing => workers[v].order # o
    BY <2>1, <2>2, TurnElsewhere, Zenon
  <2>3. CASE workers[v].pc \in Queueing /\ workers[v].order = o
    <3>1. workers[w].pc \notin Queueing
      BY <1>1, <2>3, Zenon DEF Turns, Alone
    <3>2. freezes[o].status # "FROZEN" /\ freezes'[o].status # "FROZEN"
      BY <3>1, Zenon
    <3> QED BY <2>1, <2>3, <3>2, Zenon DEF TurnOf
  <2> QED BY <2>2, <2>3, Zenon
<1>2. ASSUME ~setup.slow, NEW v \in Workers \ {w}, workers[v].pc \in Queueing, workers'[w].pc \in Queueing
      PROVE  workers[v].order # workers'[w].order
  BY <1>2, Zenon DEF Turns, Alone
<1> QED BY <1>1, <1>2, TurnsMove, Zenon

\* Every step of a worker keeps the turns.
LEMMA WorkTurns ==
    ASSUME Ours, Turns, NEW w \in Workers, Work(w) \/ Crash(w) \/ LedgerError(w)
    PROVE  Turns'
<1>1. WorkerOurs(w) /\ (~setup.slow => TurnOf(w))
  BY Zenon DEF Ours, WorkersOurs, Turns
<1>2. workers[w].pc # "idle"
  BY Zenon
     DEF Work, Execute, Confirm, MarkDone, Reschedule, ReleaseQueued, MarkFailed, SpeedUp,
         ResetBumped, Replace, Crash, LedgerError, At
<1>3. PICK o \in Orders : o = workers[w].order
  BY <1>1, <1>2, Zenon DEF WorkerOurs
<1>4. CASE Execute(w)
  BY <1>1, <1>3, <1>4, ExecuteRows, WorkerTurns, ZenonT(60) DEF RowsBut, TurnOf, Queueing
<1>5. CASE Confirm(w)
  BY <1>1, <1>3, <1>5, ConfirmRows, WorkerTurns, ZenonT(60) DEF TurnOf, Queueing
<1>6. CASE MarkDone(w)
  BY <1>1, <1>3, <1>6, MarkDoneRows, WorkerTurns, SMTT(60)
     DEF TurnOf, Queueing, WorkerOurs, Sent, Broadcasted
<1>7. CASE Reschedule(w) \/ MarkFailed(w) \/ ResetBumped(w)
  BY <1>1, <1>3, <1>7, EndRows, WorkerTurns, Zenon
     DEF TurnOf, Queueing, WorkerOurs, Sent, Broadcasted
<1>8. CASE ReleaseQueued(w)
  BY <1>1, <1>3, <1>8, ReleaseRows, WorkerTurns, Zenon DEF TurnOf, Queueing, FreezeGoes
<1>9. CASE SpeedUp(w)
  <2>1. /\ setup' = setup /\ WorkersBut(w) /\ freezes' = freezes /\ jobs' = jobs /\ attempts' = attempts
        /\ workers[w].pc = "bump" /\ workers'[w].pc \in {"unbumped", "replaced"}
    BY <1>9, SpeedUpRows, Zenon
  <2>2. freezes[o].status # "FROZEN" /\ workers'[w].pc \notin Queueing
    BY <1>1, <1>3, <2>1, ZenonT(60) DEF WorkerOurs, Sent, Broadcasted, Queueing
  <2> QED BY <1>3, <2>1, <2>2, WorkerTurns, Zenon DEF RowsBut, TurnOf
<1>10. CASE Replace(w)
  BY <1>1, <1>3, <1>10, ReplaceRows, WorkerTurns, SMTT(60)
     DEF TurnOf, Queueing, WorkerOurs, Sent, Broadcasted
<1>11. CASE Crash(w) \/ LedgerError(w)
  <2>1. /\ setup' = setup /\ freezes' = freezes /\ jobs' = jobs /\ WorkersBut(w)
        /\ \/ workers'[w].pc = "idle" /\ workers'[w].order = NoOrder
           \/ /\ workers'[w].order = workers[w].order
              /\ \/ workers[w].pc = "broadcasted" /\ workers'[w].pc = "failed"
                 \/ workers[w].pc = "failed" /\ workers'[w].pc = "released"
    BY <1>11, FaultRows, Zenon
  <2>2. ASSUME ~setup.slow PROVE \A v \in Workers \ {w} : TurnOf(v)'
    BY <2>1, <2>2, ZenonT(60) DEF Turns, TurnOf, WorkersBut
  <2>3. ASSUME ~setup.slow PROVE TurnOf(w)'
    BY <1>1, <2>1, <2>3, Zenon DEF TurnOf, Queueing
  <2>4. ASSUME ~setup.slow, NEW v \in Workers \ {w}, workers[v].pc \in Queueing, workers'[w].pc \in Queueing
        PROVE  workers[v].order # workers'[w].order
    BY <2>1, <2>4, ZenonT(60) DEF Turns, Alone, Queueing
  <2> QED BY <2>1, <2>2, <2>3, <2>4, TurnsMove, Zenon
<1> QED BY <1>4, <1>5, <1>6, <1>7, <1>8, <1>9, <1>10, <1>11, ZenonT(60) DEF Work

\* Every step keeps the turns.
LEMMA TurnsStep ==
    ASSUME Ours, Turns, [DispatchNext]_dvars
    PROVE  Turns'
<1>1. CASE UNCHANGED dvars
  BY <1>1, TurnsSame, Zenon DEF dvars
<1>2. ASSUME NEW o \in Orders, Create(o) PROVE Turns'
  BY <1>2, CreateLookupRows, TurnsSame, CreateQueueTurns, ZenonT(60) DEF Create
<1>3. ASSUME NEW w \in Workers, NEW o \in Orders, Claim(w, o) PROVE Turns'
  BY <1>3, ClaimTurns, Zenon
<1>4. ASSUME NEW w \in Workers, NEW o \in Orders, ClaimStale(w, o) PROVE Turns'
  <2>1. /\ RowsBut(o) /\ WorkersBut(w) /\ setup' = setup /\ workers'[w].pc = "bump"
        /\ freezes' = freezes /\ freezes[o].status = "BROADCASTED"
    BY <1>4, ClaimStaleRows, ZenonT(60)
  <2>2. ASSUME ~setup.slow, NEW v \in Workers \ {w} PROVE TurnOf(v)'
    <3>1. TurnOf(v) /\ workers'[v] = workers[v]
      BY <2>1, <2>2, Zenon DEF Turns, WorkersBut
    <3>2. CASE workers[v].order = o
      BY <2>1, <3>1, <3>2, Zenon DEF TurnOf
    <3>3. CASE workers[v].order # o
      BY <2>1, <3>1, <3>3, TurnElsewhere, Zenon
    <3> QED BY <3>2, <3>3, Zenon
  <2> QED BY <2>1, <2>2, TurnsMove, Zenon DEF TurnOf, Queueing
<1>5. ASSUME NEW w \in Workers, Work(w) \/ Crash(w) \/ LedgerError(w) PROVE Turns'
  BY <1>5, WorkTurns, Zenon
<1>6. ASSUME NEW t \in Txs, ChainStep(t) PROVE Turns'
  BY <1>6, ChainRows, TurnsSame, Zenon
<1>7. CASE (\E o \in Orders, t \in Txs : List(o, t)) \/ Look \/ NotifyLost
  BY <1>7, NoticeRows, TurnsSame, Zenon
<1>8. CASE Notify
  <2>1. PICK o \in Orders, t \in Txs, c \in Int : o = notice.order /\ t = notice.tx /\ c = notice.confs
    BY <1>8, NotifyRows, Zenon DEF Ours, Typed, NoticeRow
  <2>2. Broadcasted(o)
    BY <2>1, DispatchAssumption, Zenon DEF Ours, NoticeOurs
  <2>3. /\ RowsBut(o) /\ workers' = workers /\ setup' = setup
        /\ freezes[o].status # "FROZEN" /\ freezes'[o].status # "FROZEN"
    BY <1>8, <2>1, <2>2, NotifyRows, Zenon DEF Delivered, FreezeGoes, Broadcasted
  <2>4. ASSUME ~setup.slow, NEW v \in Workers PROVE TurnOf(v)'
    <3>1. TurnOf(v)
      BY <2>4, Zenon DEF Turns
    <3>2. CASE workers[v].order = o
      BY <2>3, <3>1, <3>2, Zenon DEF TurnOf
    <3>3. CASE workers[v].order # o
      BY <2>3, <3>1, <3>3, TurnElsewhere, ZenonT(60)
    <3> QED BY <3>2, <3>3, Zenon
  <2> QED BY <2>3, <2>4, TurnsStay, Zenon
<1> QED BY <1>1, <1>2, <1>3, <1>4, <1>5, <1>6, <1>7, <1>8, Zenon DEF DispatchNext

-----------------------------------------------------------------------------
(***************************************************************************)
(* Undisturbed: while nothing goes wrong.                                  *)
(***************************************************************************)

\* Calm does not come back.
LEMMA CalmBefore ==
    ASSUME Ours, [DispatchNext]_dvars, Calm'
    PROVE  Calm /\ faults' = faults /\ setup' = setup
<1>0. faults \in Nat /\ requests \in [Orders -> Nat]
  BY Zenon DEF Ours, Typed
<1>a. faults' \in Nat /\ requests' \in [Orders -> Nat]
  BY OursStep, Zenon DEF Ours, Typed
<1> SUFFICES /\ setup' = setup
             /\ faults' >= faults
             /\ \A o \in Orders : requests'[o] >= requests[o]
  BY <1>0, <1>a DEF Calm
<1>1. CASE UNCHANGED dvars
  BY <1>0, <1>1, SMTT(60) DEF dvars
<1>2. ASSUME NEW o \in Orders, Create(o)
      PROVE  /\ setup' = setup /\ faults' >= faults
             /\ \A p \in Orders : requests'[p] >= requests[p]
  <2>1. CASE CreateLookup(o)
    BY <1>0, <2>1, CreateLookupRows, SMTT(60)
  <2>2. CASE CreateQueue(o)
    BY <1>0, <2>2, CreateQueueRows
  <2> QED BY <1>2, <2>1, <2>2, Zenon DEF Create
<1>3. CASE \E w \in Workers, o \in Orders : Claim(w, o) \/ ClaimStale(w, o)
  BY <1>0, <1>3, SMTT(60) DEF Claim, ClaimStale, outside
<1>4. ASSUME NEW w \in Workers, Work(w) \/ Crash(w) \/ LedgerError(w)
      PROVE  setup' = setup /\ faults' >= faults /\ requests' = requests
  BY <1>0, <1>4, SMTT(60)
     DEF Work, Execute, Confirm, MarkDone, Reschedule, ReleaseQueued, MarkFailed, SpeedUp,
         ResetBumped, Replace, Crash, LedgerError, outside
<1>5. CASE \E t \in Txs : ChainStep(t)
  BY <1>0, <1>5, ChainRows, SMTT(60)
<1>6. CASE (\E o \in Orders, t \in Txs : List(o, t)) \/ Look \/ NotifyLost
  BY <1>0, <1>6, NoticeRows, SMTT(60)
<1>7. CASE Notify
  BY <1>0, <1>7, NotifyRows, SMTT(60)
<1> QED BY <1>0, <1>1, <1>2, <1>3, <1>4, <1>5, <1>6, <1>7, SMTT(60) DEF DispatchNext

\* The parts of Undisturbed when what they are about stays.
LEMMA NotOutYetStays ==
    ASSUME NotOutYet, chain' = chain,
           \A v \in Workers : workers[v].pc = "broadcasted" => workers'[v] = workers[v],
           \A o \in Orders : ~Broadcasted(o)' => ~Broadcasted(o)
    PROVE  NotOutYet'
<1> SUFFICES ASSUME NEW o \in Orders, NEW t \in Txs, ~Broadcasted(o)', OutFor(t, o)'
             PROVE  \E w \in Workers :
                      workers'[w].pc = "broadcasted" /\ workers'[w].order = o /\ workers'[w].tx = t
  BY ZenonT(60) DEF NotOutYet
<1>1. OutFor(t, o) /\ ~Broadcasted(o)
  BY Zenon DEF OutFor, Out
<1> QED BY <1>1, SMTT(60) DEF NotOutYet

\* The workers that have nothing out go on with nothing out.
LEMMA NothingOutStays ==
    ASSUME NothingOut, chain' = chain,
           \A v \in Workers : workers'[v].pc \in Unsent =>
             workers[v].pc \in Unsent /\ workers'[v].order = workers[v].order
    PROVE  NothingOut'
BY Zenon DEF NothingOut, OutFor, Out

\* The nonces of a chain that stays.
LEMMA OneNonceStays ==
    ASSUME OneNonce, chain' = chain, setup' = setup
    PROVE  OneNonce'
BY Zenon DEF OneNonce, Out

\* What is recorded stays so while its recorders stay.
LEMMA RecordedStays ==
    ASSUME Recorded, chain' = chain, attempts' = attempts,
           \A v \in Workers : workers[v].pc \in Recording => workers'[v] = workers[v],
           \A o \in Orders : freezes'[o].status = "BROADCASTED" => freezes[o].status = "BROADCASTED"
    PROVE  Recorded'
<1> SUFFICES ASSUME NEW o \in Orders, NEW t \in Txs, freezes'[o].status = "BROADCASTED",
                    OutFor(t, o)', chain'[t].status # "reverted"
             PROVE  \/ attempts'[o][t] \in {"BROADCASTED", "REPLACED"}
                    \/ \E w \in Workers : /\ workers'[w].pc \in Recording
                                          /\ workers'[w].order = o /\ workers'[w].tx = t
  BY Zenon DEF Recorded
<1>1. OutFor(t, o) /\ freezes[o].status = "BROADCASTED"
  BY Zenon DEF OutFor, Out
<1> QED BY <1>1, SMTT(60) DEF Recorded

\* Releases stay explained while there are no new ones.
LEMMA ReleasedStays ==
    ASSUME ReleasedUnpaid, chain' = chain, setup' = setup, notice' = notice,
           \A o \in Orders : freezes'[o].status = "RELEASED" => freezes[o].status = "RELEASED"
    PROVE  ReleasedUnpaid'
BY DEF ReleasedUnpaid, OutFor, Out

\* No worker starts to replace.
LEMMA ReplaceableStays ==
    ASSUME OnlyReplaceable, setup' = setup,
           \A v \in Workers : workers'[v].pc \in Bumping => workers[v].pc \in Bumping
    PROVE  OnlyReplaceable'
BY Zenon DEF OnlyReplaceable

\* Nothing that Undisturbed is about changes.
LEMMA QuietSame ==
    ASSUME Undisturbed, UNCHANGED <<freezes, attempts, workers, chain, notice, setup>>
    PROVE  Undisturbed'
BY NotOutYetStays, NothingOutStays, OneNonceStays, RecordedStays, ReleasedStays, ReplaceableStays,
   Zenon
   DEF Undisturbed, Broadcasted

\* CreateQueue: a new order has nothing out.
LEMMA CreateQueueQuiet ==
    ASSUME Ours, Undisturbed, NEW o \in Orders, CreateQueue(o)
    PROVE  Undisturbed'
<1>1. /\ UNCHANGED <<attempts, workers, chain, notice, setup>> /\ RowsBut(o)
      /\ freezes' = freezes \/ (freezes[o].status = "NONE" /\ freezes'[o].status = "FROZEN")
  BY CreateQueueRows, Zenon DEF FreezeGoes
<1>2. \A p \in Orders : /\ ~Broadcasted(p)' => ~Broadcasted(p)
                        /\ freezes'[p].status = "BROADCASTED" => freezes[p].status = "BROADCASTED"
                        /\ freezes'[p].status = "RELEASED" => freezes[p].status = "RELEASED"
  BY <1>1, Zenon DEF Broadcasted, RowsBut
<1> QED
  BY <1>1, <1>2, NotOutYetStays, NothingOutStays, OneNonceStays, RecordedStays, ReleasedStays,
     ReplaceableStays, ZenonT(60)
     DEF Undisturbed

\* Claim: an order that is claimed has nothing out, as no worker is at it.
LEMMA ClaimQuiet ==
    ASSUME Ours, Turns, Undisturbed, ~setup.slow, NEW w \in Workers, NEW o \in Orders, Claim(w, o)
    PROVE  Undisturbed'
<1>1. /\ UNCHANGED <<freezes, attempts, chain, notice, setup>> /\ WorkersBut(w)
      /\ freezes[o].status = "FROZEN" /\ jobs[o].status \in {"QUEUED", "PROCESSING"}
      /\ jobs[o].status = "PROCESSING" => LeaseOver(o)
      /\ workers[w].pc = "idle" /\ workers'[w].pc = "execute" /\ workers'[w].order = o
  BY ClaimRows, Zenon
<1>2. ASSUME NEW t \in Txs PROVE ~OutFor(t, o)
  <2> SUFFICES ASSUME OutFor(t, o) PROVE FALSE
    BY Zenon
  <2>1. PICK v \in Workers : workers[v].pc = "broadcasted" /\ workers[v].order = o
    BY <1>1, Zenon DEF Undisturbed, NotOutYet, Broadcasted
  <2>2. TurnOf(v)
    BY Zenon DEF Turns
  <2> QED BY <1>1, <2>1, <2>2, Zenon DEF TurnOf, Queueing, LeaseOver, Held
<1>3. NothingOut'
  <2> SUFFICES ASSUME NEW v \in Workers, workers'[v].pc \in Unsent, NEW t \in Txs
               PROVE  ~OutFor(t, workers[v].order)'
    BY Zenon DEF NothingOut
  <2>1. CASE v = w
    BY <1>1, <1>2, <2>1, Zenon DEF OutFor, Out
  <2>2. CASE v # w
    BY <1>1, <2>2, ZenonT(60) DEF Undisturbed, NothingOut, WorkersBut, OutFor, Out
  <2> QED BY <2>1, <2>2, Zenon
<1>4. NotOutYet'
  BY <1>1, NotOutYetStays, Zenon DEF Undisturbed, Broadcasted, WorkersBut
<1>5. Recorded'
  BY <1>1, RecordedStays, Zenon DEF Undisturbed, Recording, WorkersBut
<1>6. OneNonce' /\ ReleasedUnpaid'
  BY <1>1, OneNonceStays, ReleasedStays, Zenon DEF Undisturbed
<1>7. OnlyReplaceable'
  BY <1>1, ReplaceableStays, Zenon DEF Undisturbed, WorkersBut, Bumping
<1> QED BY <1>3, <1>4, <1>5, <1>6, <1>7, Zenon DEF Undisturbed

\* Execute: the order had nothing out, and its first transaction is in hand.
LEMMA ExecuteQuiet ==
    ASSUME Ours, Turns, Undisturbed, ~setup.slow, NEW w \in Workers, Execute(w), faults' = faults
    PROVE  Undisturbed'
<1>1. /\ UNCHANGED <<freezes, attempts, notice, setup>> /\ WorkersBut(w)
      /\ workers[w].pc = "execute" /\ workers'[w].order = workers[w].order
  BY ExecuteRows, Zenon
<1>2. PICK o \in Orders : o = workers[w].order
  BY <1>1, Zenon DEF Ours, WorkersOurs, WorkerOurs
<1>3. freezes[o].status = "FROZEN" /\ \A t \in Txs : ~OutFor(t, o)
  BY <1>1, <1>2, Zenon DEF Turns, TurnOf, Undisturbed, NothingOut, Unsent
<1>4. CASE chain' = chain /\ workers'[w].pc = "failed"
  <2>1. NothingOut'
    BY <1>1, <1>4, NothingOutStays, Zenon DEF Undisturbed, Unsent, WorkersBut
  <2>2. NotOutYet'
    BY <1>1, <1>4, NotOutYetStays, Zenon DEF Undisturbed, Broadcasted, WorkersBut
  <2>3. Recorded'
    BY <1>1, <1>4, RecordedStays, Zenon DEF Undisturbed, Recording, WorkersBut
  <2>4. OneNonce' /\ ReleasedUnpaid'
    BY <1>1, <1>4, OneNonceStays, ReleasedStays, Zenon DEF Undisturbed
  <2>5. OnlyReplaceable'
    BY <1>1, <1>4, ReplaceableStays, Zenon DEF Undisturbed, WorkersBut, Bumping
  <2> QED BY <2>1, <2>2, <2>3, <2>4, <2>5, Zenon DEF Undisturbed
<1>5. ASSUME NEW t \in Txs, TxOrder[t] = o, ~Out(t), ChainBut(t),
             chain'[t] = [status |-> "pending", nonce |-> t],
             workers'[w].pc = "broadcasted", workers'[w].tx = t
      PROVE  Undisturbed'
  <2>1. /\ Out(t)' /\ \A u \in Txs \ {t} : chain'[u] = chain[u] /\ (Out(u)' <=> Out(u))
        /\ \A p \in Orders \ {o}, u \in Txs : OutFor(u, p)' <=> OutFor(u, p)
        /\ \A u \in Txs : OutFor(u, o)' <=> u = t
    BY <1>3, <1>5 DEF ChainBut, Out, OutFor
  <2>2. NotOutYet'
    <3> SUFFICES ASSUME NEW p \in Orders, NEW u \in Txs, ~Broadcasted(p)', OutFor(u, p)'
                 PROVE  \E v \in Workers :
                          workers'[v].pc = "broadcasted" /\ workers'[v].order = p /\ workers'[v].tx = u
      BY ZenonT(60) DEF NotOutYet
    <3>1. CASE p = o
      BY <1>1, <1>2, <1>5, <2>1, <3>1, Zenon
    <3>2. CASE p # o
      <4>1. ~Broadcasted(p) /\ OutFor(u, p)
        BY <1>1, <2>1, <3>2, Zenon DEF Broadcasted
      <4>2. PICK v \in Workers : workers[v].pc = "broadcasted" /\ workers[v].order = p /\ workers[v].tx = u
        BY <4>1, ZenonT(60) DEF Undisturbed, NotOutYet
      <4> QED BY <1>1, <4>2, Zenon DEF WorkersBut
    <3> QED BY <3>1, <3>2, Zenon
  <2>3. NothingOut'
    <3> SUFFICES ASSUME NEW v \in Workers, workers'[v].pc \in Unsent, NEW u \in Txs
                 PROVE  ~OutFor(u, workers[v].order)'
      BY Zenon DEF NothingOut
    <3>1. v # w /\ workers'[v] = workers[v]
      BY <1>1, <1>5, Zenon DEF Unsent, WorkersBut
    <3>2. PICK p \in Orders : p = workers[v].order
      BY <3>1, Zenon DEF Ours, WorkersOurs, WorkerOurs, Unsent
    <3>3. p # o
      BY <1>1, <1>2, <3>1, <3>2, Zenon DEF Turns, Alone, Queueing, Unsent
    <3>4. ~OutFor(u, p)
      BY <3>1, <3>2, Zenon DEF Undisturbed, NothingOut
    <3> QED BY <2>1, <3>1, <3>2, <3>3, <3>4, Zenon DEF OutFor
  <2>4. OneNonce'
    <3> SUFFICES ASSUME NEW u \in Txs, NEW v \in Txs, Out(u)', Out(v)', TxOrder[u] = TxOrder[v]
                 PROVE  chain'[u].nonce = chain'[v].nonce /\ (setup.family \notin Replaceable => u = v)
      BY <1>1, Zenon DEF OneNonce
    <3>1. CASE u = t \/ v = t
      BY <1>5, <2>1, <3>1, ZenonT(60) DEF OutFor
    <3>2. CASE u # t /\ v # t
      BY <2>1, <3>2, Zenon DEF Undisturbed, OneNonce
    <3> QED BY <3>1, <3>2, Zenon
  <2>5. Recorded'
    <3> SUFFICES ASSUME NEW p \in Orders, NEW u \in Txs, freezes'[p].status = "BROADCASTED",
                        OutFor(u, p)', chain'[u].status # "reverted"
                 PROVE  \/ attempts'[p][u] \in {"BROADCASTED", "REPLACED"}
                        \/ \E v \in Workers : /\ workers'[v].pc \in Recording
                                              /\ workers'[v].order = p /\ workers'[v].tx = u
      BY SMTT(60) DEF Recorded
    <3>1. p # o /\ OutFor(u, p) /\ chain[u].status # "reverted" /\ freezes[p].status = "BROADCASTED"
      BY <1>1, <1>3, <1>5, <2>1, ZenonT(60) DEF OutFor
    <3>2. CASE attempts[p][u] \in {"BROADCASTED", "REPLACED"}
      BY <1>1, <3>2, Zenon
    <3>3. CASE \E v \in Workers : /\ workers[v].pc \in Recording
                                  /\ workers[v].order = p /\ workers[v].tx = u
      BY <1>1, <3>3, Zenon DEF WorkersBut, Recording
    <3> QED BY <3>1, <3>2, <3>3, ZenonT(60) DEF Undisturbed, Recorded
  <2>6. ReleasedUnpaid'
    <3> SUFFICES ASSUME setup.family # "aptos"
                 PROVE  /\ notice.status = "FAILED" => chain'[notice.tx].status = "reverted"
                        /\ \A p \in Orders : freezes[p].status = "RELEASED" =>
                             \/ \A u \in Txs : ~OutFor(u, p)'
                             \/ \E u \in Txs : TxOrder[u] = p /\ chain'[u].status = "reverted"
      BY <1>1, Zenon DEF ReleasedUnpaid
    <3>1. \A u \in Txs : chain[u].status = "reverted" => chain'[u].status = "reverted"
      BY <1>5, <2>1, Zenon DEF Out
    <3>2. notice.status = "FAILED" => notice.tx \in Txs
      BY Zenon DEF Ours, NoticeOurs, OutFor
    <3>3. \A p \in Orders : freezes[p].status = "RELEASED" => p # o
      BY <1>3, Zenon
    <3> QED BY <2>1, <3>1, <3>2, <3>3, ZenonT(60) DEF Undisturbed, ReleasedUnpaid
  <2>7. OnlyReplaceable'
    BY <1>1, <1>5, ReplaceableStays, ZenonT(60) DEF Undisturbed, WorkersBut, Bumping
  <2> QED BY <2>2, <2>3, <2>4, <2>5, <2>6, <2>7, ZenonT(60) DEF Undisturbed
<1>6. faults' # faults + 1
  BY DEF Ours, Typed
<1> QED BY <1>2, <1>4, <1>5, <1>6, ExecuteRows, Zenon

\* Confirm: what is out for the order is in the hands of its worker.
LEMMA ConfirmQuiet ==
    ASSUME Ours, Turns, Undisturbed, ~setup.slow, NEW w \in Workers, Confirm(w)
    PROVE  Undisturbed'
<1>1. /\ UNCHANGED <<attempts, chain, notice, setup>> /\ WorkersBut(w)
      /\ workers[w].pc = "broadcasted" /\ workers'[w].order = workers[w].order
      /\ workers'[w].tx = workers[w].tx
  BY ConfirmRows, Zenon
<1>2. PICK o \in Orders : o = workers[w].order
  BY <1>1, Zenon DEF Ours, WorkersOurs, WorkerOurs
<1>3. freezes[o].status = "FROZEN"
  BY <1>1, <1>2, Zenon DEF Turns, TurnOf
<1>4. RowsBut(o) /\ workers'[w].pc = "confirmed" /\ freezes'[o].status = "BROADCASTED"
  BY <1>2, <1>3, ConfirmRows, Zenon DEF FreezeGoes
<1>5. NothingOut'
  BY <1>1, <1>4, NothingOutStays, Zenon DEF Undisturbed, Unsent, WorkersBut
<1>6. NotOutYet'
  <2> SUFFICES ASSUME NEW p \in Orders, NEW u \in Txs, ~Broadcasted(p)', OutFor(u, p)'
               PROVE  \E v \in Workers :
                        workers'[v].pc = "broadcasted" /\ workers'[v].order = p /\ workers'[v].tx = u
    BY Zenon DEF NotOutYet
  <2>1. p # o /\ ~Broadcasted(p) /\ OutFor(u, p)
    BY <1>1, <1>4, Zenon DEF Broadcasted, RowsBut, OutFor, Out
  <2>2. PICK v \in Workers : workers[v].pc = "broadcasted" /\ workers[v].order = p /\ workers[v].tx = u
    BY <2>1, ZenonT(60) DEF Undisturbed, NotOutYet
  <2> QED BY <1>1, <1>2, <2>1, <2>2, Zenon DEF WorkersBut
<1>7. Recorded'
  <2> SUFFICES ASSUME NEW p \in Orders, NEW u \in Txs, freezes'[p].status = "BROADCASTED",
                      OutFor(u, p)', chain'[u].status # "reverted"
               PROVE  \/ attempts'[p][u] \in {"BROADCASTED", "REPLACED"}
                      \/ \E v \in Workers : /\ workers'[v].pc \in Recording
                                            /\ workers'[v].order = p /\ workers'[v].tx = u
    BY SMTT(60) DEF Recorded
  <2>0. OutFor(u, p)
    BY <1>1, Zenon DEF OutFor, Out
  <2>1. CASE p = o
    <3>1. PICK v \in Workers : workers[v].pc = "broadcasted" /\ workers[v].order = p /\ workers[v].tx = u
      BY <1>3, <2>0, <2>1, SMTT(60) DEF Undisturbed, NotOutYet, Broadcasted
    <3>2. v = w
      BY <1>1, <1>2, <2>1, <3>1, Zenon DEF Turns, Alone, Queueing
    <3> QED BY <1>1, <1>4, <3>1, <3>2, ZenonT(60) DEF Recording
  <2>2. CASE p # o
    <3>1. freezes[p].status = "BROADCASTED" /\ chain[u].status # "reverted"
      BY <1>1, <1>4, <2>2, Zenon DEF RowsBut
    <3>2. CASE attempts[p][u] \in {"BROADCASTED", "REPLACED"}
      BY <1>1, <3>2, Zenon
    <3>3. CASE \E v \in Workers : /\ workers[v].pc \in Recording
                                  /\ workers[v].order = p /\ workers[v].tx = u
      BY <1>1, <3>3, Zenon DEF WorkersBut, Recording
    <3> QED BY <2>0, <3>1, <3>2, <3>3, Zenon DEF Undisturbed, Recorded
  <2> QED BY <2>1, <2>2, Zenon
<1>8. OneNonce'
  BY <1>1, OneNonceStays, Zenon DEF Undisturbed
<1>9. ReleasedUnpaid'
  BY <1>1, <1>4, ReleasedStays, Zenon DEF Undisturbed, RowsBut
<1>10. OnlyReplaceable'
  BY <1>1, <1>4, ReplaceableStays, Zenon DEF Undisturbed, WorkersBut, Bumping
<1> QED BY <1>5, <1>6, <1>7, <1>8, <1>9, <1>10, Zenon DEF Undisturbed

\* MarkDone and Replace record what their worker held.
LEMMA RecordQuiet ==
    ASSUME Ours, Undisturbed, NEW w \in Workers, MarkDone(w) \/ Replace(w)
    PROVE  Undisturbed'
<1>1. PICK o \in Orders, t \in Txs : o = workers[w].order /\ t = workers[w].tx
  BY MarkDoneRows, ReplaceRows, Zenon
<1>2. /\ UNCHANGED <<chain, notice, setup>> /\ WorkersBut(w) /\ RowsBut(o)
      /\ workers[w].pc \in Recording /\ workers'[w].pc = "idle"
      /\ freezes'[o].status = freezes[o].status
      /\ attempts'[o][t] = "BROADCASTED"
      /\ \A u \in Txs : attempts[o][u] \in {"BROADCASTED", "REPLACED"} =>
                        attempts'[o][u] \in {"BROADCASTED", "REPLACED"}
  <2>1. CASE MarkDone(w)
    BY <1>1, <2>1, MarkDoneRows, ZenonT(60) DEF Recording
  <2>2. CASE Replace(w)
    BY <1>1, <2>2, ReplaceRows, SMTT(60) DEF Recording
  <2> QED BY <2>1, <2>2, Zenon
<1>3. NothingOut'
  BY <1>2, NothingOutStays, Zenon DEF Undisturbed, Unsent, WorkersBut
<1>4. NotOutYet'
  BY <1>2, NotOutYetStays, Zenon DEF Undisturbed, Broadcasted, WorkersBut, RowsBut, Recording
<1>5. Recorded'
  <2> SUFFICES ASSUME NEW p \in Orders, NEW u \in Txs, freezes'[p].status = "BROADCASTED",
                      OutFor(u, p)', chain'[u].status # "reverted"
               PROVE  \/ attempts'[p][u] \in {"BROADCASTED", "REPLACED"}
                      \/ \E v \in Workers : /\ workers'[v].pc \in Recording
                                            /\ workers'[v].order = p /\ workers'[v].tx = u
    BY SMTT(60) DEF Recorded
  <2>1. OutFor(u, p) /\ freezes[p].status = "BROADCASTED" /\ chain[u].status # "reverted"
    BY <1>2, Zenon DEF OutFor, Out, RowsBut
  <2>2. CASE attempts[p][u] \in {"BROADCASTED", "REPLACED"}
    BY <1>2, <2>2, Zenon DEF RowsBut
  <2>3. CASE \E v \in Workers : /\ workers[v].pc \in Recording
                                /\ workers[v].order = p /\ workers[v].tx = u
    <3>1. PICK v \in Workers : workers[v].pc \in Recording /\ workers[v].order = p /\ workers[v].tx = u
      BY <2>3, Zenon
    <3>2. CASE v = w
      BY <1>1, <1>2, <3>1, <3>2, Zenon
    <3>3. CASE v # w
      BY <1>2, <3>1, <3>3, Zenon DEF WorkersBut
    <3> QED BY <3>2, <3>3, Zenon
  <2> QED BY <2>1, <2>2, <2>3, ZenonT(60) DEF Undisturbed, Recorded
<1>6. OneNonce'
  BY <1>2, OneNonceStays, Zenon DEF Undisturbed
<1>7. ReleasedUnpaid'
  BY <1>2, ReleasedStays, Zenon DEF Undisturbed, RowsBut
<1>8. OnlyReplaceable'
  BY <1>2, ReplaceableStays, Zenon DEF Undisturbed, WorkersBut, Bumping
<1> QED BY <1>3, <1>4, <1>5, <1>6, <1>7, <1>8, Zenon DEF Undisturbed

\* ReleaseQueued gives back what has nothing out.
LEMMA ReleaseQuiet ==
    ASSUME Ours, Undisturbed, NEW w \in Workers, ReleaseQueued(w)
    PROVE  Undisturbed'
<1>1. PICK o \in Orders : o = workers[w].order
  BY ReleaseRows, Zenon
<1>2. /\ UNCHANGED <<attempts, chain, notice, setup>> /\ WorkersBut(w) /\ RowsBut(o)
      /\ workers[w].pc = "failed" /\ workers'[w].pc = "released" /\ workers'[w].order = o
      /\ freezes' = freezes \/ freezes'[o].status = "RELEASED"
  BY <1>1, ReleaseRows, Zenon DEF FreezeGoes
<1>3. \A t \in Txs : ~OutFor(t, o)
  BY <1>1, <1>2, Zenon DEF Undisturbed, NothingOut, Unsent
<1>4. NothingOut'
  BY <1>1, <1>2, NothingOutStays, Zenon DEF Undisturbed, Unsent, WorkersBut
<1>5. NotOutYet'
  BY <1>2, NotOutYetStays, Zenon DEF Undisturbed, Broadcasted, WorkersBut, RowsBut
<1>6. Recorded'
  BY <1>2, RecordedStays, Zenon DEF Undisturbed, Recording, WorkersBut, RowsBut
<1>7. OneNonce'
  BY <1>2, OneNonceStays, ZenonT(60) DEF Undisturbed
<1>8. ReleasedUnpaid'
  BY <1>2, <1>3, SMTT(60) DEF Undisturbed, ReleasedUnpaid, OutFor, Out, RowsBut
<1>9. OnlyReplaceable'
  BY <1>2, ReplaceableStays, Zenon DEF Undisturbed, WorkersBut, Bumping
<1> QED BY <1>4, <1>5, <1>6, <1>7, <1>8, <1>9, Zenon DEF Undisturbed

\* A worker that ends without news, and one that starts a replacement.
LEMMA EndQuiet ==
    ASSUME Ours, Undisturbed, NEW w \in Workers,
           \/ Reschedule(w) \/ MarkFailed(w) \/ ResetBumped(w)
           \/ \E o \in Orders : ClaimStale(w, o)
    PROVE  Undisturbed'
<1>1. /\ UNCHANGED <<freezes, attempts, chain, notice, setup>> /\ WorkersBut(w)
      /\ workers[w].pc \in {"failed", "released", "unbumped", "idle"}
      /\ \/ workers'[w].pc = "idle"
         \/ workers'[w].pc = "bump" /\ setup.family \in Replaceable
  <2>1. CASE Reschedule(w) \/ MarkFailed(w) \/ ResetBumped(w)
    BY <2>1, EndRows, Zenon
  <2>2. CASE \E o \in Orders : ClaimStale(w, o)
    BY <2>2, ClaimStaleRows, Zenon
  <2> QED BY <2>1, <2>2, Zenon
<1>2. NothingOut'
  BY <1>1, NothingOutStays, Zenon DEF Undisturbed, Unsent, WorkersBut
<1>3. NotOutYet'
  BY <1>1, NotOutYetStays, Zenon DEF Undisturbed, Broadcasted, WorkersBut
<1>4. Recorded'
  BY <1>1, RecordedStays, Zenon DEF Undisturbed, Recording, WorkersBut
<1>5. OneNonce' /\ ReleasedUnpaid'
  BY <1>1, OneNonceStays, ReleasedStays, Zenon DEF Undisturbed
<1>6. OnlyReplaceable'
  BY <1>1, Zenon DEF Undisturbed, OnlyReplaceable, WorkersBut, Bumping
<1> QED BY <1>2, <1>3, <1>4, <1>5, <1>6, ZenonT(60) DEF Undisturbed

\* SpeedUp: the replacement shares the nonce of the stored transaction and is
\* in the hands of its worker.
LEMMA SpeedUpQuiet ==
    ASSUME Ours, Undisturbed, NEW w \in Workers, SpeedUp(w), faults' = faults
    PROVE  Undisturbed'
<1>1. /\ UNCHANGED <<freezes, attempts, notice, setup>> /\ WorkersBut(w)
      /\ workers[w].pc = "bump" /\ workers'[w].order = workers[w].order
  BY SpeedUpRows, Zenon
<1>2. PICK o \in Orders, r \in Txs : o = workers[w].order /\ r = workers[w].tx
  BY <1>1, Zenon DEF Ours, WorkersOurs, WorkerOurs, Sent, OutFor
<1>3. OutFor(r, o) /\ Broadcasted(o) /\ setup.family \in Replaceable
  BY <1>1, <1>2, Zenon
     DEF Ours, WorkersOurs, WorkerOurs, Sent, Undisturbed, OnlyReplaceable, Bumping
<1>4. CASE chain' = chain /\ workers'[w].pc = "unbumped"
  <2>1. NothingOut'
    BY <1>1, <1>4, NothingOutStays, Zenon DEF Undisturbed, Unsent, WorkersBut
  <2>2. NotOutYet'
    BY <1>1, <1>4, NotOutYetStays, Zenon DEF Undisturbed, Broadcasted, WorkersBut
  <2>3. Recorded'
    BY <1>1, <1>4, RecordedStays, Zenon DEF Undisturbed, Recording, WorkersBut
  <2>4. OneNonce' /\ ReleasedUnpaid'
    BY <1>1, <1>4, OneNonceStays, ReleasedStays, Zenon DEF Undisturbed
  <2>5. OnlyReplaceable'
    BY <1>1, <1>4, ReplaceableStays, Zenon DEF Undisturbed, WorkersBut, Bumping
  <2> QED BY <2>1, <2>2, <2>3, <2>4, <2>5, Zenon DEF Undisturbed
<1>5. ASSUME NEW t \in Txs, TxOrder[t] = o, ~Out(t), ChainBut(t),
             chain'[t] = [status |-> "pending", nonce |-> chain[r].nonce],
             workers'[w].pc = "replaced", workers'[w].tx = t
      PROVE  Undisturbed'
  <2>1. /\ Out(t)' /\ \A u \in Txs \ {t} : chain'[u] = chain[u] /\ (Out(u)' <=> Out(u))
        /\ \A p \in Orders \ {o}, u \in Txs : OutFor(u, p)' <=> OutFor(u, p)
        /\ chain'[t].nonce = chain[r].nonce
    BY <1>5, SMTT(60) DEF ChainBut, Out, OutFor
  <2>2. NotOutYet'
    <3> SUFFICES ASSUME NEW p \in Orders, NEW u \in Txs, ~Broadcasted(p)', OutFor(u, p)'
                 PROVE  \E v \in Workers :
                          workers'[v].pc = "broadcasted" /\ workers'[v].order = p /\ workers'[v].tx = u
      BY ZenonT(60) DEF NotOutYet
    <3>1. ~Broadcasted(p) /\ p # o /\ OutFor(u, p)
      BY <1>1, <1>3, <2>1, Zenon DEF Broadcasted
    <3>2. PICK v \in Workers : workers[v].pc = "broadcasted" /\ workers[v].order = p /\ workers[v].tx = u
      BY <3>1, ZenonT(60) DEF Undisturbed, NotOutYet
    <3> QED BY <1>1, <3>2, Zenon DEF WorkersBut
  <2>3. NothingOut'
    <3> SUFFICES ASSUME NEW v \in Workers, workers'[v].pc \in Unsent, NEW u \in Txs
                 PROVE  ~OutFor(u, workers[v].order)'
      BY Zenon DEF NothingOut
    <3>1. v # w /\ workers'[v] = workers[v]
      BY <1>1, <1>5, Zenon DEF Unsent, WorkersBut
    <3>2. PICK p \in Orders : p = workers[v].order
      BY <3>1, Zenon DEF Ours, WorkersOurs, WorkerOurs, Unsent
    <3>3. p # o /\ ~OutFor(u, p)
      BY <1>3, <3>1, <3>2, Zenon DEF Undisturbed, NothingOut
    <3> QED BY <2>1, <3>1, <3>2, <3>3, Zenon DEF OutFor
  <2>4. OneNonce'
    <3> SUFFICES ASSUME NEW u \in Txs, NEW v \in Txs, Out(u)', Out(v)', TxOrder[u] = TxOrder[v]
                 PROVE  chain'[u].nonce = chain'[v].nonce
      BY <1>1, <1>3, Zenon DEF OneNonce
    <3>1. ASSUME NEW x \in Txs, Out(x)', TxOrder[x] = o PROVE chain'[x].nonce = chain[r].nonce
      <4>1. CASE x = t
        BY <2>1, <4>1, Zenon
      <4>2. CASE x # t
        BY <1>3, <2>1, <3>1, <4>2, ZenonT(60) DEF Undisturbed, OneNonce, OutFor
      <4> QED BY <4>1, <4>2, Zenon
    <3>2. CASE TxOrder[u] = o
      BY <3>1, <3>2, Zenon
    <3>3. CASE TxOrder[u] # o
      BY <1>5, <2>1, <3>3, SMTT(60) DEF Undisturbed, OneNonce
    <3> QED BY <3>2, <3>3, Zenon
  <2>5. Recorded'
    <3> SUFFICES ASSUME NEW p \in Orders, NEW u \in Txs, freezes'[p].status = "BROADCASTED",
                        OutFor(u, p)', chain'[u].status # "reverted"
                 PROVE  \/ attempts'[p][u] \in {"BROADCASTED", "REPLACED"}
                        \/ \E v \in Workers : /\ workers'[v].pc \in Recording
                                              /\ workers'[v].order = p /\ workers'[v].tx = u
      BY SMTT(60) DEF Recorded
    <3>1. CASE u = t
      <4>1. p = o
        BY <1>5, <3>1, Zenon DEF OutFor
      <4> QED BY <1>1, <1>2, <1>5, <3>1, <4>1, ZenonT(60) DEF Recording
    <3>2. CASE u # t
      <4>1. OutFor(u, p) /\ chain[u].status # "reverted" /\ freezes[p].status = "BROADCASTED"
        BY <1>1, <2>1, <3>2, Zenon DEF OutFor
      <4>2. CASE attempts[p][u] \in {"BROADCASTED", "REPLACED"}
        BY <1>1, <4>2, Zenon
      <4>3. CASE \E v \in Workers : /\ workers[v].pc \in Recording
                                    /\ workers[v].order = p /\ workers[v].tx = u
        BY <1>1, <4>3, Zenon DEF WorkersBut, Recording
      <4> QED BY <4>1, <4>2, <4>3, ZenonT(60) DEF Undisturbed, Recorded
    <3> QED BY <3>1, <3>2, ZenonT(60)
  <2>6. ReleasedUnpaid'
    <3> SUFFICES ASSUME setup.family # "aptos"
                 PROVE  /\ notice.status = "FAILED" => chain'[notice.tx].status = "reverted"
                        /\ \A p \in Orders : freezes[p].status = "RELEASED" =>
                             \/ \A u \in Txs : ~OutFor(u, p)'
                             \/ \E u \in Txs : TxOrder[u] = p /\ chain'[u].status = "reverted"
      BY <1>1, Zenon DEF ReleasedUnpaid
    <3>1. \A u \in Txs : chain[u].status = "reverted" => chain'[u].status = "reverted"
      BY <1>5, <2>1, Zenon DEF Out
    <3>2. notice.status = "FAILED" => notice.tx \in Txs
      BY Zenon DEF Ours, NoticeOurs, OutFor
    <3>3. ASSUME NEW p \in Orders, freezes[p].status = "RELEASED"
          PROVE  \/ \A u \in Txs : ~OutFor(u, p)'
                 \/ \E u \in Txs : TxOrder[u] = p /\ chain'[u].status = "reverted"
      <4>1. CASE \E u \in Txs : TxOrder[u] = p /\ chain[u].status = "reverted"
        BY <3>1, <4>1, Zenon
      <4>2. CASE \A u \in Txs : ~OutFor(u, p)
        BY <1>3, <2>1, <4>2, Zenon
      <4> QED BY <3>3, <4>1, <4>2, Zenon DEF Undisturbed, ReleasedUnpaid
    <3> QED BY <3>1, <3>2, <3>3, ZenonT(60) DEF Undisturbed, ReleasedUnpaid
  <2>7. OnlyReplaceable'
    BY <1>1, <1>3, Zenon DEF Undisturbed, OnlyReplaceable
  <2> QED BY <2>2, <2>3, <2>4, <2>5, <2>6, <2>7, ZenonT(60) DEF Undisturbed
<1>6. faults' # faults + 1
  BY DEF Ours, Typed
<1> QED BY <1>2, <1>4, <1>5, <1>6, SpeedUpRows, Zenon

\* The chain: without blocks thrown out, what reverted stays so.
LEMMA ChainQuiet ==
    ASSUME Ours, Undisturbed, ~setup.drops, NEW t \in Txs, ChainStep(t)
    PROVE  Undisturbed'
<1>1. /\ UNCHANGED <<freezes, attempts, workers, notice, setup>> /\ ChainBut(t)
      /\ chain'[t].nonce = chain[t].nonce
      /\ chain[t].status \in {"pending", "included"}
      /\ chain'[t].status \in {"included", "reverted", "final"}
  BY ChainRows, Zenon
<1>2. \A u \in Txs : /\ Out(u)' <=> Out(u)
                     /\ chain'[u].nonce = chain[u].nonce
                     /\ chain[u].status = "reverted" => chain'[u].status = "reverted"
  BY <1>1, Zenon DEF ChainBut, Out
<1>3. \A o \in Orders, u \in Txs : OutFor(u, o)' <=> OutFor(u, o)
  BY <1>2, Zenon DEF OutFor
<1>4. NotOutYet'
  BY <1>1, <1>3, SMTT(60) DEF Undisturbed, NotOutYet, Broadcasted
<1>5. NothingOut'
  BY <1>1, <1>2, ZenonT(60) DEF Undisturbed, NothingOut, OutFor
<1>6. OneNonce'
  BY <1>1, <1>2, SMTT(60) DEF Undisturbed, OneNonce
<1>7. Recorded'
  BY <1>1, <1>2, <1>3, ZenonT(60) DEF Undisturbed, Recorded
<1>8. ReleasedUnpaid'
  <2>1. notice.status = "FAILED" => notice.tx \in Txs
    BY Zenon DEF Ours, NoticeOurs, OutFor
  <2> QED BY <1>1, <1>2, <1>3, <2>1, Zenon DEF Undisturbed, ReleasedUnpaid
<1>9. OnlyReplaceable'
  BY <1>1, Zenon DEF Undisturbed, OnlyReplaceable
<1> QED BY <1>4, <1>5, <1>6, <1>7, <1>8, <1>9, Zenon DEF Undisturbed

\* The scanner's own steps: a failure it reports is a transaction that reverted.
LEMMA NoticeQuiet ==
    ASSUME Ours, Undisturbed, (\E o \in Orders, t \in Txs : List(o, t)) \/ Look \/ NotifyLost
    PROVE  Undisturbed'
<1>1. UNCHANGED <<freezes, attempts, workers, chain, setup>>
  BY NoticeRows, Zenon
<1>2. notice'.status = "FAILED" /\ setup.family # "aptos" => chain[notice'.tx].status = "reverted"
  BY NoticeRows, Zenon DEF ReportFair
<1>3. NotOutYet' /\ NothingOut' /\ OneNonce' /\ Recorded' /\ OnlyReplaceable'
  BY <1>1, NotOutYetStays, NothingOutStays, OneNonceStays, RecordedStays, ReplaceableStays,
     ZenonT(60)
     DEF Undisturbed, Broadcasted
<1>4. ReleasedUnpaid'
  BY <1>1, <1>2, Zenon DEF Undisturbed, ReleasedUnpaid, OutFor, Out
<1> QED BY <1>3, <1>4, Zenon DEF Undisturbed

\* Notify: a failed hash that is not the current one was replaced, so it
\* reverted, and a release follows from a transaction that reverted.
LEMMA NotifyQuiet ==
    ASSUME Ours, Undisturbed, Notify
    PROVE  Undisturbed'
<1>1. PICK o \in Orders, t \in Txs, c \in Int : o = notice.order /\ t = notice.tx /\ c = notice.confs
  BY NotifyRows, Zenon DEF Ours, Typed, NoticeRow
<1>2. /\ UNCHANGED <<workers, chain, setup>> /\ RowsBut(o) /\ notice'.status = "NONE"
      /\ Delivered(o, t, c)
  BY <1>1, NotifyRows, SMTT(60) DEF NoNotice
<1>3. OutFor(t, o) /\ Broadcasted(o)
  BY <1>1, DispatchAssumption, Zenon DEF Ours, NoticeOurs
<1>4. /\ freezes'[o].status \in {"BROADCASTED", "CONFIRMED", "RELEASED"}
      /\ freezes'[o].status = "BROADCASTED" => freezes[o].status = "BROADCASTED"
  BY <1>2, <1>3, Zenon DEF Delivered, FreezeGoes, Broadcasted
<1>5. notice.status = "FAILED" /\ setup.family # "aptos" => chain[t].status = "reverted"
  BY <1>1, Zenon DEF Undisturbed, ReleasedUnpaid
<1>6. NotOutYet'
  BY <1>2, <1>4, NotOutYetStays, Zenon DEF Undisturbed, Broadcasted, RowsBut
<1>7. NothingOut' /\ OneNonce' /\ OnlyReplaceable'
  BY <1>2, NothingOutStays, OneNonceStays, ReplaceableStays, Zenon DEF Undisturbed
<1>8. Recorded'
  <2> SUFFICES ASSUME NEW p \in Orders, NEW u \in Txs, freezes'[p].status = "BROADCASTED",
                      OutFor(u, p)', chain'[u].status # "reverted"
               PROVE  \/ attempts'[p][u] \in {"BROADCASTED", "REPLACED"}
                      \/ \E v \in Workers : /\ workers'[v].pc \in Recording
                                            /\ workers'[v].order = p /\ workers'[v].tx = u
    BY SMTT(60) DEF Recorded
  <2>1. OutFor(u, p) /\ freezes[p].status = "BROADCASTED" /\ chain[u].status # "reverted"
    BY <1>2, <1>4, Zenon DEF OutFor, Out, RowsBut
  <2>2. \/ attempts[p][u] \in {"BROADCASTED", "REPLACED"}
        \/ \E v \in Workers : /\ workers'[v].pc \in Recording
                              /\ workers'[v].order = p /\ workers'[v].tx = u
    BY <1>2, <2>1, SMTT(60) DEF Undisturbed, Recorded
  <2>3. CASE p = o /\ u = t
    <3>1. CASE notice.status = "CONFIRMED"
      <4>1. AttemptGoes(o, t, "BROADCASTED")
        BY <1>2, <2>1, <2>3, <3>1, Zenon DEF Delivered, FreezeGoes
      <4> QED BY <2>2, <2>3, <4>1, Zenon DEF AttemptGoes
    <3>2. CASE notice.status = "FAILED"
      <4>1. setup.family = "aptos"
        BY <1>5, <2>1, <2>3, <3>2, Zenon
      <4>2. freezes[o].tx \notin {NoTx, t}
        BY <1>2, <2>1, <2>3, <3>2, Zenon DEF Delivered, FreezeGoes
      <4>3. OutFor(freezes[o].tx, o)
        BY <2>1, <2>3, Zenon DEF Ours, RowsOurs, RowOurs
      <4>4. freezes[o].tx = t
        BY <1>3, <4>1, <4>3, Zenon DEF Undisturbed, OneNonce, OutFor, Replaceable
      <4> QED BY <4>2, <4>4, Zenon
    <3> QED BY <1>2, <3>1, <3>2, Zenon DEF Delivered
  <2>4. CASE ~(p = o /\ u = t)
    <3>1. attempts'[p][u] = attempts[p][u]
      BY <1>2, <2>4, Zenon DEF RowsBut, Delivered, AttemptGoes
    <3> QED BY <2>2, <3>1, Zenon
  <2> QED BY <2>3, <2>4, Zenon
<1>9. ReleasedUnpaid'
  <2> SUFFICES ASSUME setup.family # "aptos", NEW p \in Orders, freezes'[p].status = "RELEASED"
               PROVE  \/ \A u \in Txs : ~OutFor(u, p)'
                      \/ \E u \in Txs : TxOrder[u] = p /\ chain'[u].status = "reverted"
    BY <1>2, Zenon DEF ReleasedUnpaid
  <2>1. CASE freezes[p].status = "RELEASED"
    BY <1>2, <2>1, Zenon DEF Undisturbed, ReleasedUnpaid, OutFor, Out
  <2>2. CASE freezes[p].status # "RELEASED"
    <3>1. p = o /\ notice.status = "FAILED"
      BY <1>2, <2>2, Zenon DEF RowsBut, Delivered, FreezeGoes
    <3> QED BY <1>2, <1>3, <1>5, <3>1, Zenon DEF OutFor
  <2> QED BY <2>1, <2>2, Zenon
<1> QED BY <1>6, <1>7, <1>8, <1>9, Zenon DEF Undisturbed

\* Every step keeps Quietly.
LEMMA QuietStep ==
    ASSUME Ours, Turns, Quietly, [DispatchNext]_dvars
    PROVE  Quietly'
<1> SUFFICES ASSUME Calm' PROVE Undisturbed'
  BY Zenon DEF Quietly
<1>0. /\ Calm /\ Undisturbed /\ faults' = faults /\ faults \in Nat
      /\ ~setup.slow /\ ~setup.drops
  BY CalmBefore, Zenon DEF Quietly, Calm, Ours, Typed
<1>1. CASE UNCHANGED dvars
  BY <1>0, <1>1, QuietSame, Zenon DEF dvars
<1>2. ASSUME NEW o \in Orders, Create(o) PROVE Undisturbed'
  BY <1>0, <1>2, CreateLookupRows, QuietSame, CreateQueueQuiet, Zenon DEF Create
<1>3. ASSUME NEW w \in Workers, NEW o \in Orders, Claim(w, o) \/ ClaimStale(w, o) PROVE Undisturbed'
  BY <1>0, <1>3, ClaimQuiet, EndQuiet, Zenon
<1>4. ASSUME NEW w \in Workers, Work(w) PROVE Undisturbed'
  BY <1>0, <1>4, ExecuteQuiet, ConfirmQuiet, RecordQuiet, EndQuiet, ReleaseQuiet, SpeedUpQuiet,
     ZenonT(60)
     DEF Work
<1>5. ASSUME NEW w \in Workers, Crash(w) \/ LedgerError(w) PROVE FALSE
  BY <1>0, <1>5, FaultRows, SMTT(60)
<1>6. ASSUME NEW t \in Txs, ChainStep(t) PROVE Undisturbed'
  BY <1>0, <1>6, ChainQuiet, Zenon
<1>7. CASE (\E o \in Orders, t \in Txs : List(o, t)) \/ Look \/ NotifyLost
  BY <1>0, <1>7, NoticeQuiet, Zenon
<1>8. CASE Notify
  BY <1>0, <1>8, NotifyQuiet, Zenon
<1> QED BY <1>1, <1>2, <1>3, <1>4, <1>5, <1>6, <1>7, <1>8, ZenonT(60) DEF DispatchNext

-----------------------------------------------------------------------------
(***************************************************************************)
(* Deep: where one confirmation is not enough, what settles an order is a  *)
(* final transaction.                                                      *)
(***************************************************************************)

\* No count and no settlement changes, and what is final stays final.
Undeepened ==
    /\ notice' = notice
    /\ \A t \in Txs : chain[t].status = "final" => chain'[t].status = "final"
    /\ \A o \in Orders : /\ freezes'[o].confs = freezes[o].confs
                         /\ freezes'[o].status # "RELEASED" => freezes[o].status # "RELEASED"
                         /\ freezes'[o].status = "CONFIRMED" => freezes[o].status = "CONFIRMED"

\* Such a step keeps Deep.
LEMMA DeepStays ==
    ASSUME Ours, Deep, Undeepened
    PROVE  Deep'
<1>1. \A o \in Orders : Final(o) => Final(o)'
  BY Zenon DEF Final, Undeepened
<1>2. notice.status = "CONFIRMED" => notice.tx \in Txs
  BY ZenonT(60) DEF Ours, NoticeOurs, OutFor
<1> QED BY <1>1, <1>2, Zenon DEF Deep, Undeepened

\* The workers and the requests settle nothing.
LEMMA WorkersUndeepened ==
    ASSUME Ours, NEW w \in Workers, Work(w) \/ Crash(w) \/ LedgerError(w)
    PROVE  Undeepened
<1>1. CASE Execute(w)
  BY <1>1, ExecuteRows, Zenon DEF Undeepened, ChainBut, Out
<1>2. CASE Confirm(w)
  BY <1>2, ConfirmRows, ZenonT(60) DEF Undeepened, RowsBut, FreezeGoes
<1>3. CASE MarkDone(w)
  BY <1>3, MarkDoneRows, Zenon DEF Undeepened
<1>4. CASE Reschedule(w) \/ MarkFailed(w) \/ ResetBumped(w)
  BY <1>4, EndRows, Zenon DEF Undeepened
<1>5. CASE ReleaseQueued(w)
  BY <1>5, ReleaseRows, Zenon DEF Undeepened, RowsBut, FreezeGoes
<1>6. CASE SpeedUp(w)
  BY <1>6, SpeedUpRows, Zenon DEF Undeepened, ChainBut, Out
<1>7. CASE Replace(w)
  <2>1. PICK o \in Orders : o = workers[w].order
    BY <1>7, ReplaceRows, Zenon
  <2>2. /\ UNCHANGED <<chain, notice>> /\ RowsBut(o)
        /\ freezes'[o].status = freezes[o].status /\ freezes'[o].confs = freezes[o].confs
    BY <1>7, <2>1, ReplaceRows, Zenon
  <2>3. \A p \in Orders : freezes'[p].status = freezes[p].status /\ freezes'[p].confs = freezes[p].confs
    BY <2>2, Zenon DEF RowsBut
  <2> QED BY <2>2, <2>3, Zenon DEF Undeepened
<1>8. CASE Crash(w) \/ LedgerError(w)
  BY <1>8, FaultRows, Zenon DEF Undeepened
<1> QED BY <1>1, <1>2, <1>3, <1>4, <1>5, <1>6, <1>7, <1>8, Zenon DEF Work

\* Notify: enough confirmations are those of a final transaction, now or before.
LEMMA NotifyDeep ==
    ASSUME Ours, Deep, Notify
    PROVE  Deep'
<1>1. PICK o \in Orders, t \in Txs, c \in Int : o = notice.order /\ t = notice.tx /\ c = notice.confs
  BY NotifyRows, Zenon DEF Ours, Typed, NoticeRow
<1>2. /\ chain' = chain /\ RowsBut(o) /\ notice'.status = "NONE" /\ Delivered(o, t, c)
  BY <1>1, NotifyRows DEF NoNotice
<1>3. OutFor(t, o) /\ freezes[o].confs \in Nat /\ RequiredConfs \in Nat
  BY <1>1, DispatchAssumption, WithdrawAssumption, ZenonT(60)
     DEF Ours, NoticeOurs, Typed, WithdrawTypeOK, FreezeRow
<1>4. \A p \in Orders : Final(p)' <=> Final(p)
  BY <1>2, Zenon DEF Final
<1>5. ASSUME notice.status = "CONFIRMED", Max2(c, freezes[o].confs) >= RequiredConfs,
             freezes[o].status # "RELEASED"
      PROVE  Final(o)
  <2>1. CASE c >= RequiredConfs
    BY <1>1, <1>3, <1>5, <2>1, Zenon DEF Deep, Final, OutFor
  <2>2. CASE freezes[o].confs >= RequiredConfs
    BY <1>5, <2>2, Zenon DEF Deep
  <2> QED BY <1>3, <1>5, <2>1, <2>2, Zenon DEF Max2
<1>6. /\ freezes'[o].status # "RELEASED" /\ freezes'[o].confs >= RequiredConfs => Final(o)
      /\ freezes'[o].status = "CONFIRMED" => Final(o)
  <2>1. CASE UNCHANGED <<freezes, jobs>>
    BY <2>1, Zenon DEF Deep
  <2>2. CASE notice.status = "CONFIRMED" /\ freezes[o].status # "RELEASED"
    <3> DEFINE confs == Max2(c, freezes[o].confs)
    <3>1. /\ freezes'[o].confs = confs
          /\ freezes'[o].status = "CONFIRMED" =>
               freezes[o].status = "CONFIRMED" \/ confs >= RequiredConfs
      BY <1>2, <2>2, Zenon DEF Delivered, FreezeGoes
    <3> HIDE DEF confs
    <3>2. confs >= RequiredConfs => Final(o)
      BY <1>5, <2>2, Zenon DEF confs
    <3> QED BY <3>1, <3>2, Zenon DEF Deep
  <2>3. CASE freezes'[o].status = "RELEASED"
    BY <2>3, Zenon
  <2> QED BY <1>2, <2>1, <2>2, <2>3, ZenonT(60) DEF Delivered, FreezeGoes
<1>7. ASSUME NEW p \in Orders, p # o
      PROVE  /\ freezes'[p].status # "RELEASED" /\ freezes'[p].confs >= RequiredConfs => Final(p)
             /\ freezes'[p].status = "CONFIRMED" => Final(p)
  BY <1>2, <1>7, Zenon DEF RowsBut, Deep
<1> QED BY <1>2, <1>4, <1>6, <1>7, ZenonT(60) DEF Deep

\* Every step keeps Deep.
LEMMA DeepStep ==
    ASSUME RequiredConfs > 1, Ours, Deep, [DispatchNext]_dvars
    PROVE  Deep'
<1>1. CASE UNCHANGED dvars
  BY <1>1, DeepStays, Zenon DEF dvars, Undeepened
<1>2. ASSUME NEW o \in Orders, Create(o) PROVE Deep'
  <2>1. CASE CreateLookup(o)
    BY <2>1, CreateLookupRows, DeepStays, Zenon DEF Undeepened
  <2>2. CASE CreateQueue(o)
    <3>1. Undeepened
      BY <2>2, CreateQueueRows, Zenon DEF Undeepened, RowsBut, FreezeGoes
    <3> QED BY <3>1, DeepStays, Zenon
  <2> QED BY <1>2, <2>1, <2>2, Zenon DEF Create
<1>3. ASSUME NEW w \in Workers, NEW o \in Orders, Claim(w, o) \/ ClaimStale(w, o) PROVE Deep'
  BY <1>3, ClaimRows, ClaimStaleRows, DeepStays, Zenon DEF Undeepened
<1>4. ASSUME NEW w \in Workers, Work(w) \/ Crash(w) \/ LedgerError(w) PROVE Deep'
  BY <1>4, WorkersUndeepened, DeepStays, Zenon
<1>5. ASSUME NEW t \in Txs, ChainStep(t) PROVE Deep'
  BY <1>5, ChainRows, DeepStays, Zenon DEF Undeepened, ChainBut
<1>6. CASE (\E o \in Orders, t \in Txs : List(o, t)) \/ Look \/ NotifyLost
  <2>1. UNCHANGED <<freezes, chain>> /\ notice' \in NoticeRow /\ RequiredConfs \in Nat
    BY <1>6, NoticeRows, WithdrawAssumption, Zenon DEF Typed
  <2>2. notice'.status = "CONFIRMED" /\ notice'.confs > 1 => chain[notice'.tx].status = "final"
    BY <1>6, NoticeRows, Zenon DEF ReportFair
  <2>3. notice'.confs >= RequiredConfs => notice'.confs > 1
    BY <2>1 DEF NoticeRow
  <2> QED BY <2>1, <2>2, <2>3, Zenon DEF Deep, Final
<1>7. CASE Notify
  BY <1>7, NotifyDeep, Zenon
<1> QED BY <1>1, <1>2, <1>3, <1>4, <1>5, <1>6, <1>7, ZenonT(60) DEF DispatchNext

-----------------------------------------------------------------------------
(***************************************************************************)
(* The promises.                                                           *)
(***************************************************************************)

\* Initially nobody has claimed and nothing is out.
LEMMA DispatchInits == DispatchInit => Ours /\ Claims /\ Turns /\ Quietly
<1> SUFFICES ASSUME DispatchInit PROVE Claims /\ Turns /\ Quietly
  BY OursInit, Zenon
<1> USE DEF DispatchInit, WithdrawInit
<1>1. Claims
  BY DEF Claims, Counted, Leased, OneJobPerSender
<1>2. \A w \in Workers : workers[w].pc = "idle"
  BY Zenon DEF NoWork
<1>3. Turns
  BY <1>2, Zenon DEF Turns, Alone, TurnOf, Queueing
<1>4. \A t \in Txs : ~Out(t)
  BY Zenon DEF Out
<1>5. NotOutYet /\ NothingOut /\ OneNonce /\ Recorded
  BY <1>4, Zenon DEF NotOutYet, NothingOut, OneNonce, Recorded, OutFor
<1>6. ReleasedUnpaid
  BY Zenon DEF ReleasedUnpaid, NoNotice
<1>7. OnlyReplaceable
  BY <1>2, Zenon DEF OnlyReplaceable, Bumping
<1> QED BY <1>1, <1>3, <1>5, <1>6, <1>7, Zenon DEF Quietly, Undisturbed

\* The invariants hold together in every reachable state.
LEMMA DispatchInvariant == DispatchSpec => [](Ours /\ Claims /\ Turns /\ Quietly)
<1> DEFINE Inv == Ours /\ Claims /\ Turns /\ Quietly
<1>1. DispatchInit => Inv
  BY DispatchInits, Zenon
<1>2. Inv /\ [DispatchNext]_dvars => Inv'
  BY OursStep, ClaimsStep, TurnsStep, QuietStep, Zenon
<1> QED BY <1>1, <1>2, PTL DEF DispatchSpec

\* For every set of orders, workers and circumstances: a PROCESSING job that
\* no worker holds carries the lease start its claim looks for, if its order
\* was requested once (ClaimQueuedWithdraw after a crash).
THEOREM StaleJobsHaveLeases == DispatchSpec => []StaleJobHasLease
<1>1. Claims => StaleJobHasLease
  BY Zenon DEF Claims, Leased, StaleJobHasLease
<1> QED BY <1>1, DispatchInvariant, PTL

\* Two jobs of one from_address are never signed and broadcast at the same
\* time while workers keep within their lease (SameSenderActive of the claim).
THEOREM SendersAreSerialized == DispatchSpec => []SenderSerialized
<1>1. ASSUME Ours, Claims, Turns PROVE SenderSerialized
  <2> SUFFICES ASSUME ~setup.slow, NEW v \in Workers, NEW w \in Workers,
                      workers[v].pc \in {"execute", "broadcasted"},
                      workers[w].pc \in {"execute", "broadcasted"},
                      workers[v].order # workers[w].order
               PROVE  Sender[workers[v].order] # Sender[workers[w].order]
    BY Zenon DEF SenderSerialized
  <2>1. TurnOf(v) /\ TurnOf(w)
    BY <1>1, Zenon DEF Turns
  <2>2. workers[v].order \in Orders /\ workers[w].order \in Orders
    BY <1>1, Zenon DEF Ours, WorkersOurs, WorkerOurs
  <2>3. jobs[workers[v].order].status = "PROCESSING" /\ jobs[workers[w].order].status = "PROCESSING"
    BY <2>1, Zenon DEF TurnOf, Queueing
  <2> QED BY <1>1, <2>2, <2>3, Zenon DEF Claims, OneJobPerSender
<1> QED BY <1>1, DispatchInvariant, PTL

\* While nothing goes wrong an order is paid by one transaction at most,
\* through any number of retries and replacements.
THEOREM OrdersArePaidOnce == DispatchSpec => []PaidOnce
<1>1. ASSUME Ours, Quietly PROVE PaidOnce
  <2> SUFFICES ASSUME Calm, NEW o \in Orders PROVE \A t, u \in Paying(o) : t = u
    BY Zenon DEF PaidOnce
  <2> QED
    BY <1>1 DEF Ours, NoncesOurs, Quietly, Undisturbed, OneNonce, Paying, TxsOf, Out
<1> QED BY <1>1, DispatchInvariant, PTL

\* While nothing goes wrong the dispatcher and the scanner give money back
\* only for an order that is not and will not be paid, on every chain but
\* Aptos (ReleaseQueued, FailWithdrawOnChain).
THEOREM CalmReleasesAreUnpaid == DispatchSpec => []CalmReleaseMeansUnpaid
<1>1. ASSUME Ours, Quietly PROVE CalmReleaseMeansUnpaid
  <2> SUFFICES ASSUME Calm, setup.family # "aptos", NEW o \in Orders, freezes[o].status = "RELEASED",
                      NEW t \in TxsOf(o)
               PROVE  \/ chain[t].status \in {"absent", "reverted", "dropped"}
                      \/ chain[t].status = "pending" /\ NonceUsed(t)
    BY Zenon DEF CalmReleaseMeansUnpaid, ReleasedMeansUnpaid
  <2>0. t \in Txs /\ TxOrder[t] = o /\ chain[t].status \in ChainStatus
    BY <1>1, Zenon DEF TxsOf, Ours, Typed, ChainRow
  <2>1. CASE \A u \in Txs : ~OutFor(u, o)
    BY <2>0, <2>1, Zenon DEF OutFor, Out
  <2>2. ASSUME NEW u \in Txs, TxOrder[u] = o, chain[u].status = "reverted", Out(t)
        PROVE  \/ chain[t].status \in {"reverted", "dropped"}
               \/ chain[t].status = "pending" /\ NonceUsed(t)
    <3>1. chain[t].nonce = chain[u].nonce
      BY <1>1, <2>0, <2>2, Zenon DEF Quietly, Undisturbed, OneNonce, Out
    <3>2. NonceUsed(t)
      BY <2>2, <3>1, Zenon DEF NonceUsed, SameNonce
    <3>3. chain[t].status \in {"included", "final"} => t = u
      BY <1>1, <2>0, <2>2, <3>1, ZenonT(60) DEF Ours, NoncesOurs
    <3> QED BY <2>0, <2>2, <3>2, <3>3, ZenonT(60) DEF ChainStatus, Out
  <2> QED BY <1>1, <2>0, <2>1, <2>2, ZenonT(60) DEF Quietly, Undisturbed, ReleasedUnpaid, Out
<1> QED BY <1>1, DispatchInvariant, PTL

\* While nothing goes wrong and no worker is at an order, every transaction
\* of it that may still pay is on the scanner's list, replaced ones included
\* (ListPendingWithdraws).
THEOREM HashesAreWatched == DispatchSpec => []HashesWatched
<1>1. ASSUME Ours, Quietly PROVE HashesWatched
  <2> SUFFICES ASSUME Calm, NEW o \in Orders, freezes[o].status = "BROADCASTED", ~Held(o),
                      NEW t \in TxsOf(o), chain[t].status \notin {"absent", "reverted", "dropped"}
               PROVE  Listed(o, t)
    BY Zenon DEF HashesWatched
  <2>1. t \in Txs /\ OutFor(t, o)
    BY Zenon DEF TxsOf, OutFor, Out
  <2>2. attempts[o][t] \in {"BROADCASTED", "REPLACED"}
    BY <1>1, <2>1, ZenonT(60) DEF Quietly, Undisturbed, Recorded, Held
  <2> QED BY <2>2, Zenon DEF Listed
<1> QED BY <1>1, DispatchInvariant, PTL

\* Where the policy asks for more than one confirmation, a withdrawal is
\* settled as paid only when one of its transactions is final, whatever
\* crashes, fails or comes late and whichever adapter is asked
\* (ConfirmWithdrawOnChain).
THEOREM ConfirmedOrdersArePaid ==
    ASSUME RequiredConfs > 1
    PROVE  DispatchSpec => []ConfirmedMeansPaid
<1> DEFINE Inv == Ours /\ Deep
<1>1. DispatchInit => Inv
  <2> SUFFICES ASSUME DispatchInit PROVE Deep
    BY OursInit, Zenon
  <2> QED BY WithdrawAssumption, SMTT(60) DEF Deep, DispatchInit, WithdrawInit, NoNotice
<1>2. Inv /\ [DispatchNext]_dvars => Inv'
  BY OursStep, DeepStep, Zenon
<1>3. Inv => ConfirmedMeansPaid
  BY Zenon DEF Deep, Final, ConfirmedMeansPaid, TxsOf
<1> QED BY <1>1, <1>2, <1>3, PTL DEF DispatchSpec
=============================================================================
