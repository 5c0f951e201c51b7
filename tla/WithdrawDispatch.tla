-------------------------- MODULE WithdrawDispatch --------------------------
(***************************************************************************)
(* A withdrawal from the HTTP request to its settlement: the create        *)
(* handler, the dispatcher's workers (dispatcher/withdraw.go and           *)
(* withdraw_accelerate.go over orchestrator/withdraw_create.go), the chain *)
(* (external) and the scanner that reports what it finds there             *)
(* (scan-account-service worker/scanner_outgoing.go; scan-utxo-service     *)
(* does not run its copy of that code), over the tables of WithdrawLedger. *)
(*                                                                         *)
(* A worker is the goroutine that handles one claimed job.  Between two of *)
(* its steps other workers, requests and notifications run; a crash loses  *)
(* what it holds in memory and leaves the tables as they are.              *)
(***************************************************************************)
EXTENDS WithdrawLedger, ChainAnswers

CONSTANTS
    Workers,
    NoOrder,
    TxOrder,        \* the order each transaction pays
    MaxAttempts,    \* MaxAttempts of the dispatcher
    Setups          \* the circumstances to look at: see SetupType

\* funds is the balance the account starts with; maxRequests bounds the create
\* requests for an order and maxFaults the faults, of kinds faultKinds.  Workers
\* that are slow may outlive their lease; a mined transaction reverts, and a
\* block is thrown out or a pending transaction dropped, where the field says so.
SetupType ==
    [funds : Nat, maxRequests : [Orders -> Nat],
     faultKinds : SUBSET {"crash", "db", "lost"}, maxFaults : Nat,
     slow : BOOLEAN, reverts : BOOLEAN, drops : BOOLEAN, family : Families]

ASSUME DispatchAssumption ==
    /\ TxOrder \in [Txs -> Orders]
    /\ NoOrder \notin Orders
    /\ MaxAttempts \in Nat \ {0}
    /\ Setups \subseteq SetupType

VARIABLES
    setup,      \* one of Setups, for good
    workers,    \* what each worker holds and where it is
    chain,      \* the transactions that were broadcast
    notice,     \* what the scanner has in hand: a listed attempt, or a report of it
    creating,   \* create requests past their look-up, before QueueWithdraw
    requests,   \* create requests so far
    faults

dvars == <<setup, bal, journal, freezes, jobs, attempts, workers, chain, notice,
           creating, requests, faults>>
ledger == <<bal, journal, freezes, jobs, attempts>>
outside == <<setup, chain, notice, creating, requests>>

WorkerPC == {"idle", "execute", "broadcasted", "confirmed", "failed", "released",
             "bump", "unbumped", "replaced"}
NoWork == [pc |-> "idle", order |-> NoOrder, old |-> NoTx, tx |-> NoTx, attempt |-> 0]
NoNotice == [order |-> NoOrder, tx |-> NoTx, status |-> "NONE", confs |-> 0]

\* A transaction's nonce is named after the first transaction that used it.
ChainStatus == {"absent", "pending", "included", "final", "reverted", "dropped"}

DispatchTypeOK ==
    /\ bal \in BalanceType
    /\ WithdrawTypeOK
    /\ workers \in [Workers -> [pc : WorkerPC, order : Orders \cup {NoOrder},
                                old : Txs \cup {NoTx}, tx : Txs \cup {NoTx}, attempt : Nat]]
    /\ chain \in [Txs -> [status : ChainStatus, nonce : Txs \cup {NoTx}]]
    /\ notice \in [order : Orders \cup {NoOrder}, tx : Txs \cup {NoTx},
                   status : {"NONE", "BROADCASTED", "REPLACED", "CONFIRMED", "FAILED"}, confs : Int]
    /\ creating \in [Orders -> Nat]
    /\ requests \in [Orders -> Nat]
    /\ faults \in Nat

\* The account holds money that earlier deposits brought and finalized.
DispatchInit ==
    /\ setup \in Setups
    /\ bal = Row(setup.funds, 0, 0)
    /\ journal = {}
    /\ WithdrawInit
    /\ workers = [w \in Workers |-> NoWork]
    /\ chain = [t \in Txs |-> [status |-> "absent", nonce |-> NoTx]]
    /\ notice = NoNotice
    /\ creating = [o \in Orders |-> 0]
    /\ requests = [o \in Orders |-> 0]
    /\ faults = 0

\* Another fault of this kind may happen.
MayFail(kind) == kind \in setup.faultKinds /\ faults < setup.maxFaults

-----------------------------------------------------------------------------
(* WithdrawHandler.Create: look the order up, then queue it. *)

\* An order that exists is answered from its row.
CreateLookup(o) ==
    /\ requests[o] < setup.maxRequests[o]
    /\ requests' = [requests EXCEPT ![o] = @ + 1]
    /\ creating' = IF freezes[o].status = "NONE"
                   THEN [creating EXCEPT ![o] = @ + 1] ELSE creating
    /\ UNCHANGED <<ledger, workers, chain, notice, faults, setup>>

QueueRefused(o) ==
    \/ freezes[o].status = "RELEASED"
    \/ freezes[o].status = "NONE" /\ ~CanSub(Withdrawable(bal), Amount[o])

CreateQueue(o) ==
    /\ creating[o] > 0
    /\ creating' = [creating EXCEPT ![o] = @ - 1]
    /\ \/ QueueWithdraw(o)
       \/ QueueRefused(o) /\ UNCHANGED ledger
    /\ UNCHANGED <<workers, chain, notice, requests, faults, setup>>

-----------------------------------------------------------------------------
(* The chain, as the code uses it. *)

SameNonce(t) == {u \in Txs : chain[u].nonce = chain[t].nonce}
NonceUsed(t) == \E u \in SameNonce(t) : chain[u].status \in {"included", "final", "reverted"}

Fresh(o) == {t \in Txs : TxOrder[t] = o /\ chain[t].status = "absent"}

Broadcast(t, nonce) == chain' = [chain EXCEPT ![t] = [status |-> "pending", nonce |-> nonce]]

SetChain(t, st) ==
    /\ chain' = [chain EXCEPT ![t].status = st]
    /\ UNCHANGED <<ledger, workers, notice, creating, requests, faults, setup>>

\* One transaction of a nonce is mined.
Mine(t) ==
    /\ chain[t].status = "pending"
    /\ ~NonceUsed(t)
    /\ \/ SetChain(t, "included")
       \/ setup.reverts /\ SetChain(t, "reverted")

Finalize(t) == chain[t].status = "included" /\ SetChain(t, "final")
Reorg(t) == setup.drops /\ chain[t].status \in {"included", "reverted"} /\ SetChain(t, "pending")
Vanish(t) == setup.drops /\ chain[t].status = "pending" /\ SetChain(t, "dropped")

-----------------------------------------------------------------------------
(* handleJob. *)

Held(o) == \E w \in Workers : workers[w].order = o

\* A lease runs out when its worker is gone, or, if workers may be slow, at
\* any time.
LeaseOver(o) == setup.slow \/ ~Held(o)

At(w, pc) == workers[w].pc = pc
Goto(w, pc) == workers' = [workers EXCEPT ![w].pc = pc]
Idle(w) == workers' = [workers EXCEPT ![w] = NoWork]

Claim(w, o) ==
    /\ At(w, "idle")
    /\ jobs[o].status = "PROCESSING" => LeaseOver(o)
    /\ ClaimQueuedWithdraw(o)
    /\ workers' = [workers EXCEPT ![w] = [NoWork EXCEPT
                     !.pc = "execute", !.order = o, !.attempt = jobs[o].attempts + 1]]
    /\ UNCHANGED <<outside, faults>>

\* Building, signing or broadcasting fails, or the transaction is out.  A
\* lost answer leaves the transaction out and the call failed.
Execute(w) ==
    /\ At(w, "execute")
    /\ \/ /\ Goto(w, "failed")
          /\ UNCHANGED <<chain, faults>>
       \/ \E t \in Fresh(workers[w].order) :
            /\ Broadcast(t, t)
            /\ \/ /\ workers' = [workers EXCEPT ![w].pc = "broadcasted", ![w].tx = t]
                  /\ UNCHANGED faults
               \/ /\ MayFail("lost")
                  /\ Goto(w, "failed")
                  /\ faults' = faults + 1
    /\ UNCHANGED <<ledger, notice, creating, requests, setup>>

\* ConfirmWithdraw refuses an order that was released in the meantime.
Confirm(w) ==
    /\ At(w, "broadcasted")
    /\ \/ ConfirmWithdraw(workers[w].order, workers[w].tx) /\ Goto(w, "confirmed")
       \/ /\ freezes[workers[w].order].status = "RELEASED"
          /\ UNCHANGED ledger
          /\ Goto(w, "failed")
    /\ UNCHANGED <<outside, faults>>

MarkDone(w) ==
    /\ At(w, "confirmed")
    /\ MarkQueuedWithdrawDone(workers[w].order, workers[w].tx)
    /\ Idle(w)
    /\ UNCHANGED <<outside, faults>>

Retries(w) == workers[w].attempt < MaxAttempts

Reschedule(w) ==
    /\ At(w, "failed") /\ Retries(w)
    /\ RescheduleQueuedWithdraw(workers[w].order)
    /\ Idle(w)
    /\ UNCHANGED <<outside, faults>>

\* Fault: the job is closed and the freeze is left.
ReleaseQueuedForgotten(w) ==
    /\ At(w, "failed") /\ ~Retries(w)
    /\ UNCHANGED ledger
    /\ Goto(w, "released")
    /\ UNCHANGED <<outside, faults>>

\* A refused release is only logged.
ReleaseQueued(w) ==
    /\ At(w, "failed") /\ ~Retries(w)
    /\ \/ ReleaseWithdraw(workers[w].order)
       \/ freezes[workers[w].order].status = "CONFIRMED" /\ UNCHANGED ledger
    /\ Goto(w, "released")
    /\ UNCHANGED <<outside, faults>>

MarkFailed(w) ==
    /\ At(w, "released")
    /\ MarkQueuedWithdrawFailed(workers[w].order)
    /\ Idle(w)
    /\ UNCHANGED <<outside, faults>>

-----------------------------------------------------------------------------
(* handleAcceleration. *)

\* Only EVM transactions are replaced.
ClaimStale(w, o) ==
    /\ At(w, "idle")
    /\ setup.family \in {"evm", "token", "lagging"}
    /\ jobs[o].status = "ACCELERATING" => LeaseOver(o)
    /\ ClaimStaleBroadcastedWithdraw(o)
    /\ workers' = [workers EXCEPT ![w] = [NoWork EXCEPT
                     !.pc = "bump", !.order = o, !.old = jobs[o].tx, !.tx = jobs[o].payload]]
    /\ UNCHANGED <<outside, faults>>

\* Fault: the replacement is built with a nonce of its own.
SpeedUpFreshNonce(w) ==
    /\ At(w, "bump")
    /\ \E t \in Fresh(workers[w].order) :
         /\ Broadcast(t, t)
         /\ workers' = [workers EXCEPT ![w].pc = "replaced", ![w].tx = t]
    /\ UNCHANGED <<ledger, notice, creating, requests, faults, setup>>

\* The replacement reuses the nonce of the stored payload.  A node refuses
\* it once that nonce is mined.
SpeedUp(w) ==
    /\ At(w, "bump")
    /\ \/ /\ Goto(w, "unbumped")
          /\ UNCHANGED <<chain, faults>>
       \/ \E t \in Fresh(workers[w].order) :
            /\ ~NonceUsed(workers[w].tx)
            /\ Broadcast(t, chain[workers[w].tx].nonce)
            /\ \/ /\ workers' = [workers EXCEPT ![w].pc = "replaced", ![w].tx = t]
                  /\ UNCHANGED faults
               \/ /\ MayFail("lost")
                  /\ Goto(w, "unbumped")
                  /\ faults' = faults + 1
    /\ UNCHANGED <<ledger, notice, creating, requests, setup>>

ResetBumped(w) ==
    /\ At(w, "unbumped")
    /\ ResetBroadcastedWithdraw(workers[w].order)
    /\ Idle(w)
    /\ UNCHANGED <<outside, faults>>

Replace(w) ==
    /\ At(w, "replaced")
    /\ ReplaceBroadcastedWithdraw(workers[w].order, workers[w].old, workers[w].tx)
    /\ Idle(w)
    /\ UNCHANGED <<outside, faults>>

-----------------------------------------------------------------------------
(* Faults: a crash anywhere, a ledger call that fails. *)

Crash(w) ==
    /\ MayFail("crash")
    /\ ~At(w, "idle")
    /\ Idle(w)
    /\ faults' = faults + 1
    /\ UNCHANGED <<ledger, outside>>

\* Where each step goes when its ledger call returns an error.
LedgerError(w) ==
    /\ MayFail("db")
    /\ \/ At(w, "broadcasted") /\ Goto(w, "failed")
       \/ At(w, "failed") /\ ~Retries(w) /\ Goto(w, "released")
       \/ At(w, "failed") /\ Retries(w) /\ Idle(w)
       \/ workers[w].pc \in {"confirmed", "released", "unbumped", "replaced"} /\ Idle(w)
    /\ faults' = faults + 1
    /\ UNCHANGED <<ledger, outside>>

-----------------------------------------------------------------------------
(* The scanner: scanOutgoingConfirmations, then WithdrawOnchainNotify. *)

\* Fault: replaced attempts are not listed.
ListedCurrentOnly(o, t) ==
    /\ freezes[o].status = "BROADCASTED"
    /\ attempts[o][t] = "BROADCASTED"

\* ListPendingWithdraws: the attempts of open orders.
Listed(o, t) ==
    /\ freezes[o].status = "BROADCASTED"
    /\ attempts[o][t] \in {"BROADCASTED", "REPLACED"}

\* The list is read first, with the attempt's status; the chain is asked
\* later, transaction by transaction.
List(o, t) ==
    /\ notice = NoNotice
    /\ Listed(o, t)
    /\ notice' = [order |-> o, tx |-> t, status |-> attempts[o][t], confs |-> 0]
    /\ UNCHANGED <<ledger, workers, chain, creating, requests, faults, setup>>

Answer(st, c) == [status |-> st, confs |-> c]

\* The transaction as the node shows it.
Shown(t) ==
    CASE chain[t].status \in {"absent", "dropped"} -> Unknown
      [] chain[t].status = "pending" -> Pooled
      [] chain[t].status = "included" -> InBlock(1, TRUE)
      [] chain[t].status = "final" -> InBlock(FinalDepth + RequiredConfs, TRUE)
      [] chain[t].status = "reverted" -> InBlock(FinalDepth, FALSE)

\* Fault: a transaction that was found is taken for confirmed for good.
FindingEarly(f) == Answer("CONFIRMED", RequiredConfs)

\* Fault: a transaction that is not mined yet is taken for failed.
FindingHasty(f) ==
    IF f.status = "CONFIRMED" THEN Answer("CONFIRMED", f.confs) ELSE Answer("FAILED", f.confs)

\* scanOutgoingConfirmations: what it makes of an answer.
Finding(f) ==
    CASE f.status \in {"REVERTED", "FAILED"} -> Answer("FAILED", f.confs)
      [] f.status = "PENDING" -> Answer("NONE", 0)
      [] OTHER -> Answer("CONFIRMED", f.confs)

\* A replaced transaction is reported only when it is mined and good.  A call
\* that fails is skipped.
Look ==
    /\ notice.status \in {"BROADCASTED", "REPLACED"}
    /\ LET reports == {Finding(f) : f \in TxFinality(setup.family, Shown(notice.tx))}
       IN \E f \in IF reports = {} THEN {Answer("NONE", 0)} ELSE reports :
            notice' = IF f.status = "NONE" \/ (f.status = "FAILED" /\ notice.status = "REPLACED")
                      THEN NoNotice
                      ELSE [notice EXCEPT !.status = f.status, !.confs = f.confs]
    /\ UNCHANGED <<ledger, workers, chain, creating, requests, faults, setup>>

\* The ledger refuses a confirmation of a released order.
Notify ==
    /\ notice.status \in {"CONFIRMED", "FAILED"}
    /\ notice' = NoNotice
    /\ LET o == notice.order IN
       \/ notice.status = "CONFIRMED" /\ ConfirmWithdrawOnChain(o, notice.tx, notice.confs)
       \/ notice.status = "CONFIRMED" /\ freezes[o].status = "RELEASED" /\ UNCHANGED ledger
       \/ notice.status = "FAILED" /\ FailWithdrawOnChain(o, notice.tx, notice.confs)
    /\ UNCHANGED <<workers, chain, creating, requests, faults, setup>>

NotifyLost ==
    /\ MayFail("lost")
    /\ notice # NoNotice
    /\ notice' = NoNotice
    /\ faults' = faults + 1
    /\ UNCHANGED <<ledger, workers, chain, creating, requests, setup>>

-----------------------------------------------------------------------------
Create(o) == CreateLookup(o) \/ CreateQueue(o)

Work(w) ==
    \/ Execute(w) \/ Confirm(w) \/ MarkDone(w)
    \/ Reschedule(w) \/ ReleaseQueued(w) \/ MarkFailed(w)
    \/ SpeedUp(w) \/ ResetBumped(w) \/ Replace(w)

ChainStep(t) == Mine(t) \/ Finalize(t) \/ Reorg(t) \/ Vanish(t)

DispatchNext ==
    \/ \E o \in Orders : Create(o)
    \/ \E w \in Workers, o \in Orders : Claim(w, o) \/ ClaimStale(w, o)
    \/ \E w \in Workers : Work(w) \/ Crash(w) \/ LedgerError(w)
    \/ \E t \in Txs : ChainStep(t)
    \/ \E o \in Orders, t \in Txs : List(o, t)
    \/ Look \/ Notify \/ NotifyLost

DispatchSpec == DispatchInit /\ [][DispatchNext]_dvars

\* The ticker claims for ever, a claimed job is worked on, the scanner goes
\* through its whole list at every tick (a transaction pays one order), and a pending
\* transaction is mined unless another of its nonce is.
Fairness ==
    /\ \A o \in Orders : WF_dvars(CreateQueue(o)) /\ WF_dvars(\E w \in Workers : Claim(w, o))
    /\ \A w \in Workers : WF_dvars(Work(w))
    /\ \A t \in Txs : WF_dvars(Mine(t) \/ Finalize(t))
    /\ \A t \in Txs : SF_dvars(List(TxOrder[t], t))
    /\ WF_dvars(Look \/ Notify)

FairDispatchSpec == DispatchSpec /\ Fairness

-----------------------------------------------------------------------------
TxsOf(o) == {t \in Txs : TxOrder[t] = o}
Paying(o) == {t \in TxsOf(o) : chain[t].status \in {"included", "final"}}

\* Nothing has gone wrong: no fault, no lease outlived, no second request and
\* no block thrown out.
Calm ==
    /\ faults = 0
    /\ ~setup.slow /\ ~setup.drops
    /\ \A o \in Orders : requests[o] <= 1

\* A withdrawal is settled as paid (ConfirmWithdrawOnChain) only when one of
\* its transactions is final, whatever crashes, fails or comes late and
\* whichever chain's adapter is asked.
ConfirmedMeansPaid ==
    \A o \in Orders : freezes[o].status = "CONFIRMED" =>
       \E t \in TxsOf(o) : chain[t].status = "final"

\* The dispatcher gives the money back (ReleaseQueued, FailWithdrawOnChain)
\* only for an order that is not and will not be paid on the chain.
ReleasedMeansUnpaid ==
    \A o \in Orders : freezes[o].status = "RELEASED" =>
       \A t \in TxsOf(o) :
         \/ chain[t].status \in {"absent", "reverted", "dropped"}
         \/ chain[t].status = "pending" /\ NonceUsed(t)

\* While nothing goes wrong the dispatcher and the scanner give money back only
\* for an order that is not paid, on every chain but Aptos, whose adapter
\* reads a pending transaction as a failed one.
CalmReleaseMeansUnpaid ==
    Calm /\ setup.family # "aptos" => ReleasedMeansUnpaid

\* While nothing goes wrong an order is paid by one transaction at most:
\* retries happen before a broadcast and replacements share its nonce.
PaidOnce ==
    Calm => \A o \in Orders : \A t, u \in Paying(o) : t = u

\* Two jobs of one from_address are never signed and broadcast at the same
\* time, so they do not ask the chain for the same pending nonce, unless a
\* worker outlives its lease.
SenderSerialized ==
    ~setup.slow =>
    \A v, w \in Workers :
      /\ workers[v].pc \in {"execute", "broadcasted"}
      /\ workers[w].pc \in {"execute", "broadcasted"}
      /\ workers[v].order # workers[w].order
      => Sender[workers[v].order] # Sender[workers[w].order]

\* "stale PROCESSING jobs are re-claimed after lease timeout": a PROCESSING
\* job that no worker holds carries the lease start that the claim looks
\* for, if its order was requested once (a second QueueWithdraw clears it).
StaleJobHasLease ==
    \A o \in Orders :
      jobs[o].status = "PROCESSING" /\ ~Held(o) /\ requests[o] <= 1 => jobs[o].leased

\* "scan-service watches both current and replaced hashes": while nothing goes
\* wrong and no worker is at an order, every transaction of it that may still
\* pay is on the scanner's list.
HashesWatched ==
    Calm => \A o \in Orders : freezes[o].status = "BROADCASTED" /\ ~Held(o) =>
       \A t \in TxsOf(o) :
         \/ chain[t].status \in {"absent", "reverted", "dropped"}
         \/ chain[t].status = "pending" /\ NonceUsed(t)
         \/ Listed(o, t)

\* The scanner passes over a replaced transaction that reverted.
ReplacedReverted(o) ==
    \E t \in TxsOf(o) : attempts[o][t] = "REPLACED" /\ chain[t].status = "reverted"

\* A frozen order is paid or released in the end, through retries,
\* replacements and whichever hash the chain mines, unless the hash that used
\* the nonce is a replaced one that reverted.  It holds where the adapter
\* counts confirmations, while nothing goes wrong.
OrderSettles ==
    \A o \in Orders : (Calm /\ setup.family \in Counting /\ freezes[o].status = "FROZEN") ~>
       freezes[o].status \in {"CONFIRMED", "RELEASED"} \/ ReplacedReverted(o) \/ ~Calm
=============================================================================
