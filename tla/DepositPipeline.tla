-------------------------- MODULE DepositPipeline --------------------------
(***************************************************************************)
(* A deposit from the chain to the ledger: scan-account-service scans and  *)
(* reconciles (worker/scanner_deposit.go, scanner_reorg.go), stores what   *)
(* it saw in scan_seen_events, stages an event in scan_event_outbox        *)
(* (store/postgres.go) and dispatches it (scanner_outbox.go) to            *)
(* wallet-core's CreditDeposit, the ledger of DepositLedger.               *)
(*                                                                         *)
(* A deposit is a (transaction, event index) pair, as in its order id and  *)
(* its outbox key; a transaction that is mined again may get another       *)
(* index.  A scanner is one instance of a service: its tick runs one step  *)
(* after the other, each with its own database call.  On the UTXO chains   *)
(* scan-utxo-service lists the deposits, in the same two tables, and       *)
(* scan-account-service reconciles and dispatches them like its own.       *)
(***************************************************************************)
EXTENDS DepositLedger, ChainAnswers

CONSTANTS
    Scanners,
    Transactions, TxOf,     \* the transaction of each deposit
    NoDeposit,
    ReorgWindow,
    NotFoundThreshold,      \* ReorgNotFoundThreshold
    MaxTries,               \* max_attempts of an outbox event
    MaxDepth,               \* bound: confirmations are counted up to this
    Setups                  \* the deployments and bounds to look at: see SetupType

\* Which scanners are instances of scan-account-service and of
\* scan-utxo-service, what kind of chain they scan, and bounds: which of
\* "crash", "refused", "lost" and "db" may happen, how often, and how often
\* transactions are thrown out.
SetupType == [scanners : SUBSET Scanners, utxo : SUBSET Scanners, family : Families,
              faultKinds : SUBSET {"crash", "refused", "lost", "db"}, maxFaults : Nat,
              maxReorgs : Nat]

ASSUME PipelineAssumption ==
    /\ TxOf \in [Deposits -> Transactions]
    /\ NoDeposit \notin Deposits
    /\ ReorgWindow \in Nat
    /\ {NotFoundThreshold, MaxTries} \subseteq Nat \ {0}
    /\ Setups \subseteq SetupType

VARIABLES
    setup,      \* the one of Setups
    chain,      \* each transaction: see ChainType
    deepest,    \* history: the most confirmations a transaction ever had
    undone,     \* history: which transactions were thrown out, which failed
    seen,       \* scan_seen_events
    outbox,     \* scan_event_outbox: the DEPOSIT_NOTIFY event of each deposit
    announced,  \* deposits with a PROJECT_DEPOSIT_NOTIFY and a SWEEP_TRIGGER event
    hands,      \* what each scanner is at and holds
    reorgs, faults

ledgerVars == <<bal, journal, deposits>>
chainVars == <<chain, deepest, undone, reorgs>>
pvars == <<setup, ledgerVars, chainVars, announced, seen, outbox, hands, faults>>

\* confs is -1 for a transaction the node does not know and 0 for one that is
\* not mined; at is the deposit its index makes it, raw the node's verdict;
\* ahead says that its block is above the scan checkpoint.
ChainType == [confs : Int, at : Deposits \cup {NoDeposit}, raw : {"OK", "REVERTED"},
              ahead : BOOLEAN]
NotMined(confs) == [confs |-> confs, at |-> NoDeposit, raw |-> "OK", ahead |-> FALSE]

\* The payload of scan-utxo-service has no scan status, no unlock threshold and
\* asks for no follow-ups.
NoEvent == [scan |-> "BLANK", status |-> "BLANK", confs |-> 0]
EventType == [scan : ScanStatus \cup {"BLANK"}, status : LedgerStatus \cup {"BLANK"}, confs : Int]

\* count is the not_found_count or the attempt_count of the row that was read;
\* scan says that the work belongs to a scan, found what TxFinality said.
Idle == [pc |-> "idle", dep |-> NoDeposit, event |-> NoEvent, count |-> 0, scan |-> FALSE,
         found |-> TRUE]

PipelineTypeOK ==
    /\ bal \in BalanceType
    /\ DepositTypeOK
    /\ chain \in [Transactions -> ChainType]
    /\ seen \in [Deposits -> [status : ScanStatus \cup {"NONE"}, confs : Int, misses : Nat]]
    /\ outbox \in [Deposits -> [status : {"NONE", "PENDING", "DONE", "FAILED"},
                                event : EventType, tries : Nat]]
    /\ announced \subseteq Deposits
    /\ hands \in [Scanners -> [pc : {"idle", "note", "upsert", "enqueue", "checkpoint",
                                     "deliver", "follow", "done", "retry"},
                               dep : Deposits \cup {NoDeposit}, event : EventType,
                               count : Nat, scan : BOOLEAN, found : BOOLEAN]]

PipelineInit ==
    /\ setup \in Setups
    /\ bal = NoBalance
    /\ journal = {}
    /\ DepositInit
    /\ chain = [x \in Transactions |-> NotMined(-1)]
    /\ deepest = [x \in Transactions |-> 0]
    /\ undone = {}
    /\ seen = [d \in Deposits |-> [status |-> "NONE", confs |-> 0, misses |-> 0]]
    /\ outbox = [d \in Deposits |-> [status |-> "NONE", event |-> NoEvent, tries |-> 0]]
    /\ announced = {}
    /\ hands = [i \in Scanners |-> Idle]
    /\ reorgs = 0
    /\ faults = 0

-----------------------------------------------------------------------------
(* The chain, and how chain-gateway shows it. *)

Mined(x) == chain[x].confs >= 1

Shown(x) ==
    CASE chain[x].confs = -1 -> Unknown
      [] chain[x].confs = 0 -> Pooled
      [] chain[x].confs >= 1 -> InBlock(chain[x].confs, chain[x].raw = "OK")

\* A transaction of a UTXO chain has no failure.
Outcomes == IF setup.family \in Unspents THEN {"OK"} ELSE {"OK", "REVERTED"}

\* A transaction succeeds or fails in its block; one that was thrown out may
\* come back in a block the scan has already passed.
Include(d) ==
    LET x == TxOf[d] IN
    /\ ~Mined(x)
    /\ \E raw \in Outcomes, ahead \in {TRUE, <<x, "orphaned">> \notin undone} :
         /\ chain' = [chain EXCEPT ![x] = [confs |-> 1, at |-> d, raw |-> raw, ahead |-> ahead]]
         /\ deepest' = [deepest EXCEPT ![x] = IF raw = "OK" /\ @ = 0 THEN 1 ELSE @]
         /\ undone' = IF raw = "OK" THEN undone ELSE undone \cup {<<x, "failed">>}
    /\ UNCHANGED <<setup, ledgerVars, seen, outbox, announced, hands, reorgs, faults>>

Deepen(x) ==
    /\ Mined(x) /\ chain[x].confs < MaxDepth
    /\ chain' = [chain EXCEPT ![x].confs = @ + 1]
    /\ deepest' = [deepest EXCEPT ![x] = IF chain[x].raw = "OK" /\ @ <= chain[x].confs
                                         THEN chain[x].confs + 1 ELSE @]
    /\ UNCHANGED <<setup, ledgerVars, undone, reorgs, seen, outbox, announced, hands, faults>>

\* A block is thrown out before it is deep enough to unlock a deposit: its
\* transaction is pending again, or gone.
Reorg(x) ==
    /\ reorgs < setup.maxReorgs
    /\ Mined(x) /\ chain[x].confs < UnlockConfs
    /\ \E c \in {-1, 0} : chain' = [chain EXCEPT ![x] = NotMined(c)]
    /\ undone' = undone \cup {<<x, "orphaned">>}
    /\ reorgs' = reorgs + 1
    /\ UNCHANGED <<setup, ledgerVars, deepest, seen, outbox, announced, hands, faults>>

-----------------------------------------------------------------------------
(* Scanning and reconciling: look at the chain, upsert scan_seen_events,    *)
(* stage the event.                                                         *)

At(i, pc) == hands[i].pc = pc
Goto(i, pc) == hands' = [hands EXCEPT ![i].pc = pc]
Rest(i) == hands' = [hands EXCEPT ![i] = Idle]
Leave(i) == IF hands[i].scan THEN Goto(i, "checkpoint") ELSE Rest(i)

EventOf(scan, confs) ==
    [scan |-> scan, status |-> MapDepositLedgerStatus(scan), confs |-> confs]

\* An answer f, as the status of a deposit.
Sight(f) ==
    EventOf(ResolveDepositScanStatus(f.status, f.confs, CreditConfs, UnlockConfs, ReorgWindow),
            f.confs)

Take(i, pc, d, event, count, scan, found) ==
    /\ At(i, "idle")
    /\ hands' = [hands EXCEPT ![i] = [pc |-> pc, dep |-> d, event |-> event, count |-> count,
                                      scan |-> scan, found |-> found]]
    /\ UNCHANGED <<setup, ledgerVars, chainVars, seen, outbox, announced, faults>>

\* The families whose listing has a cursor that moves past what was listed.
Cursored == {"evm", "token", "lagging", "solana"}

\* The scan lists a transaction with its index.
Scan(i, d) ==
    /\ i \in setup.scanners /\ setup.family \notin Unspents
    /\ Mined(TxOf[d]) /\ chain[TxOf[d]].at = d
    /\ setup.family \in Cursored => chain[TxOf[d]].ahead
    /\ \E f \in IncomingTransfers(setup.family, Shown(TxOf[d])) :
         Take(i, "upsert", d, Sight(f), 0, TRUE, TRUE)

\* scan-utxo-service lists the unspent outputs, always from the start.
ScanUnspent(i, d) ==
    /\ i \in setup.utxo /\ setup.family \in Unspents
    /\ Mined(TxOf[d]) => chain[TxOf[d]].at = d
    /\ \E f \in IncomingTransfers(setup.family, Shown(TxOf[d])) :
         Take(i, "upsert", d,
              [scan |-> "BLANK", status |-> ResolveDepositStatus(f.status, f.confs, CreditConfs),
               confs |-> f.confs], 0, TRUE, TRUE)

\* ListReorgCandidates, then TxFinality of the transaction, at whatever index.
Candidate(d) ==
    /\ seen[d].status \notin {"NONE", "REORGED"}
    /\ \/ seen[d].misses > 0
       \/ seen[d].confs < RaisedUnlock(UnlockConfs, AtLeastOne(CreditConfs))

Reconcile(i, d) ==
    /\ i \in setup.scanners
    /\ Candidate(d)
    /\ \E f \in TxFinality(setup.family, Shown(TxOf[d])) :
         Take(i, "note", d, IF f.found THEN Sight(f) ELSE EventOf("REORGED", 0),
              seen[d].misses, FALSE, f.found)

\* ResetSeenEventNotFound, when misses were counted, or
\* IncrementSeenEventNotFound: the deposit is given up at the threshold.  As
\* Finality says of every transaction that it was found, this does not happen.
Note(i) ==
    /\ At(i, "note")
    /\ LET d == hands[i].dep
           misses == seen[d].misses + 1
       IN IF hands[i].found
          THEN /\ seen' = [seen EXCEPT ![d].misses = IF hands[i].count > 0 THEN 0 ELSE @]
               /\ Goto(i, "upsert")
          ELSE /\ seen' = [seen EXCEPT ![d].misses = misses]
               /\ IF misses >= NotFoundThreshold THEN Goto(i, "upsert") ELSE Rest(i)
    /\ UNCHANGED <<setup, ledgerVars, chainVars, outbox, announced, faults>>

\* The status a row of scan_seen_events gets.
SeenStatus(e) == IF e.scan = "BLANK" THEN e.status ELSE e.scan

\* Only a new row, another status or more confirmations are stored and
\* passed on.
UpsertSeenEvent(i) ==
    /\ At(i, "upsert")
    /\ LET d == hands[i].dep
           e == hands[i].event
       IN IF \/ seen[d].status = "NONE"
             \/ SeenStatus(e) # seen[d].status
             \/ e.confs > seen[d].confs
          THEN /\ seen' = [seen EXCEPT ![d] = [status |-> SeenStatus(e), confs |-> e.confs,
                                           misses |-> 0]]
               /\ Goto(i, "enqueue")
          ELSE Leave(i) /\ UNCHANGED seen
    /\ UNCHANGED <<setup, ledgerVars, chainVars, outbox, announced, faults>>

\* UpsertOutboxEvent keeps one row for all events of a deposit: in
\* scan-account-service a row that is DONE or FAILED stays as it is, in
\* scan-utxo-service every event is PENDING again.
UpsertUnspentEvent(box, e) == [status |-> "PENDING", event |-> e, tries |-> 0]
UpsertOutboxEvent(box, e) ==
    IF box.status \in {"DONE", "FAILED"} THEN box ELSE [status |-> "PENDING", event |-> e, tries |-> 0]

Enqueue(i) ==
    /\ At(i, "enqueue")
    /\ LET d == hands[i].dep IN
       outbox' = [outbox EXCEPT ![d] = IF i \in setup.utxo THEN UpsertUnspentEvent(@, hands[i].event)
                                       ELSE UpsertOutboxEvent(@, hands[i].event)]
    /\ Leave(i)
    /\ UNCHANGED <<setup, ledgerVars, chainVars, seen, announced, faults>>

\* UpsertChainCheckpoint moves past the block that was listed; a transaction
\* that was mined again since may be above it.
Checkpoint(i) ==
    /\ At(i, "checkpoint")
    /\ LET x == TxOf[hands[i].dep] IN
       \E ahead \in {FALSE, chain[x].ahead /\ <<x, "orphaned">> \in undone} :
         chain' = [chain EXCEPT ![x].ahead = ahead]
    /\ Rest(i)
    /\ UNCHANGED <<setup, ledgerVars, deepest, undone, reorgs, seen, outbox, announced, faults>>

-----------------------------------------------------------------------------
(* dispatchOutbox. *)

\* The row is read, not locked: ListPendingOutboxEvents runs outside a
\* transaction.
Fetch(i, d) ==
    /\ i \in setup.scanners
    /\ outbox[d].status = "PENDING"
    /\ Take(i, "deliver", d, outbox[d].event, outbox[d].tries, FALSE, TRUE)

\* A request without an unlock threshold never makes a deposit final.
Notified(e) ==
    IF e.scan # "BLANK" THEN TargetStatus(e)
    ELSE NormalizeDepositLifecycleStatus("BLANK", e.status, e.confs, AtLeastOne(CreditConfs), 0)

Asks(e) == e.scan # "BLANK" /\ e.status = "CONFIRMED"

MayFail(kind) == kind \in setup.faultKinds /\ faults < setup.maxFaults

\* DepositNotify is answered, refused, or done and its answer lost.
Deliver(i) ==
    /\ At(i, "deliver")
    /\ \/ /\ CreditDepositTo(hands[i].dep, Notified(hands[i].event))
          /\ \/ Goto(i, IF Asks(hands[i].event) THEN "follow" ELSE "done") /\ UNCHANGED faults
             \/ MayFail("lost") /\ Goto(i, "retry") /\ faults' = faults + 1
       \/ /\ MayFail("refused")
          /\ Goto(i, "retry") /\ faults' = faults + 1
          /\ UNCHANGED ledgerVars
    /\ UNCHANGED <<setup, chainVars, seen, outbox, announced>>

\* Fault: the follow-up events are not staged.
FollowSkipped(i) ==
    /\ At(i, "follow")
    /\ Goto(i, "done")
    /\ UNCHANGED <<setup, ledgerVars, chainVars, seen, outbox, announced, faults>>

\* InsertOutboxEventIfAbsent of the project callback and the sweep trigger; its
\* failure is only logged.
Follow(i) ==
    /\ At(i, "follow")
    /\ \/ announced' = announced \cup {hands[i].dep} /\ UNCHANGED faults
       \/ MayFail("db") /\ faults' = faults + 1 /\ UNCHANGED announced
    /\ Goto(i, "done")
    /\ UNCHANGED <<setup, ledgerVars, chainVars, seen, outbox>>

\* Whatever the row has become since it was read.
MarkDone(i) ==
    /\ At(i, "done")
    /\ outbox' = [outbox EXCEPT ![hands[i].dep].status = "DONE"]
    /\ Rest(i)
    /\ UNCHANGED <<setup, ledgerVars, chainVars, seen, announced, faults>>

\* Fault: the first failure is the last.
MarkRetryGivesUp(i) ==
    /\ At(i, "retry")
    /\ outbox' = [outbox EXCEPT ![hands[i].dep].status = "FAILED"]
    /\ Rest(i)
    /\ UNCHANGED <<setup, ledgerVars, chainVars, seen, announced, faults>>

MarkRetry(i) ==
    /\ At(i, "retry")
    /\ LET tries == hands[i].count + 1 IN
       outbox' = [outbox EXCEPT ![hands[i].dep].status = IF tries >= MaxTries THEN "FAILED"
                                                         ELSE "PENDING",
                                ![hands[i].dep].tries = tries]
    /\ Rest(i)
    /\ UNCHANGED <<setup, ledgerVars, chainVars, seen, announced, faults>>

Crash(i) ==
    /\ MayFail("crash")
    /\ ~At(i, "idle")
    /\ Rest(i)
    /\ faults' = faults + 1
    /\ UNCHANGED <<setup, ledgerVars, chainVars, seen, outbox, announced>>

-----------------------------------------------------------------------------
ChainStep ==
    \/ \E d \in Deposits : Include(d)
    \/ \E x \in Transactions : Deepen(x) \/ Reorg(x)

Start(i, d) == Scan(i, d) \/ ScanUnspent(i, d) \/ Reconcile(i, d) \/ Fetch(i, d)

Proceed(i) ==
    \/ Note(i) \/ UpsertSeenEvent(i) \/ Enqueue(i) \/ Checkpoint(i)
    \/ Deliver(i) \/ Follow(i) \/ MarkDone(i) \/ MarkRetry(i)

PipelineNext ==
    \/ ChainStep
    \/ \E i \in Scanners : Proceed(i) \/ Crash(i) \/ \E d \in Deposits : Start(i, d)

PipelineSpec == PipelineInit /\ [][PipelineNext]_pvars

\* Every tick scans, reconciles and dispatches in turn, and a mined
\* transaction gets deeper.
PipelineFairness ==
    /\ \A x \in Transactions : WF_pvars(Deepen(x))
    /\ \A i \in Scanners : WF_pvars(Proceed(i))
    /\ \A d \in Deposits :
         /\ SF_pvars(\E i \in Scanners : Scan(i, d) \/ ScanUnspent(i, d))
         /\ SF_pvars(\E i \in Scanners : Reconcile(i, d))
         /\ SF_pvars(\E i \in Scanners : Fetch(i, d))

FairPipelineSpec == PipelineSpec /\ PipelineFairness

-----------------------------------------------------------------------------
InHand(d) == \E i \in Scanners : hands[i].dep = d
Quiet(d) == ~InHand(d) /\ outbox[d].status # "PENDING"

\* The ledger never runs ahead of the chain: money is credited and unlocked
\* only for a transaction that succeeded in a block and had the confirmations
\* each step asks for, whatever kind of answers the chain's adapter gives.  A
\* failed transaction may be credited where a node counts it before it has its
\* receipt: TxFinality then answers PENDING with the count, and
\* resolveDepositScanStatus goes by the count.
CreditFollowsDepth ==
    \A d \in Deposits :
      \/ /\ deposits[d].credited => deepest[TxOf[d]] >= CreditConfs
         /\ deposits[d].unlocked => deepest[TxOf[d]] >= UnlockConfs
      \/ setup.family = "lagging" /\ <<TxOf[d], "failed">> \in undone

\* Money is taken back only from a deposit whose transaction failed in the
\* chain: CreditDeposit reverts no deposit because its block was thrown out,
\* or because an answer about it came late.
RevertedWasUndone ==
    \A d \in Deposits : deposits[d].status = "REVERTED" => <<TxOf[d], "failed">> \in undone

\* "Deposit ledger notify is independent from project callback / sweep
\* execution", and comes first: while the transaction never left the chain,
\* no callback or sweep is staged for money that was not credited, unless the
\* node lags behind and a failed transaction reads as a deep one; and on EVM
\* chains with one instance of the scanner none is forgotten when the event is
\* DONE, whatever is refused, lost or cut off, unless the database refuses the
\* staging.  (Another instance may mark an event DONE that a crashed one had
\* delivered and not followed up.  On Solana the finality of a credited deposit
\* may still read as SEEN, and its event then replaces a CONFIRMED one that is
\* to be retried.)
AnnouncedIffCredited ==
    \A d \in Deposits : <<TxOf[d], "orphaned">> \notin undone =>
      /\ d \in announced /\ setup.family # "lagging" => <<"DEPOSIT", d, "CREDIT">> \in journal
      /\ /\ deposits[d].credited /\ outbox[d].status = "DONE"
         /\ setup.family \in {"evm", "token"} /\ "db" \notin setup.faultKinds
         /\ \A i, j \in setup.scanners : i = j
         => d \in announced

\* A staged event reaches the ledger, whichever call is refused, answered too
\* late or cut off by a crash: "retries with exponential backoff on failure".
StagedIsNotified ==
    \A d \in Deposits : outbox[d].status = "PENDING" ~> deposits[d].status # "NONE"

\* "FINALIZED unlocks the credited amount for withdraw" and "REVERTED debits
\* the credited balance back": once the scanner has seen a deposit final or
\* reorganised away and nothing is under way, the ledger agrees.
LedgerFollowsScan ==
    \A d \in Deposits : Quiet(d) =>
      /\ seen[d].status = "FINALIZED" => deposits[d].unlocked
      /\ seen[d].status = "REORGED" => ~deposits[d].credited
=============================================================================
