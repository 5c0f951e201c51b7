--------------------------- MODULE VaultDispatch ---------------------------
(***************************************************************************)
(* Sweeps and treasury transfers from the request to their settlement: the *)
(* handlers SweepRun and TreasuryTransfer (wallet-core transport/http),    *)
(* the chain (external) and the scanner's reports (scan-account-service    *)
(* worker/scanner_outgoing.go), over the tables of VaultLedger.            *)
(*                                                                         *)
(* A caller is the goroutine that serves one request.  Other callers and   *)
(* the scanner run between any two of its calls.                           *)
(***************************************************************************)
EXTENDS VaultLedger, ChainAnswers

CONSTANTS
    Callers,
    NoOrder,
    Hot, Cold, HotCap,  \* hot account, cold account and cap of the sweeps
    TxOrder,            \* the order each transaction pays
    Setups              \* the circumstances to look at: see VaultSetup

\* maxRequests bounds the requests for an order and maxFaults the faults, of
\* kinds faultKinds; a mined transaction reverts, or a pending one is dropped,
\* where the field says so.
VaultSetup ==
    [maxRequests : [Transfers \cup Sweeps -> Nat],
     faultKinds : SUBSET {"crash", "db", "lost"}, maxFaults : Nat,
     reverts : BOOLEAN, drops : BOOLEAN, family : Families]

ASSUME VaultDispatchAssumption ==
    /\ {Hot, Cold} \subseteq Accounts
    /\ HotCap \in Nat
    /\ Transfers \cap Sweeps = {}
    /\ NoOrder \notin Transfers \cup Sweeps
    /\ TxOrder \in [Txs -> Transfers \cup Sweeps]
    /\ Setups \subseteq VaultSetup

VARIABLES
    setup,      \* one of Setups, for good
    calls,      \* what each caller is at and holds
    chain,      \* the transactions that were broadcast: status and receiver
    notice,     \* what the scanner has in hand
    requests,   \* requests so far
    faults

vdvars == <<setup, vault, transfers, sweeps, vaultJournal, calls, chain, notice, requests, faults>>

AllOrders == Transfers \cup Sweeps
NoAccount == Hot
NoCall == [pc |-> "idle", order |-> NoOrder, dest |-> NoAccount, tx |-> NoTx]
NoReport == [order |-> NoOrder, tx |-> NoTx, status |-> "NONE", confs |-> 0]

VaultDispatchTypeOK ==
    /\ VaultTypeOK
    /\ calls \in [Callers -> [pc : {"idle", "reserve", "broadcast", "mark", "fail"},
                              order : AllOrders \cup {NoOrder}, dest : Accounts,
                              tx : Txs \cup {NoTx}]]
    /\ chain \in [Txs -> [status : {"absent", "pending", "included", "final", "reverted", "dropped"},
                          to : Accounts]]
    /\ notice \in [order : AllOrders \cup {NoOrder}, tx : Txs \cup {NoTx},
                   status : {"NONE", "LISTED", "CONFIRMED", "FAILED"}, confs : Int]
    /\ requests \in [AllOrders -> Nat]
    /\ faults \in Nat

VaultDispatchInit ==
    /\ setup \in Setups
    /\ VaultInit
    /\ calls = [c \in Callers |-> NoCall]
    /\ chain = [t \in Txs |-> [status |-> "absent", to |-> NoAccount]]
    /\ notice = NoReport
    /\ requests = [o \in AllOrders |-> 0]
    /\ faults = 0

\* Another fault of this kind may happen.
MayFail(kind) == kind \in setup.faultKinds /\ faults < setup.maxFaults

-----------------------------------------------------------------------------
(* The handlers. *)

At(c, pc) == calls[c].pc = pc
Goto(c, pc) == calls' = [calls EXCEPT ![c].pc = pc]
Return(c) == calls' = [calls EXCEPT ![c] = NoCall]

Begin(c, o, a) ==
    calls' = [calls EXCEPT ![c] = [pc |-> "reserve", order |-> o, dest |-> a, tx |-> NoTx]]

Arrive(c, o) ==
    /\ At(c, "idle")
    /\ requests[o] < setup.maxRequests[o]
    /\ requests' = [requests EXCEPT ![o] = @ + 1]

\* TreasuryTransfer answers an order that exists from its row.
TransferLookup(c, x) ==
    /\ Arrive(c, x)
    /\ \/ transfers[x].status = "NONE" /\ Begin(c, x, To[x])
       \/ transfers[x].status # "NONE" /\ UNCHANGED calls
    /\ UNCHANGED <<vaultVars, chain, notice, faults, setup>>

\* A cap of 0 is no cap.
ResolveSweepDestination(s) ==
    IF HotCap > 0 /\ vault[Hot] + SweepAmount[s] > HotCap THEN Cold ELSE Hot

\* SweepRun does not look the order up; it chooses the destination by the
\* hot vault's balance at that moment.
SweepRoute(c, s) ==
    /\ Arrive(c, s)
    /\ Begin(c, s, ResolveSweepDestination(s))
    /\ UNCHANGED <<vaultVars, chain, notice, faults, setup>>

\* A refused reservation ends the request.
Reserve(c) ==
    /\ At(c, "reserve")
    /\ LET o == calls[c].order IN
       \/ o \in Transfers /\ ReserveTreasuryTransfer(o) /\ Goto(c, "broadcast")
       \/ o \in Sweeps /\ ReserveSweep(o, calls[c].dest) /\ Goto(c, "broadcast")
       \/ /\ o \in Transfers
          /\ \/ transfers[o].status = "FAILED"
             \/ transfers[o].status = "NONE" /\ TransferAmount[o] > vault[From[o]]
          /\ UNCHANGED vaultVars /\ Return(c)
       \/ /\ o \in Sweeps /\ sweeps[o].status = "FAILED"
          /\ UNCHANGED vaultVars /\ Return(c)
    /\ UNCHANGED <<chain, notice, requests, faults, setup>>

Fresh(o) == {t \in Txs : TxOrder[t] = o /\ chain[t].status = "absent"}

\* Fault: the money is sent to the hot account whatever was reserved.
BroadcastToHot(c) ==
    /\ At(c, "broadcast")
    /\ \E t \in Fresh(calls[c].order) :
         /\ chain' = [chain EXCEPT ![t] = [status |-> "pending", to |-> Hot]]
         /\ calls' = [calls EXCEPT ![c].pc = "mark", ![c].tx = t]
    /\ UNCHANGED <<vaultVars, notice, requests, faults, setup>>

\* BroadcastOnly fails, or the transaction is out.  A lost answer leaves the
\* transaction out and the call failed.
Broadcast(c) ==
    /\ At(c, "broadcast")
    /\ \/ /\ Goto(c, "fail")
          /\ UNCHANGED <<chain, faults>>
       \/ \E t \in Fresh(calls[c].order) :
            /\ chain' = [chain EXCEPT ![t] = [status |-> "pending", to |-> calls[c].dest]]
            /\ \/ /\ calls' = [calls EXCEPT ![c].pc = "mark", ![c].tx = t]
                  /\ UNCHANGED faults
               \/ /\ MayFail("lost")
                  /\ Goto(c, "fail")
                  /\ faults' = faults + 1
    /\ UNCHANGED <<vaultVars, notice, requests, setup>>

\* A transfer that was settled in the meantime is not marked.
Mark(c) ==
    /\ At(c, "mark")
    /\ LET o == calls[c].order IN
       \/ o \in Transfers /\ MarkTreasuryTransferBroadcasted(o, calls[c].tx)
       \/ /\ o \in Transfers /\ transfers[o].status \in {"DONE", "FAILED"}
          /\ UNCHANGED vaultVars
       \/ o \in Sweeps /\ StartSweep(o, calls[c].tx, calls[c].dest)
    /\ Return(c)
    /\ UNCHANGED <<chain, notice, requests, faults, setup>>

\* Fault: a failed broadcast leaves the reservation.
FailForgotten(c) ==
    /\ At(c, "fail")
    /\ Return(c)
    /\ UNCHANGED <<vaultVars, chain, notice, requests, faults, setup>>

Fail(c) ==
    /\ At(c, "fail")
    /\ LET o == calls[c].order IN
       \/ o \in Transfers /\ FailTreasuryTransferOnChain(o, 0)
       \/ o \in Sweeps /\ FailSweepOnChain(o, 0)
    /\ Return(c)
    /\ UNCHANGED <<chain, notice, requests, faults, setup>>

\* The process dies.
Crash(c) ==
    /\ MayFail("crash")
    /\ ~At(c, "idle")
    /\ Return(c)
    /\ faults' = faults + 1
    /\ UNCHANGED <<vaultVars, chain, notice, requests, setup>>

\* A ledger call fails: the mark after its three tries is reported to the
\* caller, the failed release is ignored.
LedgerError(c) ==
    /\ MayFail("db")
    /\ calls[c].pc \in {"mark", "fail"}
    /\ Return(c)
    /\ faults' = faults + 1
    /\ UNCHANGED <<vaultVars, chain, notice, requests, setup>>

-----------------------------------------------------------------------------
(* The chain and the scanner. *)

SetChain(t, st) ==
    /\ chain' = [chain EXCEPT ![t].status = st]
    /\ UNCHANGED <<vaultVars, calls, notice, requests, faults, setup>>

Mine(t) ==
    /\ chain[t].status = "pending"
    /\ SetChain(t, "included") \/ (setup.reverts /\ SetChain(t, "reverted"))

Finalize(t) == chain[t].status = "included" /\ SetChain(t, "final")
Vanish(t) == setup.drops /\ chain[t].status = "pending" /\ SetChain(t, "dropped")

RowTx(o) == IF o \in Transfers THEN transfers[o].tx ELSE sweeps[o].tx
RowStatus(o) == IF o \in Transfers THEN transfers[o].status ELSE sweeps[o].status

\* ListPendingSweeps and ListPendingTreasuryTransfers: one hash of an order.
List(o) ==
    /\ notice = NoReport
    /\ RowStatus(o) = "BROADCASTED" /\ RowTx(o) # NoTx
    /\ notice' = [order |-> o, tx |-> RowTx(o), status |-> "LISTED", confs |-> 0]
    /\ UNCHANGED <<vaultVars, calls, chain, requests, faults, setup>>

Answer(st, n) == [status |-> st, confs |-> n]

\* The transaction as the node shows it.
Shown(t) ==
    CASE chain[t].status \in {"absent", "dropped"} -> Unknown
      [] chain[t].status = "pending" -> Pooled
      [] chain[t].status = "included" -> InBlock(1, TRUE)
      [] chain[t].status = "final" -> InBlock(FinalDepth + RequiredConfs, TRUE)
      [] chain[t].status = "reverted" -> InBlock(FinalDepth, FALSE)

\* Fault: a transaction that was found is taken for confirmed for good.
FindingEarly(f) == Answer("CONFIRMED", RequiredConfs)

\* Fault: a transaction that is not mined yet is taken for failed.
FindingHasty(f) ==
    IF f.status = "CONFIRMED" THEN Answer("CONFIRMED", f.confs) ELSE Answer("FAILED", f.confs)

\* scanOutgoingConfirmations: what it makes of an answer.
Finding(f) ==
    CASE f.status \in {"REVERTED", "FAILED"} -> Answer("FAILED", f.confs)
      [] f.status = "PENDING" -> Answer("NONE", 0)
      [] OTHER -> Answer("CONFIRMED", f.confs)

\* A call that fails is skipped.
Look ==
    /\ notice.status = "LISTED"
    /\ LET reports == {Finding(f) : f \in TxFinality(setup.family, Shown(notice.tx))}
       IN \E f \in IF reports = {} THEN {Answer("NONE", 0)} ELSE reports :
            notice' = IF f.status = "NONE" THEN NoReport
                      ELSE [notice EXCEPT !.status = f.status, !.confs = f.confs]
    /\ UNCHANGED <<vaultVars, calls, chain, requests, faults, setup>>

\* The ledger refuses to confirm a failed transfer.
TreasuryTransferOnchainNotify(x) ==
    \/ notice.status = "CONFIRMED" /\ ConfirmTreasuryTransferOnChain(x, notice.tx, notice.confs)
    \/ notice.status = "CONFIRMED" /\ transfers[x].status = "FAILED" /\ UNCHANGED vaultVars
    \/ notice.status = "FAILED" /\ FailTreasuryTransferOnChain(x, notice.confs)

SweepOnchainNotify(s) ==
    \/ notice.status = "CONFIRMED" /\ ConfirmSweepOnChain(s, notice.tx, notice.confs)
    \/ notice.status = "FAILED" /\ FailSweepOnChain(s, notice.confs)

Notify ==
    /\ \/ notice.order \in Transfers /\ TreasuryTransferOnchainNotify(notice.order)
       \/ notice.order \in Sweeps /\ SweepOnchainNotify(notice.order)
    /\ notice' = NoReport
    /\ UNCHANGED <<calls, chain, requests, faults, setup>>

NotifyLost ==
    /\ MayFail("lost")
    /\ notice # NoReport
    /\ notice' = NoReport
    /\ faults' = faults + 1
    /\ UNCHANGED <<vaultVars, calls, chain, requests, setup>>

-----------------------------------------------------------------------------
Serve(c) == Reserve(c) \/ Broadcast(c) \/ Mark(c) \/ Fail(c)

VaultDispatchNext ==
    \/ \E c \in Callers, x \in Transfers : TransferLookup(c, x)
    \/ \E c \in Callers, s \in Sweeps : SweepRoute(c, s)
    \/ \E c \in Callers : Serve(c) \/ Crash(c) \/ LedgerError(c)
    \/ \E t \in Txs : Mine(t) \/ Finalize(t) \/ Vanish(t)
    \/ \E o \in AllOrders : List(o)
    \/ Look \/ Notify \/ NotifyLost

VaultDispatchSpec == VaultDispatchInit /\ [][VaultDispatchNext]_vdvars

\* A request is served, a pending transaction is mined, and the scanner goes
\* through its whole list at every tick.
VaultFairness ==
    /\ \A c \in Callers : WF_vdvars(Serve(c))
    /\ \A t \in Txs : WF_vdvars(Mine(t) \/ Finalize(t))
    /\ \A o \in AllOrders : SF_vdvars(List(o))
    /\ WF_vdvars(Look \/ Notify)

FairVaultDispatchSpec == VaultDispatchSpec /\ VaultFairness

-----------------------------------------------------------------------------
TxsOf(o) == {t \in Txs : TxOrder[t] = o}
Live(o) == {t \in TxsOf(o) : chain[t].status \in {"pending", "included", "final"}}
Final(o) == {t \in TxsOf(o) : chain[t].status = "final"}

\* Nothing has gone wrong: no fault and no second request.
Calm == faults = 0 /\ \A o \in AllOrders : requests[o] <= 1

\* A vault is credited only with money that has arrived for good: a DONE
\* order has a final transaction, whatever crashes, fails or comes late and
\* whichever chain's adapter is asked.  A sweep that is asked for again keeps
\* the confirmations of its failed transaction, so it is excepted.
DoneMeansPaid ==
    \A o \in AllOrders :
      RowStatus(o) = "DONE" /\ (o \in Sweeps => requests[o] <= 1) => Final(o) # {}

\* "source vault balance is reserved before broadcast, so repeated retries
\* cannot oversubscribe the same hot/cold pool": what the chain takes from a
\* pool for a transfer is covered by the debit of its one reservation, while
\* nothing goes wrong, on every chain but Aptos, whose adapter reads a pending
\* transaction as a failed one.
PoolNotOversubscribed ==
    Calm /\ setup.family # "aptos" => \A x \in Transfers :
      /\ \A t, u \in Live(x) : t = u
      /\ transfers[x].status \in {"NONE", "FAILED"} => Live(x) = {}

\* A sweep order moves a customer's money once, to the account whose vault
\* is credited for it, while SweepRun is called once for the order, whatever
\* fails: a second call broadcasts again.
SingleSweepIsOnce ==
    \A s \in Sweeps : requests[s] <= 1 =>
      /\ \A t, u \in Live(s) : t = u
      /\ \A t \in Live(s) : chain[t].to = sweeps[s].dest

\* "on confirm, the destination vault is credited; on failure, the source
\* vault reservation is rolled back": a reserved order is settled in the end,
\* where the adapter counts confirmations, unless something goes wrong or its
\* transaction drops out of the pool.
ReservedSettles ==
    \A o \in AllOrders :
      (Calm /\ setup.family \in Counting /\ RowStatus(o) = "RESERVED") ~>
        \/ RowStatus(o) \in {"DONE", "FAILED"} \/ ~Calm
        \/ \E t \in TxsOf(o) : chain[t].status = "dropped"
=============================================================================
