---------------------------- MODULE VaultLedger ----------------------------
(***************************************************************************)
(* The treasury half of the ledger adapter (wallet-core adapters/ledger/   *)
(* postgres.go): vault_balances, sweep_orders, treasury_transfer_orders    *)
(* and vault_journals.  A sweep brings customer money into a vault and is  *)
(* credited when it is final; a treasury transfer moves money between two  *)
(* vaults, debits the source when it is reserved and credits the           *)
(* destination when it is final.  Each method is one transaction that      *)
(* locks the order's row; a method that returns an error changes nothing.  *)
(***************************************************************************)
EXTENDS Coins, Integers

CONSTANTS
    Accounts,           \* vault accounts
    Opening,            \* vault balances from earlier sweeps
    Transfers, From, To, TransferAmount,
    Sweeps, SweepAmount,
    Txs, NoTx,
    RequiredConfs,      \* required_confirmations of every order
    MaxConfs,           \* bound: the most confirmations a report carries
    MaxVault            \* bound: sweeps credit a vault no further than this

ASSUME VaultAssumption ==
    /\ Accounts # {}
    /\ Opening \in [Accounts -> Nat]
    /\ IsFiniteSet(Transfers)
    /\ From \in [Transfers -> Accounts]
    /\ To \in [Transfers -> Accounts]
    /\ \A x \in Transfers : From[x] # To[x]
    /\ TransferAmount \in [Transfers -> Nat]
    /\ IsFiniteSet(Sweeps)
    /\ SweepAmount \in [Sweeps -> Nat]
    /\ NoTx \notin Txs
    /\ RequiredConfs \in Nat \ {0}
    /\ MaxConfs \in Nat
    /\ MaxVault \in Nat

VARIABLES
    vault,          \* vault_balances.available of each account
    transfers,      \* treasury_transfer_orders
    sweeps,         \* sweep_orders
    vaultJournal    \* keys of vault_journals

vaultVars == <<vault, transfers, sweeps, vaultJournal>>

\* status NONE stands for a row that does not exist.
OrderStatus == {"NONE", "RESERVED", "BROADCASTED", "DONE", "FAILED"}

OrderRow == [status : OrderStatus, tx : Txs \cup {NoTx}, confs : Nat]
Order(st, t, c) == [status |-> st, tx |-> t, confs |-> c]

SweepRow == [status : OrderStatus, tx : Txs \cup {NoTx}, confs : Nat, dest : Accounts]
Sweep(st, t, c, a) == [status |-> st, tx |-> t, confs |-> c, dest |-> a]

VaultTypeOK ==
    /\ vault \in [Accounts -> Nat]
    /\ transfers \in [Transfers -> OrderRow]
    /\ sweeps \in [Sweeps -> SweepRow]

\* The destination of a sweep that has no row is of no account.
NoDest == CHOOSE a \in Accounts : TRUE

VaultInit ==
    /\ vault = Opening
    /\ transfers = [x \in Transfers |-> Order("NONE", NoTx, 0)]
    /\ sweeps = [s \in Sweeps |-> Sweep("NONE", NoTx, 0, NoDest)]
    /\ vaultJournal = {}

Most(a, b) == IF a < b THEN b ELSE a

AddVault(a, n) == vault' = [vault EXCEPT ![a] = @ + n]

SetSweep(s, row) == sweeps' = [sweeps EXCEPT ![s] = row]
SetTransfer(x, row) == transfers' = [transfers EXCEPT ![x] = row]

-----------------------------------------------------------------------------
(* Sweeps. *)

\* A row that exists is accepted as it is, a FAILED one refused.
ReserveSweep(s, a) ==
    /\ \/ /\ sweeps[s].status = "NONE"
          /\ SetSweep(s, Sweep("RESERVED", NoTx, 0, a))
       \/ /\ sweeps[s].status \in {"RESERVED", "BROADCASTED", "DONE"}
          /\ UNCHANGED sweeps
    /\ UNCHANGED <<vault, transfers, vaultJournal>>

\* The UPDATE covers RESERVED and BROADCASTED, the INSERT ... ON CONFLICT DO
\* UPDATE every other row: the order is BROADCASTED again whatever it was,
\* with its old confirmations and destination.
StartSweep(s, t, a) ==
    /\ LET old == sweeps[s] IN
       SetSweep(s, Sweep("BROADCASTED", t, old.confs,
                         IF old.status = "NONE" THEN a ELSE old.dest))
    /\ UNCHANGED <<vault, transfers, vaultJournal>>

ConfirmSweepOnChain(s, t, c) ==
    LET old == sweeps[s]
        confs == Most(c, old.confs)
    IN /\ old.status # "NONE"
       /\ \/ /\ old.status = "DONE"
             /\ SetSweep(s, Sweep("DONE", old.tx, confs, old.dest))
             /\ UNCHANGED <<vault, vaultJournal>>
          \/ /\ old.status # "DONE" /\ confs < RequiredConfs
             /\ SetSweep(s, Sweep("BROADCASTED", t, confs, old.dest))
             /\ UNCHANGED <<vault, vaultJournal>>
          \/ /\ old.status # "DONE" /\ confs >= RequiredConfs
             /\ AddVault(old.dest, SweepAmount[s])
             /\ SetSweep(s, Sweep("DONE", t, confs, old.dest))
             /\ vaultJournal' = vaultJournal \cup {<<"SWEEP", s, old.dest, "CREDIT">>}
       /\ UNCHANGED transfers

\* No transaction is compared: the row fails for whichever one failed.
FailSweepOnChain(s, c) ==
    LET old == sweeps[s]
    IN /\ \/ /\ old.status \notin {"NONE", "DONE"}
             /\ SetSweep(s, Sweep("FAILED", old.tx, Most(c, old.confs), old.dest))
          \/ /\ old.status \in {"NONE", "DONE"}
             /\ UNCHANGED sweeps
       /\ UNCHANGED <<vault, transfers, vaultJournal>>

-----------------------------------------------------------------------------
(* Treasury transfers. *)

TransferEntry(x, a, side) == <<"TREASURY_TRANSFER", x, a, side>>

\* Fault: a retry debits the source again.
ReserveTreasuryTransferAgain(x) ==
    /\ transfers[x].status \in {"NONE", "RESERVED"}
    /\ TransferAmount[x] <= vault[From[x]]
    /\ AddVault(From[x], -TransferAmount[x])
    /\ SetTransfer(x, Order("RESERVED", NoTx, 0))
    /\ vaultJournal' = vaultJournal \cup {TransferEntry(x, From[x], "DEBIT_PENDING")}
    /\ UNCHANGED sweeps

ReserveTreasuryTransfer(x) ==
    /\ \/ /\ transfers[x].status = "NONE"
          /\ TransferAmount[x] <= vault[From[x]]
          /\ AddVault(From[x], -TransferAmount[x])
          /\ SetTransfer(x, Order("RESERVED", NoTx, 0))
          /\ vaultJournal' = vaultJournal \cup {TransferEntry(x, From[x], "DEBIT_PENDING")}
       \/ /\ transfers[x].status \in {"RESERVED", "BROADCASTED", "DONE"}
          /\ UNCHANGED <<vault, transfers, vaultJournal>>
    /\ UNCHANGED sweeps

MarkTreasuryTransferBroadcasted(x, t) ==
    /\ transfers[x].status \in {"RESERVED", "BROADCASTED"}
    /\ SetTransfer(x, Order("BROADCASTED", t, transfers[x].confs))
    /\ UNCHANGED <<vault, sweeps, vaultJournal>>

ConfirmTreasuryTransferOnChain(x, t, c) ==
    LET old == transfers[x]
        confs == Most(c, old.confs)
    IN /\ \/ /\ old.status = "DONE"
             /\ SetTransfer(x, Order("DONE", old.tx, confs))
             /\ UNCHANGED <<vault, vaultJournal>>
          \/ /\ old.status \in {"RESERVED", "BROADCASTED"} /\ confs < RequiredConfs
             /\ SetTransfer(x, Order("BROADCASTED", t, confs))
             /\ UNCHANGED <<vault, vaultJournal>>
          \/ /\ old.status \in {"RESERVED", "BROADCASTED"} /\ confs >= RequiredConfs
             /\ AddVault(To[x], TransferAmount[x])
             /\ SetTransfer(x, Order("DONE", t, confs))
             /\ vaultJournal' = vaultJournal \cup {TransferEntry(x, From[x], "DEBIT"),
                                                   TransferEntry(x, To[x], "CREDIT")}
       /\ UNCHANGED sweeps

FailTreasuryTransferOnChain(x, c) ==
    LET old == transfers[x]
    IN /\ \/ /\ old.status \in {"FAILED", "DONE"}
             /\ UNCHANGED <<vault, transfers, vaultJournal>>
          \/ /\ old.status \in {"RESERVED", "BROADCASTED"}
             /\ AddVault(From[x], TransferAmount[x])
             /\ SetTransfer(x, Order("FAILED", old.tx, Most(c, old.confs)))
             /\ vaultJournal' = vaultJournal \cup {TransferEntry(x, From[x], "ROLLBACK")}
       /\ UNCHANGED sweeps

-----------------------------------------------------------------------------
(* Every method at any time, with any argument. *)

SweepCall(s) ==
    \/ \E a \in Accounts : ReserveSweep(s, a) \/ \E t \in Txs : StartSweep(s, t, a)
    \/ \E c \in 0..MaxConfs :
         \/ FailSweepOnChain(s, c)
         \/ /\ vault[sweeps[s].dest] + SweepAmount[s] <= MaxVault
            /\ \E t \in Txs : ConfirmSweepOnChain(s, t, c)

TransferCall(x) ==
    \/ ReserveTreasuryTransfer(x)
    \/ \E t \in Txs : MarkTreasuryTransferBroadcasted(x, t)
    \/ \E c \in 0..MaxConfs :
         \/ FailTreasuryTransferOnChain(x, c)
         \/ \E t \in Txs : ConfirmTreasuryTransferOnChain(x, t, c)

VaultNext ==
    \/ \E s \in Sweeps : SweepCall(s)
    \/ \E x \in Transfers : TransferCall(x)

VaultSpec == VaultInit /\ [][VaultNext]_vaultVars

-----------------------------------------------------------------------------
DebitedFrom(a) ==
    {x \in Transfers : From[x] = a /\ transfers[x].status \in {"RESERVED", "BROADCASTED", "DONE"}}
CreditedTo(a) == {x \in Transfers : To[x] = a /\ transfers[x].status = "DONE"}
SweptInto(a) ==
    {s \in Sweeps : sweeps[s].dest = a /\ sweeps[s].status # "DONE" /\ sweeps'[s].status = "DONE"}

\* A vault balance moves only with its orders: it falls by a transfer that is
\* reserved, regains it when that transfer fails, and rises by a transfer or
\* a sweep that becomes DONE; retries and late reports move nothing.
VaultMovesWithOrders ==
    [][\A a \in Accounts :
         vault'[a] + Worth(DebitedFrom(a)', TransferAmount) + Worth(CreditedTo(a), TransferAmount)
           = vault[a] + Worth(DebitedFrom(a), TransferAmount)
               + Worth(CreditedTo(a)', TransferAmount) + Worth(SweptInto(a), SweepAmount)]_vaultVars

\* vault_journals tells what happened to a transfer: DEBIT_PENDING for every
\* one ever reserved, CREDIT and DEBIT for a DONE one, ROLLBACK for a FAILED
\* one, and a CREDIT for every DONE sweep.
VaultJournalTellsTheRows ==
    /\ \A x \in Transfers :
         /\ TransferEntry(x, From[x], "DEBIT_PENDING") \in vaultJournal
              <=> transfers[x].status # "NONE"
         /\ TransferEntry(x, To[x], "CREDIT") \in vaultJournal <=> transfers[x].status = "DONE"
         /\ TransferEntry(x, From[x], "DEBIT") \in vaultJournal <=> transfers[x].status = "DONE"
         /\ TransferEntry(x, From[x], "ROLLBACK") \in vaultJournal
              <=> transfers[x].status = "FAILED"
    /\ \A s \in Sweeps :
         sweeps[s].status = "DONE" => <<"SWEEP", s, sweeps[s].dest, "CREDIT">> \in vaultJournal

\* A settled transfer stays settled, whatever retry or report comes late.
SettledTransferIsFinal ==
    [][\A x \in Transfers : transfers[x].status \in {"DONE", "FAILED"}
                              => transfers'[x].status = transfers[x].status]_vaultVars
=============================================================================
