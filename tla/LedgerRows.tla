---------------------------- MODULE LedgerRows ----------------------------
(***************************************************************************)
(* Ledger transactions statement by statement, as PostgreSQL runs them at  *)
(* READ COMMITTED: freezeWithdrawTx and the credit of CreditDeposit, which *)
(* rewrite an account's balance row, and ReserveTreasuryTransfer,          *)
(* ConfirmTreasuryTransferOnChain, FailTreasuryTransferOnChain and         *)
(* ConfirmSweepOnChain, which rewrite a vault's.  Each reads a balance     *)
(* row FOR UPDATE, computes and writes it back.  The other modules take    *)
(* each ledger method as one step; this one asks when that is right.       *)
(*                                                                         *)
(* A row that exists is locked by SELECT ... FOR UPDATE until the commit.  *)
(* A row that does not exist cannot be locked: the SELECT returns at once  *)
(* and only the INSERT waits for another transaction's INSERT of the key.  *)
(* Transactions that wait for each other in a circle are found by the      *)
(* server, which ends one of them with an error.                           *)
(***************************************************************************)
EXTENDS Balance, Coins, WithdrawOrders, DepositOrders

CONSTANTS
    Clients, Nobody,
    Account,        \* the account whose row of ledger_balances is at stake
    Vaults,         \* the treasury accounts with a row in vault_balances
    Transfers, From, To, TransferAmount,
    Sweeps, SweptTo, SweepAmount,
    Opening,        \* what each balance row starts with, if it exists
    Opened,         \* the balance rows that exist
    Workloads,      \* the kinds of transaction that run beside each other
    Duplicates      \* whether an order may be frozen twice at a time

Kinds == {"freeze", "credit", "reserve", "confirm", "fail", "sweep"}
Rows == {Account} \cup Vaults
Keys == Orders \cup Deposits \cup Transfers \cup Sweeps

ASSUME RowsAssumption ==
    /\ Nobody \notin Clients \cup Keys /\ Account \notin Vaults
    /\ Orders \cap Deposits = {} /\ Transfers \cap Sweeps = {}
    /\ (Orders \cup Deposits) \cap (Transfers \cup Sweeps) = {}
    /\ IsFiniteSet(Transfers) /\ IsFiniteSet(Sweeps)
    /\ From \in [Transfers -> Vaults] /\ To \in [Transfers -> Vaults]
    /\ \A t \in Transfers : From[t] # To[t]
    /\ SweptTo \in [Sweeps -> Vaults]
    /\ TransferAmount \in [Transfers -> Nat] /\ SweepAmount \in [Sweeps -> Nat]
    /\ Opened \subseteq Rows /\ Opening \in [Rows -> Nat]
    /\ \A r \in Rows \ Opened : Opening[r] = 0
    /\ Workloads \subseteq SUBSET Kinds
    /\ Duplicates \in BOOLEAN

VARIABLES
    workload,       \* the kinds of transaction this behaviour runs
    row, exists,    \* the committed balance rows, and which of them there are
    rowOwner,       \* the transaction that holds each balance row
    filed,          \* the committed status of each order, deposit, transfer and sweep
    keyOwner,       \* the transaction that holds or inserts each of those rows
    client          \* each caller: its statement, its method and key, the row it read

tables == <<row, exists, filed>>
rowVars == <<workload, row, exists, rowOwner, filed, keyOwner, client>>

Resting == [pc |-> "idle", kind |-> "none", key |-> Nobody, val |-> NoBalance]

RowsTypeOK ==
    /\ workload \in Workloads
    /\ row \in [Rows -> BalanceType] /\ exists \subseteq Rows
    /\ rowOwner \in [Rows -> Clients \cup {Nobody}]
    /\ filed \in [Keys -> {"NONE", "FILED", "RESERVED", "DONE", "FAILED"}]
    /\ keyOwner \in [Keys -> Clients \cup {Nobody}]
    /\ client \in [Clients -> [pc : {"idle", "look", "insert", "read", "source", "write",
                                     "file", "commit"},
                               kind : Kinds \cup {"none"},
                               key : Keys \cup {Nobody}, val : BalanceType]]

\* A sweep is confirmed from any status but DONE: its row is taken to be there.
RowsInit ==
    /\ workload \in Workloads
    /\ row = [r \in Rows |-> Row(Opening[r], 0, 0)]
    /\ exists = Opened
    /\ rowOwner = [r \in Rows |-> Nobody]
    /\ filed = [k \in Keys |-> IF k \in Sweeps THEN "RESERVED" ELSE "NONE"]
    /\ keyOwner = [k \in Keys |-> Nobody]
    /\ client = [c \in Clients |-> Resting]

-----------------------------------------------------------------------------
At(c, pc) == client[c].pc = pc
Key(c) == client[c].key
Kind(c) == client[c].kind
Goto(c, pc) == client' = [client EXCEPT ![c].pc = pc]

KeysOf(kind) ==
    CASE kind = "freeze" -> Orders
      [] kind = "credit" -> Deposits
      [] kind \in {"reserve", "confirm", "fail"} -> Transfers
      [] kind = "sweep" -> Sweeps

\* The balance row that the transaction rewrites.
Target(c) ==
    CASE Kind(c) \in {"freeze", "credit"} -> Account
      [] Kind(c) \in {"reserve", "fail"} -> From[Key(c)]
      [] Kind(c) = "confirm" -> To[Key(c)]
      [] Kind(c) = "sweep" -> SweptTo[Key(c)]

\* The end of a transaction gives up its locks.
Release(c) ==
    /\ rowOwner' = [r \in Rows |-> IF rowOwner[r] = c THEN Nobody ELSE rowOwner[r]]
    /\ keyOwner' = [k \in Keys |-> IF keyOwner[k] = c THEN Nobody ELSE keyOwner[k]]
    /\ client' = [client EXCEPT ![c] = Resting]

Rollback(c) == Release(c) /\ UNCHANGED <<workload, tables>>

\* Fault: ReserveTreasuryTransfer reads the vault before it inserts its order.
BeginReadFirst(c, kind, k) ==
    /\ At(c, "idle")
    /\ kind \in workload
    /\ kind = "freeze" => Duplicates \/ \A other \in Clients : Key(other) # k
    /\ kind \in {"confirm", "fail", "sweep"} => filed[k] = "RESERVED"
    /\ client' = [client EXCEPT ![c] =
         [Resting EXCEPT !.pc = IF kind = "reserve" THEN "read" ELSE "look",
                         !.kind = kind, !.key = k]]
    /\ UNCHANGED <<workload, tables, rowOwner, keyOwner>>

\* ReserveTreasuryTransfer starts with its INSERT, the others with a SELECT ...
\* FOR UPDATE.  The treasury worker takes up transfers that are reserved.
Begin(c, kind, k) ==
    /\ At(c, "idle")
    /\ kind \in workload
    /\ kind = "freeze" => Duplicates \/ \A other \in Clients : Key(other) # k
    /\ kind \in {"confirm", "fail", "sweep"} => filed[k] = "RESERVED"
    /\ client' = [client EXCEPT ![c] =
         [Resting EXCEPT !.pc = IF kind = "reserve" THEN "insert" ELSE "look",
                         !.kind = kind, !.key = k]]
    /\ UNCHANGED <<workload, tables, rowOwner, keyOwner>>

\* Fault: an order that is frozen already is frozen again.
LookPast(c) ==
    /\ At(c, "look")
    /\ keyOwner[Key(c)] = Nobody
    /\ Goto(c, IF Kind(c) = "credit" THEN "insert" ELSE "read")
    /\ UNCHANGED <<workload, tables, rowOwner, keyOwner>>

\* Fault: a transfer is only confirmed once a hash was stored with it.
LookBroadcastedOnly(c) ==
    /\ At(c, "look")
    /\ LET k == Key(c)
       IN \/ /\ filed[k] = "NONE"
             /\ Goto(c, IF Kind(c) = "credit" THEN "insert" ELSE "read")
             /\ UNCHANGED <<workload, tables, rowOwner, keyOwner>>
          \/ /\ filed[k] # "NONE" /\ keyOwner[k] = Nobody
             /\ Rollback(c)

\* SELECT ... FOR UPDATE of the freeze, the deposit, the transfer or the sweep.
\* A freeze or a deposit that is there is not filed again; a transfer or a
\* sweep that is settled stays as it is, and one that is not stays locked.
Look(c) ==
    /\ At(c, "look")
    /\ LET k == Key(c)
       IN \/ /\ filed[k] = "NONE"
             /\ Goto(c, IF Kind(c) = "credit" THEN "insert" ELSE "read")
             /\ UNCHANGED <<workload, tables, rowOwner, keyOwner>>
          \/ /\ filed[k] \in {"FILED", "DONE", "FAILED"} /\ keyOwner[k] = Nobody
             /\ Rollback(c)
          \/ /\ filed[k] = "RESERVED" /\ keyOwner[k] = Nobody
             /\ keyOwner' = [keyOwner EXCEPT ![k] = c]
             /\ Goto(c, "read")
             /\ UNCHANGED <<workload, tables, rowOwner>>

\* CreditDeposit and ReserveTreasuryTransfer insert their row before they look
\* at the balance; a row that was committed meanwhile ends the transaction.
Insert(c) ==
    /\ At(c, "insert")
    /\ keyOwner[Key(c)] = Nobody
    /\ \/ filed[Key(c)] # "NONE" /\ Rollback(c)
       \/ /\ filed[Key(c)] = "NONE"
          /\ keyOwner' = [keyOwner EXCEPT ![Key(c)] = c]
          /\ Goto(c, "read")
          /\ UNCHANGED <<workload, tables, rowOwner>>

AfterRead(c) == IF Kind(c) = "confirm" THEN "source" ELSE "write"

\* Fault: the balance is read without FOR UPDATE.
GetBalanceTxUnlocked(c) ==
    /\ At(c, "read")
    /\ client' = [client EXCEPT ![c].pc = AfterRead(c), ![c].val = row[Target(c)]]
    /\ UNCHANGED <<workload, tables, rowOwner, keyOwner>>

GetBalanceTx(c) ==
    /\ At(c, "read")
    /\ LET r == Target(c)
       IN /\ r \in exists => rowOwner[r] = Nobody
          /\ rowOwner' = IF r \in exists THEN [rowOwner EXCEPT ![r] = c] ELSE rowOwner
          /\ client' = [client EXCEPT ![c].pc = AfterRead(c), ![c].val = row[r]]
    /\ UNCHANGED <<workload, tables, keyOwner>>

\* A confirmed transfer reads its source too, for the journal, after its
\* destination.
GetSourceBalanceTx(c) ==
    /\ At(c, "source")
    /\ LET r == From[Key(c)]
       IN /\ r \in exists => rowOwner[r] = Nobody
          /\ rowOwner' = IF r \in exists THEN [rowOwner EXCEPT ![r] = c] ELSE rowOwner
    /\ Goto(c, "write")
    /\ UNCHANGED <<workload, tables, keyOwner>>

\* Fault: a vault is debited whatever it holds.
AffordableAlways(kind, k, v) == kind = "freeze" => Amount[k] + v.locked <= v.available

\* A freeze of more than is withdrawable and a debit of more than is there are
\* errors.
Affordable(kind, k, v) ==
    /\ kind = "freeze" => Amount[k] + v.locked <= v.available
    /\ kind = "reserve" => TransferAmount[k] <= v.available

\* The new row, computed from the one that was read.
Rewritten(kind, k, v) ==
    CASE kind = "freeze" -> Row(v.available - Amount[k], v.frozen + Amount[k], v.locked)
      [] kind = "credit" -> Row(v.available + DepositAmount[k], v.frozen,
                                v.locked + DepositAmount[k])
      [] kind = "reserve" -> Row(v.available - TransferAmount[k], v.frozen, v.locked)
      [] kind \in {"confirm", "fail"} -> Row(v.available + TransferAmount[k], v.frozen, v.locked)
      [] kind = "sweep" -> Row(v.available + SweepAmount[k], v.frozen, v.locked)

UpsertBalanceTx(c) ==
    /\ At(c, "write")
    /\ \/ ~Affordable(Kind(c), Key(c), client[c].val) /\ Rollback(c)
       \/ /\ Affordable(Kind(c), Key(c), client[c].val)
          /\ rowOwner[Target(c)] \in {Nobody, c}
          /\ rowOwner' = [rowOwner EXCEPT ![Target(c)] = c]
          /\ client' = [client EXCEPT ![c].pc = "file",
                                      ![c].val = Rewritten(Kind(c), Key(c), @)]
          /\ UNCHANGED <<workload, tables, keyOwner>>

\* INSERT INTO ledger_freezes ... ON CONFLICT DO NOTHING, or the UPDATE of the
\* deposit, transfer or sweep: waits for a transaction that is at the same row.
File(c) ==
    /\ At(c, "file")
    /\ keyOwner[Key(c)] \in {Nobody, c}
    /\ keyOwner' = [keyOwner EXCEPT ![Key(c)] = c]
    /\ Goto(c, "commit")
    /\ UNCHANGED <<workload, tables, rowOwner>>

Outcome(kind) ==
    CASE kind \in {"freeze", "credit"} -> "FILED"
      [] kind = "reserve" -> "RESERVED"
      [] kind \in {"confirm", "sweep"} -> "DONE"
      [] kind = "fail" -> "FAILED"

Commit(c) ==
    /\ At(c, "commit")
    /\ row' = [row EXCEPT ![Target(c)] = client[c].val]
    /\ exists' = exists \cup {Target(c)}
    /\ filed' = [filed EXCEPT ![Key(c)] = Outcome(Kind(c))]
    /\ Release(c)
    /\ UNCHANGED workload

-----------------------------------------------------------------------------
\* The transactions whose locks the next statement of c needs.
HeldBy(c) ==
    CASE At(c, "look") /\ filed[Key(c)] # "NONE" -> {keyOwner[Key(c)]}
      [] At(c, "insert") \/ At(c, "file") -> {keyOwner[Key(c)]}
      [] At(c, "read") /\ Target(c) \in exists -> {rowOwner[Target(c)]}
      [] At(c, "source") /\ From[Key(c)] \in exists -> {rowOwner[From[Key(c)]]}
      [] At(c, "write") -> {rowOwner[Target(c)]}
      [] OTHER -> {}

\* A circle: each waits for one of the others, and each is waited for.
Circle(S) ==
    \A c \in S : /\ HeldBy(c) \cap (S \ {c}) # {}
                /\ \E d \in S \ {c} : c \in HeldBy(d)

Deadlocked == UNION {S \in SUBSET Clients : Circle(S)}

\* The server ends a transaction of the circle; the method returns its error.
DeadlockVictim(c) == HeldBy(c) # {} /\ c \in Deadlocked /\ Rollback(c)

Statement(c) ==
    \/ Look(c) \/ Insert(c) \/ GetBalanceTx(c) \/ GetSourceBalanceTx(c)
    \/ UpsertBalanceTx(c) \/ File(c) \/ Commit(c) \/ DeadlockVictim(c)

RowsNext ==
    \E c \in Clients :
      \/ \E kind \in Kinds : \E k \in KeysOf(kind) : Begin(c, kind, k)
      \/ Statement(c)

RowsSpec == RowsInit /\ [][RowsNext]_rowVars

\* A transaction that can go on does, and a waiter gets a lock that is given up
\* again and again (PostgreSQL queues them); the treasury worker comes back to
\* every transfer that is reserved.
FairRowsSpec ==
    /\ RowsSpec
    /\ \A c \in Clients : SF_rowVars(Statement(c)) /\ SF_rowVars(GetSourceBalanceTx(c))
    /\ \A t \in Transfers : SF_rowVars(\E c \in Clients : Begin(c, "confirm", t))

-----------------------------------------------------------------------------
FiledAs(S, st) == {k \in S : filed[k] = st}

\* No update of an account's row is lost: what is available and frozen is the
\* opening balance plus the deposits whose rows were committed (CreditDeposit),
\* and the frozen total is the sum of the committed rows of ledger_freezes, so
\* no order's money is frozen twice (freezeWithdrawTx).
AccountAddsUp ==
    /\ row[Account].frozen = Worth(FiledAs(Orders, "FILED"), Amount)
    /\ row[Account].available + row[Account].frozen
         = Opening[Account] + Worth(FiledAs(Deposits, "FILED"), DepositAmount)

\* No update of a vault's row is lost, whichever transactions cross
\* (getVaultBalanceTx): a vault holds its opening balance, less the transfers
\* out that are reserved or done, plus the transfers in and the sweeps that are
\* done.
VaultsAddUp ==
    \A v \in Vaults :
      LET out == {t \in Transfers : From[t] = v /\ filed[t] \in {"RESERVED", "DONE"}}
          in == {t \in FiledAs(Transfers, "DONE") : To[t] = v}
          swept == {s \in FiledAs(Sweeps, "DONE") : SweptTo[s] = v}
      IN row[v].available + Worth(out, TransferAmount)
           = Opening[v] + Worth(in, TransferAmount) + Worth(swept, SweepAmount)

\* The only methods that wait for each other in a circle are two confirmations
\* of opposite transfers, each holding its destination and waiting for its
\* source (ConfirmTreasuryTransferOnChain): freezes, credits, reservations,
\* failures and sweeps take one balance row each, after their own row.
OnlyOppositeTransfersDeadlock ==
    \A c \in Deadlocked :
      /\ At(c, "source")
      /\ \E d \in Deadlocked : At(d, "source") /\ From[Key(d)] = To[Key(c)]

\* A deadlock costs a retry and no more: under the server's choice of a victim
\* and the worker's rounds, a transfer that is reserved ends DONE or FAILED.
TransfersSettle ==
    \A t \in Transfers : filed[t] = "RESERVED" ~> filed[t] \in {"DONE", "FAILED"}
=============================================================================
