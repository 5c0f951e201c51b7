------------------------- MODULE VaultLedgerProofs -------------------------
(***************************************************************************)
(* The vault ledger, alone and under its handlers, for any accounts,       *)
(* orders and amounts.                                                     *)
(*                                                                         *)
(* The ledger: every method replaces one row and moves at most one         *)
(* balance; the two Effect predicates say how, and the theorems follow     *)
(* from them.                                                              *)
(*                                                                         *)
(* The handlers, the scanner and the chain: four invariants, each resting  *)
(* on those before:                                                        *)
(*  - Ours: what is held or stored belongs to its order;                   *)
(*  - Solo: an order that was asked for once is at one place, with one     *)
(*    transaction, to the account its row names;                           *)
(*  - Gently: while nothing goes wrong, a transfer that FAILED took        *)
(*    nothing;                                                             *)
(*  - Deep: confirmations that suffice are of a final transaction.         *)
(***************************************************************************)
EXTENDS VaultDispatch, ChainAnswersTheorems

Open == {"RESERVED", "BROADCASTED"}

\* What a treasury transfer's method does to its row, the vaults and the
\* journal.
TransferEffect(x, r) ==
    LET old == transfers[x] IN
    /\ transfers' = [transfers EXCEPT ![x] = r]
    /\ UNCHANGED sweeps
    /\ \/ /\ old.status = "NONE" /\ r.status = "RESERVED"
          /\ TransferAmount[x] <= vault[From[x]]
          /\ vault' = [vault EXCEPT ![From[x]] = @ + (-TransferAmount[x])]
          /\ vaultJournal' = vaultJournal \cup {TransferEntry(x, From[x], "DEBIT_PENDING")}
       \/ /\ old.status \in Open /\ r.status \in Open
          /\ UNCHANGED <<vault, vaultJournal>>
       \/ /\ r.status = old.status /\ old.status # "NONE"
          /\ UNCHANGED <<vault, vaultJournal>>
       \/ /\ old.status \in Open /\ r.status = "DONE"
          /\ vault' = [vault EXCEPT ![To[x]] = @ + TransferAmount[x]]
          /\ vaultJournal' = vaultJournal \cup {TransferEntry(x, From[x], "DEBIT"),
                                                TransferEntry(x, To[x], "CREDIT")}
       \/ /\ old.status \in Open /\ r.status = "FAILED"
          /\ vault' = [vault EXCEPT ![From[x]] = @ + TransferAmount[x]]
          /\ vaultJournal' = vaultJournal \cup {TransferEntry(x, From[x], "ROLLBACK")}

\* What a sweep's method does.
SweepEffect(s, r) ==
    LET old == sweeps[s] IN
    /\ sweeps' = [sweeps EXCEPT ![s] = r]
    /\ UNCHANGED transfers
    /\ \/ /\ r.status = "DONE" => old.status = "DONE" /\ r.dest = old.dest
          /\ UNCHANGED <<vault, vaultJournal>>
       \/ /\ old.status # "DONE" /\ r.status = "DONE" /\ r.dest = old.dest
          /\ vault' = [vault EXCEPT ![old.dest] = @ + SweepAmount[s]]
          /\ vaultJournal' = vaultJournal \cup {<<"SWEEP", s, old.dest, "CREDIT">>}

\* An order row built from its columns is one.
LEMMA OrderType ==
    ASSUME NEW st \in OrderStatus, NEW t \in Txs \cup {NoTx}, NEW c \in Nat
    PROVE  Order(st, t, c) \in OrderRow /\ Order(st, t, c).status = st
BY Zenon DEF Order, OrderRow

\* So is a sweep row.
LEMMA SweepType ==
    ASSUME NEW st \in OrderStatus, NEW t \in Txs \cup {NoTx}, NEW c \in Nat, NEW a \in Accounts
    PROVE  /\ Sweep(st, t, c, a) \in SweepRow
           /\ Sweep(st, t, c, a).status = st /\ Sweep(st, t, c, a).dest = a
BY Zenon DEF Sweep, SweepRow

\* The methods with any report's count, whatever its bound.
TransferMethod(x) ==
    \/ ReserveTreasuryTransfer(x)
    \/ \E t \in Txs : MarkTreasuryTransferBroadcasted(x, t)
    \/ \E c \in Int :
         \/ FailTreasuryTransferOnChain(x, c)
         \/ \E t \in Txs : ConfirmTreasuryTransferOnChain(x, t, c)

SweepMethod(s) ==
    \/ \E a \in Accounts : ReserveSweep(s, a) \/ \E t \in Txs : StartSweep(s, t, a)
    \/ \E c \in Int :
         \/ FailSweepOnChain(s, c)
         \/ \E t \in Txs : ConfirmSweepOnChain(s, t, c)

\* The tables take one of their methods' steps, or none.
TableStep ==
    \/ \E x \in Transfers : TransferMethod(x)
    \/ \E s \in Sweeps : SweepMethod(s)
    \/ UNCHANGED vaultVars

\* Every call of VaultLedger is one of them.
LEMMA CallsAreMethods ==
    ASSUME [VaultNext]_vaultVars
    PROVE  TableStep
<1>1. 0..MaxConfs \subseteq Int
  BY VaultAssumption
<1>2. \A x \in Transfers : TransferCall(x) => TransferMethod(x)
  BY <1>1, Zenon DEF TransferCall, TransferMethod
<1>3. \A s \in Sweeps : SweepCall(s) => SweepMethod(s)
  BY <1>1, Zenon DEF SweepCall, SweepMethod
<1> QED BY <1>2, <1>3, Zenon DEF VaultNext, TableStep

\* Every treasury-transfer method has one of the effects.
LEMMA TransferCases ==
    ASSUME VaultTypeOK, NEW x \in Transfers, TransferMethod(x)
    PROVE  \E r \in OrderRow : TransferEffect(x, r)
<1> USE VaultAssumption
<1> DEFINE old == transfers[x]
<1>t. /\ old \in OrderRow /\ old.status \in OrderStatus /\ old.tx \in Txs \cup {NoTx}
      /\ old.confs \in Nat
  BY Zenon DEF VaultTypeOK, OrderRow
<1>s. {"NONE", "RESERVED", "BROADCASTED", "DONE", "FAILED"} \subseteq OrderStatus
  BY Zenon DEF OrderStatus
<1>u. ASSUME UNCHANGED vaultVars, old.status # "NONE" PROVE TransferEffect(x, old)
  <2>1. transfers' = [transfers EXCEPT ![x] = old]
    BY <1>u, Zenon DEF vaultVars, VaultTypeOK
  <2> QED BY <1>u, <2>1, Zenon DEF TransferEffect, vaultVars
<1>m. ASSUME NEW c \in Int PROVE Most(c, old.confs) \in Nat
  BY <1>t, <1>m DEF Most
<1>1. CASE ReserveTreasuryTransfer(x)
  <2>1. CASE old.status = "NONE"
    <3>1. Order("RESERVED", NoTx, 0) \in OrderRow /\ Order("RESERVED", NoTx, 0).status = "RESERVED"
      BY OrderType, <1>s, Zenon
    <3>2. TransferEffect(x, Order("RESERVED", NoTx, 0))
      BY <1>1, <2>1, <3>1, Zenon DEF ReserveTreasuryTransfer, TransferEffect, AddVault, SetTransfer
    <3> QED BY <3>1, <3>2, Zenon
  <2>2. CASE old.status # "NONE"
    BY <1>1, <1>t, <1>u, <2>2, Zenon DEF ReserveTreasuryTransfer, vaultVars
  <2> QED BY <2>1, <2>2, Zenon
<1>2. ASSUME NEW t \in Txs, MarkTreasuryTransferBroadcasted(x, t)
      PROVE \E r \in OrderRow : TransferEffect(x, r)
  <2>1. /\ Order("BROADCASTED", t, old.confs) \in OrderRow
        /\ Order("BROADCASTED", t, old.confs).status = "BROADCASTED"
    BY OrderType, <1>s, <1>t
  <2>2. TransferEffect(x, Order("BROADCASTED", t, old.confs))
    BY <1>2, <2>1, Zenon DEF MarkTreasuryTransferBroadcasted, TransferEffect, SetTransfer, Open
  <2> QED BY <2>1, <2>2, Zenon
<1>3. ASSUME NEW c \in Int, FailTreasuryTransferOnChain(x, c)
      PROVE \E r \in OrderRow : TransferEffect(x, r)
  <2> DEFINE r == Order("FAILED", old.tx, Most(c, old.confs))
  <2>1. r \in OrderRow /\ r.status = "FAILED"
    BY OrderType, <1>s, <1>t, <1>m, ZenonT(60)
  <2>2. CASE old.status \in {"FAILED", "DONE"}
    BY <1>3, <1>t, <1>u, <2>2, Zenon DEF FailTreasuryTransferOnChain, vaultVars
  <2>3. CASE old.status \notin {"FAILED", "DONE"}
    <3>1. TransferEffect(x, r)
      BY <1>3, <2>1, <2>3, Zenon
         DEF FailTreasuryTransferOnChain, TransferEffect, SetTransfer, AddVault, Open
    <3> QED BY <2>1, <3>1, Zenon
  <2> QED BY <2>2, <2>3, Zenon
<1>4. ASSUME NEW c \in Int, NEW t \in Txs, ConfirmTreasuryTransferOnChain(x, t, c)
      PROVE \E r \in OrderRow : TransferEffect(x, r)
  <2> DEFINE k == Most(c, old.confs)
  <2>1. k \in Nat
    BY <1>m, Zenon
  <2> HIDE DEF k
  <2>2. CASE old.status = "DONE"
    <3>1. Order("DONE", old.tx, k) \in OrderRow /\ Order("DONE", old.tx, k).status = "DONE"
      BY OrderType, <1>s, <1>t, <2>1, ZenonT(60)
    <3>2. TransferEffect(x, Order("DONE", old.tx, k))
      BY <1>4, <2>2, <3>1, Zenon DEF ConfirmTreasuryTransferOnChain, TransferEffect, SetTransfer, k
    <3> QED BY <3>1, <3>2, Zenon
  <2>3. CASE old.status \in Open /\ k < RequiredConfs
    <3>1. /\ Order("BROADCASTED", t, k) \in OrderRow
          /\ Order("BROADCASTED", t, k).status = "BROADCASTED"
      BY OrderType, <1>s, <2>1, Zenon
    <3>2. TransferEffect(x, Order("BROADCASTED", t, k))
      BY <1>4, <2>1, <2>3, <3>1
         DEF ConfirmTreasuryTransferOnChain, TransferEffect, SetTransfer, Open, k
    <3> QED BY <3>1, <3>2, Zenon
  <2>4. CASE old.status \in Open /\ k >= RequiredConfs
    <3>1. Order("DONE", t, k) \in OrderRow /\ Order("DONE", t, k).status = "DONE"
      BY OrderType, <1>s, <2>1, Zenon
    <3>2. TransferEffect(x, Order("DONE", t, k))
      BY <1>4, <2>1, <2>4, <3>1
         DEF ConfirmTreasuryTransferOnChain, TransferEffect, SetTransfer, AddVault, Open, k
    <3> QED BY <3>1, <3>2, Zenon
  <2> QED BY <1>4, <2>1, <2>2, <2>3, <2>4, Zenon DEF ConfirmTreasuryTransferOnChain, Open, k
<1> QED
  BY <1>1, <1>2, <1>3, <1>4, Zenon DEF TransferMethod

\* Every sweep method has one of the effects.
LEMMA SweepCases ==
    ASSUME VaultTypeOK, NEW s \in Sweeps, SweepMethod(s)
    PROVE  \E r \in SweepRow : SweepEffect(s, r)
<1> USE VaultAssumption
<1> DEFINE old == sweeps[s]
<1>t. /\ old \in SweepRow /\ old.status \in OrderStatus /\ old.tx \in Txs \cup {NoTx}
      /\ old.confs \in Nat /\ old.dest \in Accounts
  BY Zenon DEF VaultTypeOK, SweepRow
<1>s. {"NONE", "RESERVED", "BROADCASTED", "DONE", "FAILED"} \subseteq OrderStatus
  BY Zenon DEF OrderStatus
<1>u. ASSUME UNCHANGED vaultVars PROVE SweepEffect(s, old)
  <2>1. sweeps' = [sweeps EXCEPT ![s] = old]
    BY <1>u, Zenon DEF vaultVars, VaultTypeOK
  <2> QED BY <1>u, <2>1, Zenon DEF SweepEffect, vaultVars
<1>m. ASSUME NEW c \in Int PROVE Most(c, old.confs) \in Nat
  BY <1>t, <1>m DEF Most
<1>1. ASSUME NEW a \in Accounts, ReserveSweep(s, a)
      PROVE \E r \in SweepRow : SweepEffect(s, r)
  <2> DEFINE r == Sweep("RESERVED", NoTx, 0, a)
  <2>1. r \in SweepRow /\ r.status = "RESERVED"
    BY SweepType, <1>s
  <2>2. CASE old.status = "NONE"
    <3>1. SweepEffect(s, r)
      BY <1>1, <2>1, <2>2, Zenon DEF ReserveSweep, SweepEffect, SetSweep
    <3> QED BY <2>1, <3>1, Zenon
  <2>3. CASE old.status # "NONE"
    BY <1>1, <1>t, <1>u, <2>3, Zenon DEF ReserveSweep, vaultVars
  <2> QED BY <2>2, <2>3, Zenon
<1>2. ASSUME NEW a \in Accounts, NEW t \in Txs, StartSweep(s, t, a)
      PROVE \E r \in SweepRow : SweepEffect(s, r)
  <2> DEFINE d == IF old.status = "NONE" THEN a ELSE old.dest
             r == Sweep("BROADCASTED", t, old.confs, d)
  <2>1. d \in Accounts
    BY <1>t, Zenon
  <2>2. r \in SweepRow /\ r.status = "BROADCASTED"
    <3>1. ASSUME NEW e \in Accounts
          PROVE  /\ Sweep("BROADCASTED", t, old.confs, e) \in SweepRow
                 /\ Sweep("BROADCASTED", t, old.confs, e).status = "BROADCASTED"
      <4>1. "BROADCASTED" \in OrderStatus /\ t \in Txs \cup {NoTx} /\ old.confs \in Nat
        BY <1>s, <1>t, Zenon
      <4> HIDE DEF old
      <4> QED BY <4>1, SweepType
    <3> QED BY <2>1, <3>1, Zenon
  <2>3. SweepEffect(s, r)
    BY <1>2, <2>2, Zenon DEF StartSweep, SweepEffect, SetSweep
  <2> QED BY <2>2, <2>3, Zenon
<1>3. ASSUME NEW c \in Int, FailSweepOnChain(s, c)
      PROVE \E r \in SweepRow : SweepEffect(s, r)
  <2> DEFINE r == Sweep("FAILED", old.tx, Most(c, old.confs), old.dest)
  <2>1. r \in SweepRow /\ r.status = "FAILED"
    <3>1. "FAILED" \in OrderStatus /\ old.tx \in Txs \cup {NoTx} /\ Most(c, old.confs) \in Nat /\ old.dest \in Accounts
      BY <1>s, <1>t, <1>m, Zenon
    <3> HIDE DEF old
    <3> QED BY <3>1, SweepType
  <2>2. CASE old.status \in {"NONE", "DONE"}
    BY <1>3, <1>t, <1>u, <2>2, Zenon DEF FailSweepOnChain, vaultVars
  <2>3. CASE old.status \notin {"NONE", "DONE"}
    <3>1. SweepEffect(s, r)
      BY <1>3, <2>1, <2>3, Zenon DEF FailSweepOnChain, SweepEffect, SetSweep
    <3> QED BY <2>1, <3>1, Zenon
  <2> QED BY <2>2, <2>3, Zenon
<1>4. ASSUME NEW c \in Int, NEW t \in Txs, ConfirmSweepOnChain(s, t, c)
      PROVE \E r \in SweepRow : SweepEffect(s, r)
  <2> DEFINE k == Most(c, old.confs)
  <2>1. k \in Nat
    BY <1>m, Zenon
  <2> HIDE DEF k
  <2>2. CASE old.status = "DONE"
    <3> DEFINE r == Sweep("DONE", old.tx, k, old.dest)
    <3>1. r \in SweepRow /\ r.status = "DONE" /\ r.dest = old.dest
      <4>1. "DONE" \in OrderStatus /\ old.tx \in Txs \cup {NoTx} /\ k \in Nat /\ old.dest \in Accounts
        BY <1>s, <1>t, <2>1, Zenon
      <4> HIDE DEF old
      <4> QED BY <4>1, SweepType
    <3>2. SweepEffect(s, r)
      BY <1>4, <2>2, <3>1, Zenon DEF ConfirmSweepOnChain, SweepEffect, SetSweep, k
    <3> QED BY <3>1, <3>2, Zenon
  <2>3. CASE old.status # "DONE" /\ k < RequiredConfs
    <3> DEFINE r == Sweep("BROADCASTED", t, k, old.dest)
    <3>1. r \in SweepRow /\ r.status = "BROADCASTED"
      <4>1. "BROADCASTED" \in OrderStatus /\ t \in Txs \cup {NoTx} /\ k \in Nat /\ old.dest \in Accounts
        BY <1>s, <1>t, <2>1, Zenon
      <4> HIDE DEF old
      <4> QED BY <4>1, SweepType
    <3>2. SweepEffect(s, r)
      BY <1>4, <2>1, <2>3, <3>1 DEF ConfirmSweepOnChain, SweepEffect, SetSweep, k
    <3> QED BY <3>1, <3>2, Zenon
  <2>4. CASE old.status # "DONE" /\ k >= RequiredConfs
    <3> DEFINE r == Sweep("DONE", t, k, old.dest)
    <3>1. r \in SweepRow /\ r.status = "DONE" /\ r.dest = old.dest
      <4>1. "DONE" \in OrderStatus /\ t \in Txs \cup {NoTx} /\ k \in Nat /\ old.dest \in Accounts
        BY <1>s, <1>t, <2>1, Zenon
      <4> HIDE DEF old
      <4> QED BY <4>1, SweepType
    <3>2. SweepEffect(s, r)
      BY <1>4, <2>1, <2>4, <3>1 DEF ConfirmSweepOnChain, SweepEffect, SetSweep, AddVault, k
    <3> QED BY <3>1, <3>2, Zenon
  <2> QED BY <2>1, <2>2, <2>3, <2>4
<1> QED
  BY <1>1, <1>2, <1>3, <1>4, Zenon DEF SweepMethod

\* The type invariant is inductive: no method lets a vault fall below zero.
LEMMA VaultTypeStep ==
    ASSUME VaultTypeOK, TableStep
    PROVE  VaultTypeOK'
<1> USE VaultAssumption
<1>1. ASSUME NEW x \in Transfers, NEW r \in OrderRow, TransferEffect(x, r)
      PROVE  VaultTypeOK'
  <2>1. transfers' \in [Transfers -> OrderRow] /\ sweeps' \in [Sweeps -> SweepRow]
    BY <1>1, Zenon DEF TransferEffect, VaultTypeOK
  <2>2. /\ vault \in [Accounts -> Nat] /\ TransferAmount[x] \in Nat
        /\ From[x] \in Accounts /\ To[x] \in Accounts
    BY Zenon DEF VaultTypeOK
  <2>3. vault' \in [Accounts -> Nat]
    BY <1>1, <2>2 DEF TransferEffect
  <2> QED BY <2>1, <2>3, Zenon DEF VaultTypeOK
<1>2. ASSUME NEW s \in Sweeps, NEW r \in SweepRow, SweepEffect(s, r)
      PROVE  VaultTypeOK'
  <2>1. transfers' \in [Transfers -> OrderRow] /\ sweeps' \in [Sweeps -> SweepRow]
    BY <1>2, Zenon DEF SweepEffect, VaultTypeOK
  <2>2. vault \in [Accounts -> Nat] /\ SweepAmount[s] \in Nat /\ sweeps[s].dest \in Accounts
    BY Zenon DEF VaultTypeOK, SweepRow
  <2>3. vault' \in [Accounts -> Nat]
    BY <1>2, <2>2 DEF SweepEffect
  <2> QED BY <2>1, <2>3, Zenon DEF VaultTypeOK
<1>3. CASE UNCHANGED vaultVars
  BY <1>3, Zenon DEF VaultTypeOK, vaultVars
<1> QED
  BY <1>1, <1>2, <1>3, TransferCases, SweepCases, Zenon DEF TableStep

\* The tables of an empty treasury are well formed.
LEMMA VaultTypeInit == VaultInit => VaultTypeOK
<1> SUFFICES ASSUME VaultInit PROVE VaultTypeOK
  BY Zenon
<1>1. "NONE" \in OrderStatus /\ 0 \in Nat /\ NoTx \in Txs \cup {NoTx}
  BY Zenon DEF OrderStatus
<1>2. NoDest \in Accounts
  BY VaultAssumption, Zenon DEF NoDest
<1>3. Order("NONE", NoTx, 0) \in OrderRow /\ Sweep("NONE", NoTx, 0, NoDest) \in SweepRow
  BY <1>1, <1>2, OrderType, SweepType, Zenon
<1> QED BY <1>3, VaultAssumption, Zenon DEF VaultInit, VaultTypeOK

\* Vault balances never go negative and order rows stay well formed
\* (ReserveTreasuryTransfer, Confirm/FailTreasuryTransferOnChain, the sweeps).
THEOREM VaultTypeCorrect == VaultSpec => []VaultTypeOK
BY VaultTypeInit, VaultTypeStep, CallsAreMethods, PTL DEF VaultSpec

\* A settled transfer stays as it is.
Stays == \A x \in Transfers : transfers[x].status \in {"DONE", "FAILED"}
                                 => transfers'[x].status = transfers[x].status

\* No method of the tables reopens one.
LEMMA SettledStep ==
    ASSUME VaultTypeOK, TableStep
    PROVE  Stays
<1>1. ASSUME NEW x \in Transfers, NEW r \in OrderRow, TransferEffect(x, r) PROVE Stays
  BY <1>1, Zenon DEF TransferEffect, VaultTypeOK, Open, Stays
<1>2. ASSUME NEW s \in Sweeps, NEW r \in SweepRow, SweepEffect(s, r) PROVE Stays
  BY <1>2, Zenon DEF SweepEffect, Stays
<1>3. CASE UNCHANGED vaultVars
  BY <1>3, Zenon DEF vaultVars, Stays
<1> QED BY <1>1, <1>2, <1>3, TransferCases, SweepCases, Zenon DEF TableStep

\* A DONE or FAILED treasury transfer keeps its status for ever: no retry of
\* the request, no late broadcast mark and no late report reopens it.
THEOREM TransfersSettleOnce == VaultSpec => SettledTransferIsFinal
<1>1. VaultTypeOK /\ [VaultNext]_vaultVars => [Stays]_vaultVars
  BY SettledStep, CallsAreMethods, Zenon
<1> QED
  BY <1>1, VaultTypeCorrect, PTL DEF VaultSpec, SettledTransferIsFinal, Stays

\* A step keeps the journal in agreement with the order rows.
LEMMA VaultJournalStep ==
    ASSUME VaultTypeOK, VaultJournalTellsTheRows, TableStep
    PROVE  VaultJournalTellsTheRows'
<1> USE VaultAssumption
<1>1. ASSUME NEW x \in Transfers, NEW r \in OrderRow, TransferEffect(x, r)
      PROVE  VaultJournalTellsTheRows'
  <2>1. transfers'[x] = r /\ \A y \in Transfers \ {x} : transfers'[y] = transfers[y]
    BY <1>1, Zenon DEF TransferEffect, VaultTypeOK
  <2>2. ASSUME NEW y \in Transfers, NEW z \in Transfers, NEW a, NEW b, NEW p, NEW q
        PROVE  TransferEntry(y, a, p) = TransferEntry(z, b, q) <=> y = z /\ a = b /\ p = q
    BY Zenon DEF TransferEntry
  <2>3. ASSUME NEW y \in Transfers, NEW s, NEW a, NEW b, NEW p, NEW q
        PROVE  <<"SWEEP", s, a, p>> # TransferEntry(y, b, q)
    BY Zenon DEF TransferEntry
  <2>4. From[x] # To[x]
    BY Zenon
  <2>5. CASE transfers[x].status = "NONE" /\ r.status = "RESERVED"
    BY <1>1, <2>1, <2>2, <2>5 DEF TransferEffect, VaultJournalTellsTheRows, Open
  <2>6. CASE /\ UNCHANGED vaultJournal
             /\ \/ transfers[x].status \in Open /\ r.status \in Open
                \/ r.status = transfers[x].status
    BY <1>1, <2>1, <2>6, ZenonT(60) DEF TransferEffect, VaultJournalTellsTheRows, Open
  <2>7. CASE transfers[x].status \in Open /\ r.status = "DONE"
    BY <1>1, <2>1, <2>2, <2>4, <2>7 DEF TransferEffect, VaultJournalTellsTheRows, Open
  <2>8. CASE transfers[x].status \in Open /\ r.status = "FAILED"
    BY <1>1, <2>1, <2>2, <2>8 DEF TransferEffect, VaultJournalTellsTheRows, Open
  <2> QED BY <1>1, <2>5, <2>6, <2>7, <2>8, Zenon DEF TransferEffect
<1>2. ASSUME NEW s \in Sweeps, NEW r \in SweepRow, SweepEffect(s, r)
      PROVE  VaultJournalTellsTheRows'
  <2>1. sweeps'[s] = r /\ \A z \in Sweeps \ {s} : sweeps'[z] = sweeps[z]
    BY <1>2, Zenon DEF SweepEffect, VaultTypeOK
  <2>2. ASSUME NEW y \in Transfers, NEW a, NEW b, NEW p, NEW q
        PROVE  TransferEntry(y, b, q) # <<"SWEEP", s, a, p>>
    BY Zenon DEF TransferEntry
  <2>3. CASE UNCHANGED vaultJournal /\ (r.status = "DONE" => sweeps[s].status = "DONE" /\ r.dest = sweeps[s].dest)
    BY <1>2, <2>1, <2>3, Zenon DEF SweepEffect, VaultJournalTellsTheRows
  <2>4. CASE r.dest = sweeps[s].dest
             /\ vaultJournal' = vaultJournal \cup {<<"SWEEP", s, sweeps[s].dest, "CREDIT">>}
    BY <1>2, <2>1, <2>2, <2>4 DEF SweepEffect, VaultJournalTellsTheRows
  <2> QED BY <1>2, <2>3, <2>4, Zenon DEF SweepEffect
<1>3. CASE UNCHANGED vaultVars
  BY <1>3, Zenon DEF VaultJournalTellsTheRows, vaultVars
<1> QED
  BY <1>1, <1>2, <1>3, TransferCases, SweepCases, Zenon DEF TableStep

\* vault_journals always tells the state of every treasury transfer and holds
\* the credit of every DONE sweep.
THEOREM VaultJournalled == VaultSpec => []VaultJournalTellsTheRows
<1>1. VaultInit => VaultJournalTellsTheRows
  BY DEF VaultInit, VaultJournalTellsTheRows, Order, Sweep
<1> QED
  BY <1>1, VaultJournalStep, VaultTypeCorrect, CallsAreMethods, PTL DEF VaultSpec

-----------------------------------------------------------------------------
(* The handlers, the chain and the scanner.  The invariant has four layers:  *)
(* Ours (whatever is held or stored belongs to its order), Solo (an order    *)
(* that was asked for once is at one place), Gently (a failed transfer took  *)
(* nothing, while nothing goes wrong) and Deep (what counts as confirmed for *)
(* good is).                                                                 *)

RowConfs(o) == IF o \in Transfers THEN transfers[o].confs ELSE sweeps[o].confs

Out(t) == chain[t].status # "absent"
AtWork(c, o) == calls[c].pc # "idle" /\ calls[c].order = o

\* Transaction t was sent for order o.
SentFor(t, o) == t \in Txs /\ TxOrder[t] = o /\ Out(t)

Ours ==
    /\ \A c \in Callers : calls[c].pc # "idle" =>
         /\ calls[c].order \in AllOrders
         /\ requests[calls[c].order] > 0
         /\ calls[c].pc = "mark" => SentFor(calls[c].tx, calls[c].order)
    /\ \A o \in AllOrders : RowStatus(o) = "BROADCASTED" => SentFor(RowTx(o), o)
    /\ notice # NoReport => notice.order \in AllOrders /\ SentFor(notice.tx, notice.order)

\* An order that was asked for once: one caller serves it, whose step tells
\* its row and that the scanner has not heard of it; one transaction is out
\* for it, to the account its row names.
Solo(o) ==
    /\ \A c, d \in Callers : AtWork(c, o) /\ AtWork(d, o) => c = d
    /\ \A c \in Callers : AtWork(c, o) =>
         /\ notice.order # o
         /\ RowStatus(o) = IF calls[c].pc = "reserve" THEN "NONE" ELSE "RESERVED"
         /\ calls[c].pc \in {"reserve", "broadcast"} => \A t \in Txs : ~SentFor(t, o)
         /\ o \in Sweeps /\ calls[c].pc # "reserve" => sweeps[o].dest = calls[c].dest
    /\ \A t, u \in Txs : SentFor(t, o) /\ SentFor(u, o) => t = u
    /\ requests[o] = 0 => RowStatus(o) = "NONE"
    /\ RowStatus(o) = "NONE" => \A t \in Txs : ~SentFor(t, o)
    /\ RowStatus(o) = "FAILED" => notice.order # o
    /\ o \in Sweeps => \A t \in Txs : SentFor(t, o) => chain[t].to = sweeps[o].dest

Solos == \A o \in AllOrders : requests[o] <= 1 => Solo(o)

\* While nothing goes wrong, nothing is out for a transfer whose broadcast
\* failed, and what is out for a FAILED one has reverted.
Gently ==
    /\ setup.family # "aptos" /\ notice.status = "FAILED" => chain[notice.tx].status = "reverted"
    /\ Calm => \A x \in Transfers :
         /\ \A c \in Callers : AtWork(c, x) /\ calls[c].pc = "fail" => \A t \in Txs : ~SentFor(t, x)
         /\ setup.family # "aptos" /\ RowStatus(x) = "FAILED" =>
              \A t \in Txs : SentFor(t, x) => chain[t].status = "reverted"

\* The confirmations of an order that did not fail, and of a report, are of a
\* final transaction once they are enough.
Deep ==
    /\ notice.status = "CONFIRMED" /\ notice.confs >= RequiredConfs =>
         chain[notice.tx].status = "final"
    /\ \A o \in AllOrders :
         /\ o \in Sweeps => requests[o] <= 1
         /\ \/ RowStatus(o) = "DONE"
            \/ RowStatus(o) # "FAILED" /\ RowConfs(o) >= RequiredConfs
         => \E t \in Txs : TxOrder[t] = o /\ chain[t].status = "final"

-----------------------------------------------------------------------------
(* What the steps do, order by order. *)

Typed == VaultDispatchTypeOK /\ setup \in Setups

CallRow ==
    [pc : {"idle", "reserve", "broadcast", "mark", "fail"}, order : AllOrders \cup {NoOrder},
     dest : Accounts, tx : Txs \cup {NoTx}]
TxStatus == {"absent", "pending", "included", "final", "reverted", "dropped"}
TxRow == [status : TxStatus, to : Accounts]
Report ==
    [order : AllOrders \cup {NoOrder}, tx : Txs \cup {NoTx},
     status : {"NONE", "LISTED", "CONFIRMED", "FAILED"}, confs : Int]

\* The types, by name.
LEMMA TypedIs ==
    Typed <=> /\ VaultTypeOK /\ setup \in Setups
              /\ calls \in [Callers -> CallRow] /\ chain \in [Txs -> TxRow] /\ notice \in Report
              /\ requests \in [AllOrders -> Nat] /\ faults \in Nat
BY Zenon DEF Typed, VaultDispatchTypeOK, CallRow, TxRow, TxStatus, Report

\* The row of o is as it was.
Same(o) ==
    /\ RowStatus(o)' = RowStatus(o) /\ RowTx(o)' = RowTx(o) /\ RowConfs(o)' = RowConfs(o)
    /\ o \in Sweeps => sweeps'[o].dest = sweeps[o].dest

StillRows == \A o \in AllOrders : Same(o)
OthersSame(o) == \A p \in AllOrders \ {o} : Same(p)
Elsewhere(c) == \A d \in Callers \ {c} : calls'[d] = calls[d]
Asked(o) == requests'[o] = requests[o] + 1 /\ \A p \in AllOrders \ {o} : requests'[p] = requests[p]

\* Caller c goes on with the same order.
GoesOn(c, pc) ==
    /\ calls'[c].pc = pc /\ calls'[c].order = calls[c].order /\ calls'[c].dest = calls[c].dest
    /\ Elsewhere(c)

Leaves(c) == calls'[c].pc = "idle" /\ Elsewhere(c)

\* What the ledger does to the row of an order o that is reserved for
\* destination a, marked with transaction t, failed, or confirmed by t with
\* n confirmations.
RowReserved(o, a) ==
    /\ OthersSame(o)
    /\ \/ /\ RowStatus(o) = "NONE" /\ RowStatus(o)' = "RESERVED" /\ RowConfs(o)' = 0
          /\ o \in Sweeps => sweeps'[o].dest = a
       \/ RowStatus(o) \in {"RESERVED", "BROADCASTED", "DONE"} /\ Same(o)

RowMarked(o, t) ==
    /\ OthersSame(o)
    /\ o \in Transfers => RowStatus(o) \in Open
    /\ RowStatus(o)' = "BROADCASTED" /\ RowTx(o)' = t /\ RowConfs(o)' = RowConfs(o)
    /\ o \in Sweeps /\ RowStatus(o) # "NONE" => sweeps'[o].dest = sweeps[o].dest

RowFailed(o) ==
    /\ OthersSame(o)
    /\ o \in Transfers => RowStatus(o) \in Open
    /\ RowStatus(o) \notin {"NONE", "DONE"} /\ RowStatus(o)' = "FAILED"
    /\ o \in Sweeps => sweeps'[o].dest = sweeps[o].dest

RowConfirmed(o, t, n) ==
    /\ OthersSame(o)
    /\ o \in Transfers => RowStatus(o) # "FAILED"
    /\ RowStatus(o) # "NONE" /\ RowConfs(o)' = Most(n, RowConfs(o))
    /\ \/ RowStatus(o) = "DONE" /\ RowStatus(o)' = "DONE"
       \/ RowStatus(o) # "DONE" /\ RowStatus(o)' = "DONE" /\ RowConfs(o)' >= RequiredConfs
       \/ /\ RowStatus(o) # "DONE" /\ RowStatus(o)' = "BROADCASTED" /\ RowTx(o)' = t
          /\ RowConfs(o)' < RequiredConfs
    /\ o \in Sweeps => sweeps'[o].dest = sweeps[o].dest

\* A transfer's row is replaced.
LEMMA TransferRowSet ==
    ASSUME VaultTypeOK, NEW x \in Transfers, NEW st, NEW t, NEW n,
           SetTransfer(x, Order(st, t, n)), UNCHANGED sweeps
    PROVE  /\ OthersSame(x)
           /\ RowStatus(x)' = st /\ RowTx(x)' = t /\ RowConfs(x)' = n
<1>1. /\ transfers'[x] = Order(st, t, n)
      /\ \A y \in Transfers \ {x} : transfers'[y] = transfers[y]
  BY Zenon DEF SetTransfer, VaultTypeOK
<1>2. Order(st, t, n).status = st /\ Order(st, t, n).tx = t /\ Order(st, t, n).confs = n
  BY Zenon DEF Order
<1>3. OthersSame(x)
  BY <1>1, Zenon DEF OthersSame, Same, RowStatus, RowTx, RowConfs, AllOrders
<1> QED BY <1>1, <1>2, <1>3, Zenon DEF RowStatus, RowTx, RowConfs

\* A sweep's row is replaced.
LEMMA SweepRowSet ==
    ASSUME VaultTypeOK, NEW s \in Sweeps, NEW st, NEW t, NEW n, NEW a,
           SetSweep(s, Sweep(st, t, n, a)), UNCHANGED transfers
    PROVE  /\ OthersSame(s)
           /\ RowStatus(s)' = st /\ RowTx(s)' = t /\ RowConfs(s)' = n /\ sweeps'[s].dest = a
<1>1. /\ sweeps'[s] = Sweep(st, t, n, a)
      /\ \A y \in Sweeps \ {s} : sweeps'[y] = sweeps[y]
  BY Zenon DEF SetSweep, VaultTypeOK
<1>2. /\ Sweep(st, t, n, a).status = st /\ Sweep(st, t, n, a).tx = t
      /\ Sweep(st, t, n, a).confs = n /\ Sweep(st, t, n, a).dest = a
  BY Zenon DEF Sweep
<1>3. OthersSame(s)
  BY <1>1, Zenon DEF OthersSame, Same, RowStatus, RowTx, RowConfs, AllOrders
<1>4. s \notin Transfers
  BY VaultDispatchAssumption, Zenon
<1> QED BY <1>1, <1>2, <1>3, <1>4, Zenon DEF RowStatus, RowTx, RowConfs

\* No row changes.
LEMMA RowsKept ==
    ASSUME UNCHANGED <<transfers, sweeps>>
    PROVE  StillRows /\ \A o : OthersSame(o)
BY Zenon DEF StillRows, OthersSame, Same, RowStatus, RowTx, RowConfs

\* ReserveTreasuryTransfer and ReserveSweep.
LEMMA ReserveRow ==
    ASSUME VaultTypeOK, NEW o \in AllOrders, NEW a,
           \/ o \in Transfers /\ ReserveTreasuryTransfer(o)
           \/ o \in Sweeps /\ ReserveSweep(o, a)
    PROVE  RowReserved(o, a)
<1>1. CASE o \in Transfers /\ ReserveTreasuryTransfer(o) /\ transfers[o].status = "NONE"
  <2>1. SetTransfer(o, Order("RESERVED", NoTx, 0)) /\ UNCHANGED sweeps
    BY <1>1, Zenon DEF ReserveTreasuryTransfer
  <2>2. o \notin Sweeps
    BY <1>1, VaultDispatchAssumption, Zenon
  <2>3. OthersSame(o) /\ RowStatus(o)' = "RESERVED" /\ RowConfs(o)' = 0
    BY <1>1, <2>1, TransferRowSet, Zenon
  <2> QED BY <1>1, <2>2, <2>3, Zenon DEF RowReserved, RowStatus
<1>2. CASE o \in Transfers /\ ReserveTreasuryTransfer(o) /\ transfers[o].status # "NONE"
  <2>1. /\ UNCHANGED <<transfers, sweeps>>
        /\ transfers[o].status \in {"RESERVED", "BROADCASTED", "DONE"}
    BY <1>2, Zenon DEF ReserveTreasuryTransfer
  <2> QED BY <1>2, <2>1, RowsKept, Zenon DEF RowReserved, RowStatus, StillRows
<1>3. CASE o \in Sweeps /\ ReserveSweep(o, a) /\ sweeps[o].status = "NONE"
  <2>1. SetSweep(o, Sweep("RESERVED", NoTx, 0, a)) /\ UNCHANGED transfers
    BY <1>3, Zenon DEF ReserveSweep
  <2>2. o \notin Transfers
    BY <1>3, VaultDispatchAssumption, Zenon
  <2>3. OthersSame(o) /\ RowStatus(o)' = "RESERVED" /\ RowConfs(o)' = 0 /\ sweeps'[o].dest = a
    BY <1>3, <2>1, SweepRowSet, Zenon
  <2> QED BY <1>3, <2>2, <2>3, Zenon DEF RowReserved, RowStatus
<1>4. CASE o \in Sweeps /\ ReserveSweep(o, a) /\ sweeps[o].status # "NONE"
  <2>1. /\ UNCHANGED <<transfers, sweeps>>
        /\ sweeps[o].status \in {"RESERVED", "BROADCASTED", "DONE"}
    BY <1>4, Zenon DEF ReserveSweep
  <2>2. o \notin Transfers
    BY <1>4, VaultDispatchAssumption, Zenon
  <2> QED BY <1>4, <2>1, <2>2, RowsKept, Zenon DEF RowReserved, RowStatus, StillRows
<1> QED BY <1>1, <1>2, <1>3, <1>4, Zenon

\* MarkTreasuryTransferBroadcasted and StartSweep.
LEMMA MarkRow ==
    ASSUME VaultTypeOK, NEW o \in AllOrders, NEW t, NEW a,
           \/ o \in Transfers /\ MarkTreasuryTransferBroadcasted(o, t)
           \/ o \in Sweeps /\ StartSweep(o, t, a)
    PROVE  RowMarked(o, t)
<1>1. CASE o \in Transfers /\ MarkTreasuryTransferBroadcasted(o, t)
  <2>1. /\ SetTransfer(o, Order("BROADCASTED", t, transfers[o].confs)) /\ UNCHANGED sweeps
        /\ transfers[o].status \in Open
    BY <1>1, Zenon DEF MarkTreasuryTransferBroadcasted, Open
  <2>2. o \notin Sweeps
    BY <1>1, VaultDispatchAssumption, Zenon
  <2>3. /\ OthersSame(o) /\ RowStatus(o)' = "BROADCASTED" /\ RowTx(o)' = t
        /\ RowConfs(o)' = transfers[o].confs
    BY <1>1, <2>1, TransferRowSet, Zenon
  <2> QED BY <1>1, <2>1, <2>2, <2>3, Zenon DEF RowMarked, RowStatus, RowConfs
<1>2. CASE o \in Sweeps /\ StartSweep(o, t, a)
  <2> DEFINE d == IF sweeps[o].status = "NONE" THEN a ELSE sweeps[o].dest
  <2>1. SetSweep(o, Sweep("BROADCASTED", t, sweeps[o].confs, d)) /\ UNCHANGED transfers
    BY <1>2, Zenon DEF StartSweep
  <2>2. o \notin Transfers
    BY <1>2, VaultDispatchAssumption, Zenon
  <2>3. sweeps[o].status # "NONE" => d = sweeps[o].dest
    BY Zenon
  <2> HIDE DEF d
  <2>4. /\ OthersSame(o) /\ RowStatus(o)' = "BROADCASTED" /\ RowTx(o)' = t
        /\ RowConfs(o)' = sweeps[o].confs /\ sweeps'[o].dest = d
    BY <1>2, <2>1, SweepRowSet, Zenon
  <2> QED BY <1>2, <2>2, <2>3, <2>4, Zenon DEF RowMarked, RowStatus, RowConfs
<1> QED BY <1>1, <1>2, Zenon

\* FailTreasuryTransferOnChain and FailSweepOnChain.
LEMMA FailRow ==
    ASSUME VaultTypeOK, NEW o \in AllOrders, NEW n,
           \/ o \in Transfers /\ FailTreasuryTransferOnChain(o, n)
           \/ o \in Sweeps /\ FailSweepOnChain(o, n)
    PROVE  RowFailed(o) \/ StillRows
<1>1. CASE /\ o \in Transfers /\ FailTreasuryTransferOnChain(o, n)
           /\ transfers[o].status \in Open
  <2>1. /\ SetTransfer(o, Order("FAILED", transfers[o].tx, Most(n, transfers[o].confs)))
        /\ UNCHANGED sweeps
    BY <1>1, Zenon DEF FailTreasuryTransferOnChain, Open
  <2>2. o \notin Sweeps
    BY <1>1, VaultDispatchAssumption, Zenon
  <2>3. OthersSame(o) /\ RowStatus(o)' = "FAILED"
    BY <1>1, <2>1, TransferRowSet, Zenon
  <2> QED BY <1>1, <2>2, <2>3, Zenon DEF RowFailed, RowStatus, Open
<1>2. CASE /\ o \in Transfers /\ FailTreasuryTransferOnChain(o, n)
           /\ transfers[o].status \notin Open
  <2>1. UNCHANGED <<transfers, sweeps>>
    BY <1>2, Zenon DEF FailTreasuryTransferOnChain, Open
  <2> QED BY <2>1, RowsKept, Zenon
<1>3. CASE o \in Sweeps /\ FailSweepOnChain(o, n) /\ sweeps[o].status \notin {"NONE", "DONE"}
  <2>1. /\ SetSweep(o, Sweep("FAILED", sweeps[o].tx, Most(n, sweeps[o].confs), sweeps[o].dest))
        /\ UNCHANGED transfers
    BY <1>3, Zenon DEF FailSweepOnChain
  <2>2. o \notin Transfers
    BY <1>3, VaultDispatchAssumption, Zenon
  <2>3. OthersSame(o) /\ RowStatus(o)' = "FAILED" /\ sweeps'[o].dest = sweeps[o].dest
    BY <1>3, <2>1, SweepRowSet, ZenonT(60)
  <2> QED BY <1>3, <2>2, <2>3, Zenon DEF RowFailed, RowStatus
<1>4. CASE o \in Sweeps /\ FailSweepOnChain(o, n) /\ sweeps[o].status \in {"NONE", "DONE"}
  <2>1. UNCHANGED <<transfers, sweeps>>
    BY <1>4, Zenon DEF FailSweepOnChain
  <2> QED BY <2>1, RowsKept, Zenon
<1> QED BY <1>1, <1>2, <1>3, <1>4, Zenon

\* ConfirmTreasuryTransferOnChain and ConfirmSweepOnChain.
LEMMA ConfirmRow ==
    ASSUME VaultTypeOK, NEW o \in AllOrders, NEW t, NEW n \in Int,
           \/ o \in Transfers /\ ConfirmTreasuryTransferOnChain(o, t, n)
           \/ o \in Sweeps /\ ConfirmSweepOnChain(o, t, n)
    PROVE  RowConfirmed(o, t, n)
<1> USE DEF RowConfirmed
<1>1. CASE o \in Transfers /\ ConfirmTreasuryTransferOnChain(o, t, n)
  <2> DEFINE old == transfers[o]
             k == Most(n, old.confs)
  <2>1. k \in Int /\ RequiredConfs \in Int
    BY <1>1, VaultAssumption DEF Most, VaultTypeOK, OrderRow
  <2>2. o \notin Sweeps
    BY <1>1, VaultDispatchAssumption, Zenon
  <2>3. RowStatus(o) = old.status /\ RowConfs(o) = old.confs
    BY <1>1, Zenon DEF RowStatus, RowConfs
  <2>4. CASE old.status = "DONE" /\ SetTransfer(o, Order("DONE", old.tx, k)) /\ UNCHANGED sweeps
    <3>1. OthersSame(o) /\ RowStatus(o)' = "DONE" /\ RowConfs(o)' = k
      BY <1>1, <2>4, TransferRowSet, Zenon
    <3> QED BY <2>2, <2>3, <2>4, <3>1, Zenon
  <2>5. CASE /\ old.status \in Open /\ k < RequiredConfs
             /\ SetTransfer(o, Order("BROADCASTED", t, k)) /\ UNCHANGED sweeps
    <3>1. OthersSame(o) /\ RowStatus(o)' = "BROADCASTED" /\ RowTx(o)' = t /\ RowConfs(o)' = k
      BY <1>1, <2>5, TransferRowSet, Zenon
    <3> QED BY <2>2, <2>3, <2>5, <3>1, Zenon DEF Open
  <2>6. CASE /\ old.status \in Open /\ k >= RequiredConfs
             /\ SetTransfer(o, Order("DONE", t, k)) /\ UNCHANGED sweeps
    <3>1. OthersSame(o) /\ RowStatus(o)' = "DONE" /\ RowConfs(o)' = k
      BY <1>1, <2>6, TransferRowSet, Zenon
    <3> QED BY <2>2, <2>3, <2>6, <3>1, Zenon DEF Open
  <2> QED BY <1>1, <2>4, <2>5, <2>6, Zenon DEF ConfirmTreasuryTransferOnChain, Open
<1>2. CASE o \in Sweeps /\ ConfirmSweepOnChain(o, t, n)
  <2> DEFINE old == sweeps[o]
             k == Most(n, old.confs)
  <2>1. k \in Int /\ RequiredConfs \in Int
    BY <1>2, VaultAssumption DEF Most, VaultTypeOK, SweepRow
  <2>2. o \notin Transfers
    BY <1>2, VaultDispatchAssumption, Zenon
  <2>3. RowStatus(o) = old.status /\ RowConfs(o) = old.confs
    BY <2>2, Zenon DEF RowStatus, RowConfs
  <2>4. CASE /\ old.status = "DONE"
             /\ SetSweep(o, Sweep("DONE", old.tx, k, old.dest)) /\ UNCHANGED transfers
    <3>1. OthersSame(o) /\ RowStatus(o)' = "DONE" /\ RowConfs(o)' = k /\ sweeps'[o].dest = old.dest
      BY <1>2, <2>4, SweepRowSet, SMTT(60)
    <3> QED BY <2>2, <2>3, <2>4, <3>1, Zenon
  <2>5. CASE /\ old.status \notin {"NONE", "DONE"} /\ k < RequiredConfs
             /\ SetSweep(o, Sweep("BROADCASTED", t, k, old.dest)) /\ UNCHANGED transfers
    <3>1. /\ OthersSame(o) /\ RowStatus(o)' = "BROADCASTED" /\ RowTx(o)' = t
          /\ RowConfs(o)' = k /\ sweeps'[o].dest = old.dest
      BY <1>2, <2>5, SweepRowSet, Zenon
    <3> QED BY <2>2, <2>3, <2>5, <3>1, Zenon
  <2>6. CASE /\ old.status \notin {"NONE", "DONE"} /\ k >= RequiredConfs
             /\ SetSweep(o, Sweep("DONE", t, k, old.dest)) /\ UNCHANGED transfers
    <3>1. OthersSame(o) /\ RowStatus(o)' = "DONE" /\ RowConfs(o)' = k /\ sweeps'[o].dest = old.dest
      BY <1>2, <2>6, SweepRowSet, ZenonT(60)
    <3> QED BY <2>2, <2>3, <2>6, <3>1, Zenon
  <2> QED BY <1>2, <2>4, <2>5, <2>6, Zenon DEF ConfirmSweepOnChain
<1> QED BY <1>1, <1>2, Zenon

\* What a report may say of a transaction.
ReportFair(t, st, n) ==
    /\ st = "FAILED" /\ setup.family # "aptos" => chain[t].status = "reverted"
    /\ st = "CONFIRMED" /\ n > 1 => chain[t].status = "final"

\* A report that a transaction failed is about one that reverted, but on
\* Aptos, and a report of more than one confirmation is about a final one
\* (scanOutgoingConfirmations).
LEMMA FindingsFair ==
    ASSUME Typed, NEW t \in Txs, NEW g \in TxFinality(setup.family, Shown(t))
    PROVE  /\ Finding(g).status \in {"NONE", "CONFIRMED", "FAILED"} /\ Finding(g).confs \in Int
           /\ ReportFair(t, Finding(g).status, Finding(g).confs)
<1> DEFINE tx == Shown(t)
<1>1. setup.family \in Families
  BY VaultDispatchAssumption, Zenon DEF Typed, VaultSetup
<1>2. chain[t].status \in TxStatus
  BY TypedIs, Zenon DEF TxRow
<1>3. FinalDepth \in Nat \ {0} /\ FinalDepth + RequiredConfs \in Nat \ {0} /\ 1 \in Nat \ {0}
  BY FinalDepthAssumption, VaultAssumption, SMTT(60)
<1>4. /\ tx \in ShownTx
      /\ tx.place = "block" /\ tx.good /\ tx.depth > 1 => chain[t].status = "final"
      /\ tx.place = "block" /\ ~tx.good => chain[t].status = "reverted"
  <2>1. CASE chain[t].status \in {"absent", "dropped"}
    <3>1. tx = Unknown /\ tx.place = "unknown"
      BY <2>1, Zenon DEF Shown, Unknown
    <3> QED BY <3>1, Zenon DEF ShownTx
  <2>2. CASE chain[t].status = "pending"
    <3>1. tx = Pooled /\ tx.place = "pool"
      BY <2>2, Zenon DEF Shown, Pooled
    <3> QED BY <3>1, Zenon DEF ShownTx
  <2>3. CASE chain[t].status = "included"
    <3>1. tx = InBlock(1, TRUE) /\ tx.depth = 1 /\ tx.good
      BY <2>3, Zenon DEF Shown, InBlock
    <3>2. tx \in ShownTx
      BY <1>3, <3>1, Zenon DEF ShownTx
    <3>3. ~(tx.depth > 1)
      <4>1. tx.depth = 1
        BY <3>1, Zenon
      <4> HIDE DEF tx
      <4> QED BY <4>1
    <3> QED BY <3>1, <3>2, <3>3, Zenon
  <2>4. CASE chain[t].status = "final"
    <3>1. tx = InBlock(FinalDepth + RequiredConfs, TRUE) /\ tx.good
      BY <2>4, Zenon DEF Shown, InBlock
    <3> QED BY <1>3, <2>4, <3>1, Zenon DEF ShownTx
  <2>5. CASE chain[t].status = "reverted"
    <3>1. tx = InBlock(FinalDepth, FALSE) /\ ~tx.good
      BY <2>5, Zenon DEF Shown, InBlock
    <3> QED BY <1>3, <2>5, <3>1, Zenon DEF ShownTx
  <2> QED BY <1>2, <2>1, <2>2, <2>3, <2>4, <2>5, Zenon DEF TxStatus
<1> HIDE DEF tx
<1>5. /\ g.status \in {"PENDING", "CONFIRMED", "REVERTED", "FINALIZED"} /\ g.confs \in Int
      /\ g.status = "REVERTED" /\ setup.family # "aptos" => tx.place = "block" /\ ~tx.good
      /\ g.status \in {"CONFIRMED", "FINALIZED"} /\ g.confs > 0 =>
           tx.place = "block" /\ tx.good /\ g.confs <= tx.depth
  <2>1. g \in TxFinality(setup.family, tx)
    BY Zenon DEF tx
  <2> QED BY <1>1, <1>4, <2>1, AnswersFair, Zenon
<1>6. tx.depth \in Nat
  BY <1>4 DEF ShownTx, Unknown, Pooled, InBlock
<1>7. CASE g.status = "REVERTED"
  BY <1>4, <1>5, <1>7, Zenon DEF Finding, Answer, ReportFair
<1>8. CASE g.status = "PENDING"
  BY <1>8 DEF Finding, Answer, ReportFair
<1>9. CASE g.status \in {"CONFIRMED", "FINALIZED"}
  <2>1. Finding(g).status = "CONFIRMED" /\ Finding(g).confs = g.confs
    BY <1>9, Zenon DEF Finding, Answer
  <2>2. g.confs > 1 => tx.place = "block" /\ tx.good /\ tx.depth > 1
    BY <1>5, <1>6, <1>9
  <2> QED BY <1>4, <1>5, <2>1, <2>2, Zenon DEF ReportFair
<1> QED BY <1>5, <1>7, <1>8, <1>9, Zenon

\* The shapes of the steps: a request starts, or is answered from its row;
\* its order is reserved; its caller leaves; nothing is sent, or a
\* transaction is; the order is marked, or failed; the chain moves; the
\* scanner lists, looks, tells, or forgets; nothing changes.
Starts(c, o) ==
    /\ calls[c].pc = "idle"
    /\ calls'[c].pc = "reserve" /\ calls'[c].order = o /\ Elsewhere(c)
    /\ Asked(o)
    /\ o \in Transfers => RowStatus(o) = "NONE"
    /\ StillRows /\ UNCHANGED <<chain, notice, faults, setup>>

Answers(o) ==
    /\ RowStatus(o) # "NONE" /\ Asked(o)
    /\ StillRows /\ UNCHANGED <<calls, chain, notice, faults, setup>>

Reserves(c, o) ==
    /\ calls[c].pc = "reserve" /\ calls[c].order = o /\ GoesOn(c, "broadcast")
    /\ RowReserved(o, calls[c].dest)
    /\ UNCHANGED <<chain, notice, requests, faults, setup>>

Quits(c) ==
    /\ Leaves(c) /\ StillRows
    /\ faults' >= faults
    /\ UNCHANGED <<chain, notice, requests, setup>>

Misses(c) ==
    /\ calls[c].pc = "broadcast" /\ GoesOn(c, "fail")
    /\ StillRows /\ UNCHANGED <<chain, notice, requests, faults, setup>>

Sends(c, t) ==
    /\ calls[c].pc = "broadcast" /\ TxOrder[t] = calls[c].order
    /\ chain[t].status = "absent"
    /\ chain'[t].status = "pending" /\ chain'[t].to = calls[c].dest
    /\ \A u \in Txs \ {t} : chain'[u] = chain[u]
    /\ \/ GoesOn(c, "mark") /\ calls'[c].tx = t /\ UNCHANGED faults
       \/ GoesOn(c, "fail") /\ faults' = faults + 1
    /\ StillRows /\ UNCHANGED <<notice, requests, setup>>

Marks(c, o) ==
    /\ calls[c].pc = "mark" /\ calls[c].order = o /\ Leaves(c)
    /\ RowMarked(o, calls[c].tx)
    /\ UNCHANGED <<chain, notice, requests, faults, setup>>

Fails(c, o) ==
    /\ calls[c].pc = "fail" /\ calls[c].order = o /\ Leaves(c)
    /\ RowFailed(o)
    /\ UNCHANGED <<chain, notice, requests, faults, setup>>

Advances(t) ==
    /\ \/ chain[t].status = "pending" /\ chain'[t].status \in {"included", "reverted", "dropped"}
       \/ chain[t].status = "included" /\ chain'[t].status = "final"
    /\ chain'[t].to = chain[t].to
    /\ \A u \in Txs \ {t} : chain'[u] = chain[u]
    /\ StillRows /\ UNCHANGED <<calls, notice, requests, faults, setup>>

Lists(o) ==
    /\ RowStatus(o) = "BROADCASTED"
    /\ notice'.order = o /\ notice'.tx = RowTx(o) /\ notice'.status = "LISTED"
    /\ StillRows /\ UNCHANGED <<calls, chain, requests, faults, setup>>

Looks ==
    /\ notice # NoReport
    /\ notice'.order = notice.order /\ notice'.tx = notice.tx
    /\ ReportFair(notice.tx, notice'.status, notice'.confs)
    /\ StillRows /\ UNCHANGED <<calls, chain, requests, faults, setup>>

Tells(o) ==
    /\ notice.order = o /\ notice' = NoReport
    /\ \/ notice.status = "FAILED" /\ RowFailed(o)
       \/ notice.status = "CONFIRMED" /\ RowConfirmed(o, notice.tx, notice.confs)
    /\ UNCHANGED <<calls, chain, requests, faults, setup>>

Forgets ==
    /\ notice' = NoReport
    /\ faults' >= faults
    /\ StillRows /\ UNCHANGED <<calls, chain, requests, setup>>

Rests == StillRows /\ UNCHANGED <<calls, chain, notice, requests, faults, setup>>

CallStep == {"idle", "reserve", "broadcast", "mark", "fail"}

\* A caller at another step of the same request.
LEMMA CallGoes ==
    ASSUME calls \in [Callers -> CallRow], NEW c \in Callers, NEW pc \in CallStep, Goto(c, pc)
    PROVE  GoesOn(c, pc) /\ calls' \in [Callers -> CallRow]
<1>1. calls[c] \in CallRow
  BY Zenon
<1>2. [calls[c] EXCEPT !.pc = pc] \in CallRow
  BY <1>1, Zenon DEF CallRow, CallStep
<1>3. /\ calls'[c] = [calls[c] EXCEPT !.pc = pc]
      /\ \A d \in Callers \ {c} : calls'[d] = calls[d]
  BY Zenon DEF Goto
<1>4. calls' \in [Callers -> CallRow]
  BY <1>2, Zenon DEF Goto
<1>5. /\ [calls[c] EXCEPT !.pc = pc].pc = pc
      /\ [calls[c] EXCEPT !.pc = pc].order = calls[c].order
      /\ [calls[c] EXCEPT !.pc = pc].dest = calls[c].dest
  BY <1>1, Zenon DEF CallRow
<1> QED BY <1>3, <1>4, <1>5, Zenon DEF GoesOn, Elsewhere

\* A caller that answers its request.
LEMMA CallReturns ==
    ASSUME calls \in [Callers -> CallRow], NEW c \in Callers, Return(c)
    PROVE  Leaves(c) /\ calls' \in [Callers -> CallRow]
<1>1. NoCall \in CallRow /\ NoCall.pc = "idle"
  BY VaultDispatchAssumption, Zenon DEF NoCall, CallRow, NoAccount
<1> QED BY <1>1, Zenon DEF Return, Leaves, Elsewhere

\* A caller that begins one.
LEMMA CallBegins ==
    ASSUME calls \in [Callers -> CallRow], NEW c \in Callers, NEW o \in AllOrders,
           NEW a \in Accounts, Begin(c, o, a)
    PROVE  /\ calls'[c].pc = "reserve" /\ calls'[c].order = o /\ Elsewhere(c)
           /\ calls' \in [Callers -> CallRow]
<1> DEFINE r == [pc |-> "reserve", order |-> o, dest |-> a, tx |-> NoTx]
<1>1. r \in CallRow /\ r.pc = "reserve" /\ r.order = o
  BY Zenon DEF CallRow
<1> HIDE DEF r
<1>2. calls' = [calls EXCEPT ![c] = r]
  BY Zenon DEF Begin, r
<1> QED BY <1>1, <1>2, Zenon DEF Elsewhere

\* A request is counted.
LEMMA RequestCounts ==
    ASSUME requests \in [AllOrders -> Nat], NEW c, NEW o \in AllOrders, Arrive(c, o)
    PROVE  calls[c].pc = "idle" /\ Asked(o) /\ requests' \in [AllOrders -> Nat]
BY SMTT(60) DEF Arrive, Asked, At

\* What the steps of the handlers, the chain and the scanner come to.
Shaped ==
    \/ \E c \in Callers, o \in AllOrders :
         Starts(c, o) \/ Reserves(c, o) \/ Marks(c, o) \/ Fails(c, o)
    \/ \E c \in Callers : Quits(c) \/ Misses(c) \/ \E t \in Txs : Sends(c, t)
    \/ \E o \in AllOrders : Answers(o) \/ Lists(o) \/ Tells(o)
    \/ \E t \in Txs : Advances(t)
    \/ Looks \/ Forgets \/ Rests

Rest == calls' \in [Callers -> CallRow] /\ chain' \in [Txs -> TxRow] /\ notice' \in Report
          /\ requests' \in [AllOrders -> Nat] /\ faults' \in Nat /\ setup' \in Setups

\* TreasuryTransfer's look-up.
LEMMA TransferLookupShape ==
    ASSUME Typed, NEW c \in Callers, NEW x \in Transfers, TransferLookup(c, x)
    PROVE  Shaped /\ Rest /\ UNCHANGED vaultVars
<1>1. x \in AllOrders /\ To[x] \in Accounts /\ RowStatus(x) = transfers[x].status
  BY VaultAssumption, Zenon DEF AllOrders, RowStatus
<1>2. calls[c].pc = "idle" /\ Asked(x) /\ requests' \in [AllOrders -> Nat]
  BY <1>1, TypedIs, RequestCounts, Zenon DEF TransferLookup
<1>3. StillRows
  BY RowsKept, Zenon DEF TransferLookup, vaultVars
<1>4. CASE transfers[x].status = "NONE" /\ Begin(c, x, To[x])
  <2>1. /\ calls'[c].pc = "reserve" /\ calls'[c].order = x /\ Elsewhere(c)
        /\ calls' \in [Callers -> CallRow]
    BY <1>1, <1>4, TypedIs, CallBegins, Zenon
  <2>2. Starts(c, x)
    BY <1>1, <1>2, <1>3, <1>4, <2>1, Zenon DEF Starts, TransferLookup
  <2> QED BY <1>1, <1>2, <2>1, <2>2, TypedIs, Zenon DEF Shaped, Rest, TransferLookup
<1>5. CASE transfers[x].status # "NONE" /\ UNCHANGED calls
  <2>1. Answers(x)
    BY <1>1, <1>2, <1>3, <1>5, Zenon DEF Answers, TransferLookup
  <2> QED BY <1>1, <1>2, <1>5, <2>1, TypedIs, Zenon DEF Shaped, Rest, TransferLookup
<1> QED BY <1>4, <1>5, Zenon DEF TransferLookup

\* SweepRun's choice of a destination.
LEMMA SweepRouteShape ==
    ASSUME Typed, NEW c \in Callers, NEW s \in Sweeps, SweepRoute(c, s)
    PROVE  Shaped /\ Rest /\ UNCHANGED vaultVars
<1>1. s \in AllOrders /\ s \notin Transfers /\ ResolveSweepDestination(s) \in Accounts
  BY VaultDispatchAssumption, Zenon DEF AllOrders, ResolveSweepDestination
<1>2. calls[c].pc = "idle" /\ Asked(s) /\ requests' \in [AllOrders -> Nat]
  BY <1>1, TypedIs, RequestCounts, Zenon DEF SweepRoute
<1>3. StillRows
  BY RowsKept, Zenon DEF SweepRoute, vaultVars
<1>4. /\ calls'[c].pc = "reserve" /\ calls'[c].order = s /\ Elsewhere(c)
      /\ calls' \in [Callers -> CallRow]
  BY <1>1, TypedIs, CallBegins, Zenon DEF SweepRoute
<1>5. Starts(c, s)
  BY <1>1, <1>2, <1>3, <1>4, Zenon DEF Starts, SweepRoute
<1> QED BY <1>1, <1>2, <1>4, <1>5, TypedIs, Zenon DEF Shaped, Rest, SweepRoute

\* The reservation, granted or refused.
LEMMA ReserveShape ==
    ASSUME Typed, NEW c \in Callers, Reserve(c)
    PROVE  Shaped /\ Rest /\ TableStep
<1> DEFINE o == calls[c].order
<1>1. VaultTypeOK /\ calls \in [Callers -> CallRow] /\ calls[c].dest \in Accounts
  BY TypedIs, Zenon DEF CallRow
<1>2. ASSUME calls' \in [Callers -> CallRow] PROVE Rest
  BY <1>2, TypedIs, Zenon DEF Rest, Reserve
<1>3. CASE /\ Goto(c, "broadcast")
           /\ \/ o \in Transfers /\ ReserveTreasuryTransfer(o)
              \/ o \in Sweeps /\ ReserveSweep(o, calls[c].dest)
  <2>1. o \in AllOrders
    BY <1>3, Zenon DEF AllOrders
  <2>2. GoesOn(c, "broadcast") /\ calls' \in [Callers -> CallRow]
    BY <1>1, <1>3, CallGoes, Zenon DEF CallStep
  <2>3. RowReserved(o, calls[c].dest)
    BY <1>1, <1>3, <2>1, ReserveRow, Zenon
  <2>4. Reserves(c, o)
    BY <2>2, <2>3, Zenon DEF Reserves, Reserve, At
  <2>5. TableStep
    BY <1>1, <1>3, Zenon DEF TableStep, TransferMethod, SweepMethod
  <2> QED BY <1>2, <2>1, <2>2, <2>4, <2>5, Zenon DEF Shaped
<1>4. CASE UNCHANGED vaultVars /\ Return(c)
  <2>1. Leaves(c) /\ calls' \in [Callers -> CallRow]
    BY <1>1, <1>4, CallReturns, Zenon
  <2>2. faults' >= faults
    BY TypedIs, SMTT(60) DEF Reserve
  <2>3. Quits(c)
    BY <1>4, <2>1, <2>2, RowsKept, Zenon DEF Quits, Reserve, vaultVars
  <2> QED BY <1>2, <1>4, <2>1, <2>3, Zenon DEF Shaped, TableStep
<1> QED BY <1>3, <1>4, Zenon DEF Reserve

\* The broadcast: it fails, it is out, or it is out and its answer lost.
LEMMA BroadcastShape ==
    ASSUME Typed, NEW c \in Callers, Broadcast(c)
    PROVE  Shaped /\ Rest /\ UNCHANGED vaultVars
<1>1. /\ calls \in [Callers -> CallRow] /\ calls[c].dest \in Accounts /\ faults \in Nat
      /\ chain \in [Txs -> TxRow] /\ faults + 1 \in Nat
  BY TypedIs DEF CallRow
<1>2. StillRows
  BY RowsKept, Zenon DEF Broadcast, vaultVars
<1>3. CASE Goto(c, "fail") /\ UNCHANGED <<chain, faults>>
  <2>1. GoesOn(c, "fail") /\ calls' \in [Callers -> CallRow]
    BY <1>1, <1>3, CallGoes, Zenon DEF CallStep
  <2>2. Misses(c)
    BY <1>2, <1>3, <2>1, Zenon DEF Misses, Broadcast, At
  <2> QED BY <1>3, <2>1, <2>2, TypedIs, Zenon DEF Shaped, Rest, Broadcast
<1>4. ASSUME NEW t \in Fresh(calls[c].order),
             chain' = [chain EXCEPT ![t] = [status |-> "pending", to |-> calls[c].dest]],
             \/ /\ calls' = [calls EXCEPT ![c].pc = "mark", ![c].tx = t]
                /\ UNCHANGED faults
             \/ Goto(c, "fail") /\ faults' = faults + 1
      PROVE  Shaped /\ Rest
  <2> DEFINE r == [status |-> "pending", to |-> calls[c].dest]
  <2>1. t \in Txs /\ TxOrder[t] = calls[c].order /\ chain[t].status = "absent"
    BY Zenon DEF Fresh
  <2>2. r \in TxRow /\ r.status = "pending" /\ r.to = calls[c].dest
    BY <1>1, Zenon DEF TxRow, TxStatus
  <2>3. chain' \in [Txs -> TxRow] /\ chain'[t] = r /\ \A u \in Txs \ {t} : chain'[u] = chain[u]
    <3> HIDE DEF r
    <3>1. chain' = [chain EXCEPT ![t] = r]
      BY <1>4, Zenon DEF r
    <3> QED BY <1>1, <2>1, <2>2, <3>1, Zenon
  <2>4. ASSUME calls' = [calls EXCEPT ![c].pc = "mark", ![c].tx = t]
        PROVE  GoesOn(c, "mark") /\ calls'[c].tx = t /\ calls' \in [Callers -> CallRow]
    <3>1. calls[c] \in CallRow
      BY <1>1, Zenon
    <3> DEFINE q == [calls[c] EXCEPT !.pc = "mark", !.tx = t]
    <3>2. q \in CallRow
      BY <2>1, <3>1, Zenon DEF CallRow
    <3>3. q.pc = "mark" /\ q.tx = t /\ q.order = calls[c].order /\ q.dest = calls[c].dest
      BY <3>1, Zenon DEF CallRow
    <3>4. calls'[c] = q /\ \A d \in Callers \ {c} : calls'[d] = calls[d]
      BY <1>1, <2>4, Zenon
    <3>5. calls' \in [Callers -> CallRow]
      BY <1>1, <2>4, <3>2, Zenon
    <3> QED BY <3>3, <3>4, <3>5, Zenon DEF GoesOn, Elsewhere
  <2>5. ASSUME Goto(c, "fail") PROVE GoesOn(c, "fail") /\ calls' \in [Callers -> CallRow]
    BY <1>1, <2>5, CallGoes, Zenon DEF CallStep
  <2>6. calls' \in [Callers -> CallRow] /\ faults' \in Nat
    BY <1>1, <1>4, <2>4, <2>5, Zenon
  <2>7. Sends(c, t)
    BY <1>2, <1>4, <2>1, <2>2, <2>3, <2>4, <2>5, Zenon DEF Sends, Broadcast, At
  <2> QED BY <2>1, <2>3, <2>6, <2>7, TypedIs, Zenon DEF Shaped, Rest, Broadcast
<1>5. UNCHANGED vaultVars
  BY Zenon DEF Broadcast
<1> QED BY <1>3, <1>4, <1>5, Zenon DEF Broadcast

\* The mark, or none on a transfer that is settled.
LEMMA MarkShape ==
    ASSUME Typed, Ours, NEW c \in Callers, Mark(c)
    PROVE  Shaped /\ Rest /\ TableStep
<1> DEFINE o == calls[c].order
<1>1. /\ VaultTypeOK /\ calls \in [Callers -> CallRow] /\ calls[c].dest \in Accounts
      /\ calls[c].tx \in Txs
  BY TypedIs, Zenon DEF CallRow, Ours, SentFor, Mark, At
<1>2. Leaves(c) /\ calls' \in [Callers -> CallRow]
  BY <1>1, CallReturns, Zenon DEF Mark
<1>3. Rest
  BY <1>2, TypedIs, Zenon DEF Rest, Mark
<1>4. CASE \/ o \in Transfers /\ MarkTreasuryTransferBroadcasted(o, calls[c].tx)
           \/ o \in Sweeps /\ StartSweep(o, calls[c].tx, calls[c].dest)
  <2>1. o \in AllOrders
    BY <1>4, Zenon DEF AllOrders
  <2>2. RowMarked(o, calls[c].tx)
    BY <1>1, <1>4, <2>1, MarkRow, Zenon
  <2>3. Marks(c, o)
    BY <1>2, <2>2, Zenon DEF Marks, Mark, At
  <2>4. TableStep
    BY <1>1, <1>4, Zenon DEF TableStep, TransferMethod, SweepMethod
  <2> QED BY <1>3, <2>1, <2>3, <2>4, Zenon DEF Shaped
<1>5. CASE UNCHANGED vaultVars
  <2>1. faults' >= faults
    BY TypedIs DEF Mark
  <2>2. Quits(c)
    BY <1>2, <1>5, <2>1, RowsKept, Zenon DEF Quits, Mark, vaultVars
  <2> QED BY <1>3, <1>5, <2>2, Zenon DEF Shaped, TableStep
<1> QED BY <1>4, <1>5, Zenon DEF Mark

\* The release after a failed broadcast.
LEMMA FailShape ==
    ASSUME Typed, NEW c \in Callers, Fail(c)
    PROVE  Shaped /\ Rest /\ TableStep
<1> DEFINE o == calls[c].order
<1>1. VaultTypeOK /\ calls \in [Callers -> CallRow] /\ 0 \in Int
  BY TypedIs
<1>2. Leaves(c) /\ calls' \in [Callers -> CallRow]
  BY <1>1, CallReturns, Zenon DEF Fail
<1>3. Rest
  BY <1>2, TypedIs, Zenon DEF Rest, Fail
<1>4. /\ \/ o \in Transfers /\ FailTreasuryTransferOnChain(o, 0)
         \/ o \in Sweeps /\ FailSweepOnChain(o, 0)
      /\ o \in AllOrders
  BY Zenon DEF Fail, AllOrders
<1>5. RowFailed(o) \/ StillRows
  BY <1>1, <1>4, FailRow, Zenon
<1>6. TableStep
  BY <1>1, <1>4, Zenon DEF TableStep, TransferMethod, SweepMethod
<1>7. faults' >= faults
  BY TypedIs DEF Fail
<1>8. Fails(c, o) \/ Quits(c)
  BY <1>2, <1>5, <1>7, Zenon DEF Fails, Quits, Fail, At
<1> QED BY <1>3, <1>4, <1>6, <1>8, Zenon DEF Shaped

\* A crash, or a ledger call that fails.
LEMMA QuitShape ==
    ASSUME Typed, NEW c \in Callers, Crash(c) \/ LedgerError(c)
    PROVE  Shaped /\ Rest /\ UNCHANGED vaultVars
<1>1. calls \in [Callers -> CallRow] /\ faults \in Nat
  BY TypedIs, Zenon
<1>2. Leaves(c) /\ calls' \in [Callers -> CallRow]
  BY <1>1, CallReturns, Zenon DEF Crash, LedgerError
<1>3. faults' \in Nat /\ faults' >= faults
  BY <1>1 DEF Crash, LedgerError
<1>4. UNCHANGED <<vaultVars, chain, notice, requests, setup>>
  BY Zenon DEF Crash, LedgerError
<1>5. Quits(c)
  BY <1>2, <1>3, <1>4, RowsKept, Zenon DEF Quits, vaultVars
<1> QED BY <1>2, <1>3, <1>4, <1>5, TypedIs, Zenon DEF Shaped, Rest

\* The chain.
LEMMA ChainShape ==
    ASSUME Typed, NEW t \in Txs, Mine(t) \/ Finalize(t) \/ Vanish(t)
    PROVE  Shaped /\ Rest /\ UNCHANGED vaultVars
<1>1. PICK st \in TxStatus :
        /\ SetChain(t, st)
        /\ \/ chain[t].status = "pending" /\ st \in {"included", "reverted", "dropped"}
           \/ chain[t].status = "included" /\ st = "final"
  BY Zenon DEF Mine, Finalize, Vanish, TxStatus
<1>2. chain \in [Txs -> TxRow] /\ chain[t] \in TxRow
  BY TypedIs, Zenon
<1>3. /\ [chain[t] EXCEPT !.status = st] \in TxRow
      /\ [chain[t] EXCEPT !.status = st].status = st
      /\ [chain[t] EXCEPT !.status = st].to = chain[t].to
  BY <1>2, Zenon DEF TxRow
<1>4. /\ chain' \in [Txs -> TxRow] /\ chain'[t] = [chain[t] EXCEPT !.status = st]
      /\ \A u \in Txs \ {t} : chain'[u] = chain[u]
  BY <1>1, <1>2, <1>3, Zenon DEF SetChain
<1>5. UNCHANGED <<vaultVars, calls, notice, requests, faults, setup>>
  BY <1>1, Zenon DEF SetChain
<1>6. Advances(t)
  BY <1>1, <1>3, <1>4, <1>5, RowsKept, Zenon DEF Advances, vaultVars
<1> QED BY <1>4, <1>5, <1>6, TypedIs, Zenon DEF Shaped, Rest

\* The scanner's list.
LEMMA ListShape ==
    ASSUME Typed, NEW o \in AllOrders, List(o)
    PROVE  Shaped /\ Rest /\ UNCHANGED vaultVars
<1> DEFINE n == [order |-> o, tx |-> RowTx(o), status |-> "LISTED", confs |-> 0]
<1>1. RowTx(o) \in Txs \cup {NoTx}
  BY TypedIs, Zenon DEF RowTx, AllOrders, VaultTypeOK, OrderRow, SweepRow
<1>2. n \in Report
  BY <1>1 DEF Report
<1>3. notice' = n /\ UNCHANGED <<vaultVars, calls, chain, requests, faults, setup>>
  BY Zenon DEF List
<1>4. StillRows
  BY <1>3, RowsKept, Zenon DEF vaultVars
<1>5. Lists(o)
  BY <1>3, <1>4 DEF Lists, List
<1> HIDE DEF n
<1> QED BY <1>2, <1>3, <1>5, TypedIs, Zenon DEF Shaped, Rest

\* Nothing in hand is a report.
LEMMA NoReportType == NoReport \in Report
BY DEF NoReport, Report

\* What the scanner is told of the transaction it looks for.
LEMMA LookShape ==
    ASSUME Typed, Ours, Look
    PROVE  Shaped /\ Rest /\ UNCHANGED vaultVars
<1>1. notice # NoReport /\ notice.tx \in Txs /\ notice \in Report
  <2>1. notice # NoReport
    BY DEF Look, NoReport
  <2> QED BY <2>1, TypedIs, Zenon DEF Ours, SentFor
<1>2. UNCHANGED <<vaultVars, calls, chain, requests, faults, setup>>
  BY Zenon DEF Look
<1>3. StillRows
  BY <1>2, RowsKept, Zenon DEF vaultVars
<1>4. faults' >= faults
  BY <1>2, TypedIs
<1>5. CASE notice' = NoReport
  <2>1. Forgets
    BY <1>2, <1>3, <1>4, <1>5, Zenon DEF Forgets
  <2> QED BY <1>2, <1>5, <2>1, NoReportType, TypedIs, Zenon DEF Shaped, Rest
<1>6. CASE notice' # NoReport
  <2> DEFINE reports == {Finding(f) : f \in TxFinality(setup.family, Shown(notice.tx))}
  <2>1. PICK f \in IF reports = {} THEN {Answer("NONE", 0)} ELSE reports :
          notice' = IF f.status = "NONE" THEN NoReport
                    ELSE [notice EXCEPT !.status = f.status, !.confs = f.confs]
    BY Zenon DEF Look
  <2>2. f.status # "NONE" /\ notice' = [notice EXCEPT !.status = f.status, !.confs = f.confs]
    BY <1>6, <2>1, Zenon
  <2>3. f \in reports
    BY <2>1, <2>2 DEF Answer
  <2>4. PICK g \in TxFinality(setup.family, Shown(notice.tx)) : f = Finding(g)
    BY <2>3, Zenon
  <2>5. /\ f.status \in {"NONE", "CONFIRMED", "FAILED"} /\ f.confs \in Int
        /\ ReportFair(notice.tx, f.status, f.confs)
    BY <1>1, <2>4, FindingsFair, Zenon
  <2>6. /\ notice'.status = f.status /\ notice'.confs = f.confs
        /\ notice'.order = notice.order /\ notice'.tx = notice.tx
    BY <1>1, <2>2, Zenon DEF Report
  <2>7. notice' \in Report
    BY <1>1, <2>2, <2>5, Zenon DEF Report
  <2>8. Looks
    BY <1>1, <1>2, <1>3, <2>5, <2>6, Zenon DEF Looks
  <2> QED BY <1>2, <2>7, <2>8, TypedIs, Zenon DEF Shaped, Rest
<1> QED BY <1>5, <1>6, Zenon

\* TreasuryTransferOnchainNotify and SweepOnchainNotify.
LEMMA NotifyShape ==
    ASSUME Typed, Ours, Notify
    PROVE  Shaped /\ Rest /\ TableStep
<1> DEFINE o == notice.order
<1>1. o \in AllOrders /\ notice.confs \in Int /\ VaultTypeOK
  BY TypedIs, Zenon DEF Notify, AllOrders, Report
<1>2. notice.tx \in Txs
  <2>1. notice # NoReport
    BY <1>1, VaultDispatchAssumption DEF NoReport, AllOrders
  <2> QED BY <2>1, Zenon DEF Ours, SentFor
<1>3. notice' = NoReport /\ UNCHANGED <<calls, chain, requests, faults, setup>>
  BY Zenon DEF Notify
<1>4. Rest
  BY <1>3, NoReportType, TypedIs, Zenon DEF Rest
<1>5. faults' >= faults
  BY <1>3, TypedIs
<1>6. CASE /\ notice.status = "CONFIRMED"
           /\ \/ o \in Transfers /\ ConfirmTreasuryTransferOnChain(o, notice.tx, notice.confs)
              \/ o \in Sweeps /\ ConfirmSweepOnChain(o, notice.tx, notice.confs)
  <2>1. RowConfirmed(o, notice.tx, notice.confs)
    BY <1>1, <1>6, ConfirmRow, Zenon
  <2>2. Tells(o)
    BY <1>3, <1>6, <2>1, Zenon DEF Tells
  <2>3. TableStep
    BY <1>1, <1>2, <1>6, Zenon DEF TableStep, TransferMethod, SweepMethod
  <2> QED BY <1>1, <1>4, <2>2, <2>3, Zenon DEF Shaped
<1>7. CASE /\ notice.status = "FAILED"
           /\ \/ o \in Transfers /\ FailTreasuryTransferOnChain(o, notice.confs)
              \/ o \in Sweeps /\ FailSweepOnChain(o, notice.confs)
  <2>1. RowFailed(o) \/ StillRows
    BY <1>1, <1>7, FailRow, Zenon
  <2>2. Tells(o) \/ Forgets
    BY <1>3, <1>5, <1>7, <2>1, Zenon DEF Tells, Forgets
  <2>3. TableStep
    BY <1>1, <1>7, Zenon DEF TableStep, TransferMethod, SweepMethod
  <2> QED BY <1>1, <1>4, <2>2, <2>3, Zenon DEF Shaped
<1>8. CASE UNCHANGED vaultVars
  <2>1. Forgets
    BY <1>3, <1>5, <1>8, RowsKept, Zenon DEF Forgets, vaultVars
  <2> QED BY <1>4, <1>8, <2>1, Zenon DEF Shaped, TableStep
<1> QED BY <1>6, <1>7, <1>8, Zenon DEF Notify, TreasuryTransferOnchainNotify, SweepOnchainNotify

\* A report that is lost.
LEMMA NotifyLostShape ==
    ASSUME Typed, NotifyLost
    PROVE  Shaped /\ Rest /\ UNCHANGED vaultVars
<1>1. /\ notice' = NoReport /\ faults' = faults + 1
      /\ UNCHANGED <<vaultVars, calls, chain, requests, setup>>
  BY Zenon DEF NotifyLost
<1>2. faults' \in Nat /\ faults' >= faults
  BY <1>1, TypedIs
<1>3. Forgets
  BY <1>1, <1>2, RowsKept, Zenon DEF Forgets, vaultVars
<1> QED BY <1>1, <1>2, <1>3, NoReportType, TypedIs, Zenon DEF Shaped, Rest

\* Every step has one of the shapes, and is a step of the tables or none.
LEMMA StepsAreShaped ==
    ASSUME Typed, Ours, [VaultDispatchNext]_vdvars
    PROVE  Shaped /\ Rest /\ TableStep
<1>1. UNCHANGED vaultVars => TableStep
  BY Zenon DEF TableStep
<1>2. ASSUME NEW c \in Callers, Serve(c) \/ Crash(c) \/ LedgerError(c)
      PROVE  Shaped /\ Rest /\ TableStep
  BY <1>1, <1>2, ReserveShape, BroadcastShape, MarkShape, FailShape, QuitShape, Zenon DEF Serve
<1>3. ASSUME NEW t \in Txs, Mine(t) \/ Finalize(t) \/ Vanish(t)
      PROVE  Shaped /\ Rest /\ TableStep
  BY <1>1, <1>3, ChainShape, Zenon
<1>4. ASSUME Look \/ Notify \/ NotifyLost
      PROVE  Shaped /\ Rest /\ TableStep
  BY <1>1, <1>4, LookShape, NotifyShape, NotifyLostShape, Zenon
<1>5. ASSUME NEW c \in Callers, NEW x \in Transfers, TransferLookup(c, x)
      PROVE  Shaped /\ Rest /\ TableStep
  BY <1>1, <1>5, TransferLookupShape, Zenon
<1>6. ASSUME NEW c \in Callers, NEW s \in Sweeps, SweepRoute(c, s)
      PROVE  Shaped /\ Rest /\ TableStep
  BY <1>1, <1>6, SweepRouteShape, Zenon
<1>7. ASSUME NEW o \in AllOrders, List(o)
      PROVE  Shaped /\ Rest /\ TableStep
  BY <1>1, <1>7, ListShape, Zenon
<1>8. CASE UNCHANGED vdvars
  <2>1. UNCHANGED <<vaultVars, calls, chain, notice, requests, faults, setup>>
    BY <1>8, Zenon DEF vdvars, vaultVars
  <2>2. Rests
    BY <2>1, RowsKept, Zenon DEF Rests, vaultVars
  <2> QED BY <2>1, <2>2, TypedIs, Zenon DEF Shaped, Rest, TableStep
<1> QED BY <1>2, <1>3, <1>4, <1>5, <1>6, <1>7, <1>8, Zenon DEF VaultDispatchNext

-----------------------------------------------------------------------------
(* Every layer is kept by every shape. *)

\* The types are kept.
LEMMA TypedStep ==
    ASSUME Typed, Ours, [VaultDispatchNext]_vdvars
    PROVE  Typed'
<1>1. Rest /\ TableStep
  BY StepsAreShaped, Zenon
<1>2. VaultTypeOK'
  BY <1>1, VaultTypeStep, TypedIs, Zenon
<1> QED BY <1>1, <1>2, TypedIs, Zenon
           DEF Rest, Typed, VaultDispatchTypeOK, CallRow, TxRow, TxStatus, Report

\* Transactions stay out, requests stay counted.
LEMMA OutStays ==
    ASSUME Typed, Typed', Shaped
    PROVE  /\ \A t \in Txs : Out(t) => Out(t)'
           /\ \A o \in AllOrders : requests'[o] >= requests[o]
<1>1. \A o \in AllOrders : requests[o] \in Nat /\ requests'[o] \in Nat
  BY TypedIs, Zenon DEF Typed, VaultDispatchTypeOK
<1>2. ASSUME NEW o \in AllOrders, Asked(o)
      PROVE  \A p \in AllOrders : requests'[p] >= requests[p]
  BY <1>1, <1>2 DEF Asked
<1>3. UNCHANGED requests => \A p \in AllOrders : requests'[p] >= requests[p]
  BY <1>1
<1>4. UNCHANGED chain => \A t \in Txs : Out(t) => Out(t)'
  BY Zenon DEF Out
<1>5. ASSUME NEW c, NEW o \in AllOrders,
             Starts(c, o) \/ Reserves(c, o) \/ Marks(c, o) \/ Fails(c, o) \/ Quits(c) \/ Misses(c)
      PROVE  /\ \A t \in Txs : Out(t) => Out(t)'
             /\ \A p \in AllOrders : requests'[p] >= requests[p]
  BY <1>2, <1>3, <1>4, <1>5, Zenon DEF Starts, Reserves, Marks, Fails, Quits, Misses
<1>6. ASSUME NEW c, NEW t \in Txs, Sends(c, t)
      PROVE  /\ \A u \in Txs : Out(u) => Out(u)'
             /\ \A p \in AllOrders : requests'[p] >= requests[p]
  BY <1>3, <1>6, Zenon DEF Sends, Out
<1>7. ASSUME NEW o \in AllOrders, Answers(o) \/ Lists(o) \/ Tells(o)
      PROVE  /\ \A t \in Txs : Out(t) => Out(t)'
             /\ \A p \in AllOrders : requests'[p] >= requests[p]
  BY <1>2, <1>3, <1>4, <1>7, Zenon DEF Answers, Lists, Tells
<1>8. ASSUME NEW t \in Txs, Advances(t)
      PROVE  /\ \A u \in Txs : Out(u) => Out(u)'
             /\ \A p \in AllOrders : requests'[p] >= requests[p]
  BY <1>3, <1>8, Zenon DEF Advances, Out
<1>9. CASE Looks \/ Forgets \/ Rests
  BY <1>3, <1>4, <1>9, Zenon DEF Looks, Forgets, Rests
<1>10. ASSUME NEW c, Quits(c) \/ Misses(c)
       PROVE  /\ \A t \in Txs : Out(t) => Out(t)'
              /\ \A p \in AllOrders : requests'[p] >= requests[p]
  BY <1>3, <1>4, <1>10, Zenon DEF Quits, Misses
<1> QED BY <1>5, <1>6, <1>7, <1>8, <1>9, <1>10, Zenon DEF Shaped

\* What one caller has is its order's.
CallOurs(c) ==
    calls[c].pc # "idle" =>
      /\ calls[c].order \in AllOrders
      /\ requests[calls[c].order] > 0
      /\ calls[c].pc = "mark" => SentFor(calls[c].tx, calls[c].order)

RowOurs(o) == RowStatus(o) = "BROADCASTED" => SentFor(RowTx(o), o)

NoticeOurs == notice # NoReport => notice.order \in AllOrders /\ SentFor(notice.tx, notice.order)

\* Ours, part by part.
LEMMA OursIs ==
    Ours <=> (\A c \in Callers : CallOurs(c)) /\ (\A o \in AllOrders : RowOurs(o)) /\ NoticeOurs
BY Zenon DEF Ours, CallOurs, RowOurs, NoticeOurs

\* What does not move stays ours.
LEMMA OursStay ==
    ASSUME Typed, Typed', Ours, Shaped
    PROVE  /\ \A c \in Callers : calls'[c] = calls[c] => CallOurs(c)'
           /\ \A o \in AllOrders : Same(o) => RowOurs(o)'
           /\ UNCHANGED notice => NoticeOurs'
<1>1. \A t, o : SentFor(t, o) => SentFor(t, o)'
  BY OutStays, Zenon DEF SentFor
<1>2. \A o \in AllOrders : requests[o] \in Nat /\ requests'[o] \in Nat /\ requests'[o] >= requests[o]
  BY OutStays, TypedIs, Zenon DEF Typed, VaultDispatchTypeOK
<1>3. \A o \in AllOrders : requests[o] > 0 => requests'[o] > 0
  BY <1>2, SMTT(60)
<1>4. ASSUME NEW c \in Callers, calls'[c] = calls[c] PROVE CallOurs(c)'
  BY <1>1, <1>3, <1>4, OursIs, Zenon DEF CallOurs
<1>5. ASSUME NEW o \in AllOrders, Same(o) PROVE RowOurs(o)'
  BY <1>1, <1>5, OursIs, Zenon DEF RowOurs, Same
<1>6. UNCHANGED notice => NoticeOurs'
  BY <1>1, OursIs, Zenon DEF NoticeOurs
<1> QED BY <1>4, <1>5, <1>6, Zenon

\* Every step keeps Ours.
LEMMA OursStep ==
    ASSUME Typed, Ours, [VaultDispatchNext]_vdvars
    PROVE  Ours'
<1>1. Typed' /\ Shaped
  BY TypedStep, StepsAreShaped, Zenon
<1>2. /\ \A c \in Callers : calls'[c] = calls[c] => CallOurs(c)'
      /\ \A o \in AllOrders : Same(o) => RowOurs(o)'
      /\ UNCHANGED notice => NoticeOurs'
  BY <1>1, OursStay, Zenon
<1>3. /\ \A c \in Callers : CallOurs(c)
      /\ \A o \in AllOrders : RowOurs(o)
      /\ NoticeOurs
  BY OursIs, Zenon
<1>4. SUFFICES /\ \A c \in Callers : CallOurs(c)'
               /\ \A o \in AllOrders : RowOurs(o)'
               /\ NoticeOurs'
  BY Zenon DEF Ours, CallOurs, RowOurs, NoticeOurs
<1>5. /\ \A t \in Txs : Out(t) => Out(t)'
      /\ \A o \in AllOrders : requests'[o] >= requests[o]
      /\ \A o \in AllOrders : requests[o] \in Nat /\ requests'[o] \in Nat
  BY <1>1, OutStays, Zenon DEF Typed, VaultDispatchTypeOK
<1>6. /\ \A t, o : SentFor(t, o) => SentFor(t, o)'
      /\ \A o \in AllOrders : requests[o] > 0 => requests'[o] > 0
  BY <1>5, SMTT(60) DEF SentFor
<1>7. ASSUME NEW c \in Callers, Elsewhere(c), CallOurs(c)'
      PROVE  \A d \in Callers : CallOurs(d)'
  BY <1>2, <1>7, Zenon DEF Elsewhere
<1>8. StillRows => \A o \in AllOrders : RowOurs(o)'
  BY <1>2, Zenon DEF StillRows
<1>9. UNCHANGED calls => \A c \in Callers : CallOurs(c)'
  BY <1>2, Zenon
<1>10. ASSUME NEW c \in Callers, NEW pc \in {"broadcast", "fail"}, GoesOn(c, pc), calls[c].pc # "idle"
       PROVE  CallOurs(c)'
  BY <1>3, <1>6, <1>10, Zenon DEF GoesOn, CallOurs
<1>11. ASSUME NEW c \in Callers, Leaves(c) PROVE \A d \in Callers : CallOurs(d)'
  BY <1>7, <1>11, Zenon DEF Leaves, CallOurs
<1>12. notice' = NoReport => NoticeOurs'
  BY Zenon DEF NoticeOurs, NoReport
<1>13. ASSUME NEW o \in AllOrders, OthersSame(o), RowOurs(o)'
       PROVE  \A p \in AllOrders : RowOurs(p)'
  BY <1>2, <1>13, Zenon DEF OthersSame
<1>a. ASSUME NEW c \in Callers, NEW o \in AllOrders, Starts(c, o)
      PROVE  (\A d \in Callers : CallOurs(d)') /\ (\A p \in AllOrders : RowOurs(p)') /\ NoticeOurs'
  <2>1. requests'[o] > 0
    BY <1>5, <1>a DEF Starts, Asked
  <2>2. CallOurs(c)'
    BY <1>a, <2>1, Zenon DEF Starts, CallOurs
  <2> QED BY <1>2, <1>7, <1>8, <1>a, <2>2, Zenon DEF Starts
<1>b. ASSUME NEW o \in AllOrders, Answers(o)
      PROVE  (\A d \in Callers : CallOurs(d)') /\ (\A p \in AllOrders : RowOurs(p)') /\ NoticeOurs'
  BY <1>2, <1>8, <1>9, <1>b, Zenon DEF Answers
<1>c. ASSUME NEW c \in Callers, NEW o \in AllOrders, Reserves(c, o)
      PROVE  (\A d \in Callers : CallOurs(d)') /\ (\A p \in AllOrders : RowOurs(p)') /\ NoticeOurs'
  <2>1. CallOurs(c)' /\ Elsewhere(c)
    BY <1>10, <1>c, Zenon DEF Reserves, GoesOn
  <2>2. RowOurs(o)'
    BY <1>2, <1>c, Zenon DEF Reserves, RowReserved, RowOurs
  <2> QED BY <1>2, <1>7, <1>13, <1>c, <2>1, <2>2, Zenon DEF Reserves, RowReserved
<1>d. ASSUME NEW c \in Callers, Quits(c)
      PROVE  (\A d \in Callers : CallOurs(d)') /\ (\A p \in AllOrders : RowOurs(p)') /\ NoticeOurs'
  BY <1>2, <1>8, <1>11, <1>d, Zenon DEF Quits
<1>e. ASSUME NEW c \in Callers, Misses(c)
      PROVE  (\A d \in Callers : CallOurs(d)') /\ (\A p \in AllOrders : RowOurs(p)') /\ NoticeOurs'
  <2>1. CallOurs(c)' /\ Elsewhere(c)
    BY <1>10, <1>e, Zenon DEF Misses, GoesOn
  <2> QED BY <1>2, <1>7, <1>8, <1>e, <2>1, Zenon DEF Misses
<1>f. ASSUME NEW c \in Callers, NEW t \in Txs, Sends(c, t)
      PROVE  (\A d \in Callers : CallOurs(d)') /\ (\A p \in AllOrders : RowOurs(p)') /\ NoticeOurs'
  <2>1. CASE GoesOn(c, "fail")
    <3>1. CallOurs(c)' /\ Elsewhere(c)
      BY <1>10, <1>f, <2>1, Zenon DEF Sends, GoesOn
    <3> QED BY <1>2, <1>7, <1>8, <1>f, <3>1, Zenon DEF Sends
  <2>2. CASE GoesOn(c, "mark") /\ calls'[c].tx = t
    <3>1. SentFor(t, calls[c].order)'
      <4>1. chain'[t].status # "absent" /\ TxOrder[t] = calls'[c].order
        BY <1>f, <2>2, Zenon DEF Sends, GoesOn
      <4> QED BY <4>1, Zenon DEF SentFor, Out
    <3>2. CallOurs(c)' /\ Elsewhere(c)
      BY <1>3, <1>6, <1>f, <2>2, <3>1, Zenon DEF Sends, GoesOn, CallOurs
    <3> QED BY <1>2, <1>7, <1>8, <1>f, <3>2, Zenon DEF Sends
  <2> QED BY <1>f, <2>1, <2>2, Zenon DEF Sends
<1>g. ASSUME NEW c \in Callers, NEW o \in AllOrders, Marks(c, o)
      PROVE  (\A d \in Callers : CallOurs(d)') /\ (\A p \in AllOrders : RowOurs(p)') /\ NoticeOurs'
  <2>1. SentFor(calls[c].tx, o)
    BY <1>3, <1>g, Zenon DEF Marks, CallOurs
  <2>2. RowOurs(o)'
    <3>1. RowTx(o)' = calls[c].tx
      BY <1>g, Zenon DEF Marks, RowMarked
    <3> QED BY <1>6, <2>1, <3>1, Zenon DEF RowOurs, SentFor
  <2> QED BY <1>2, <1>11, <1>13, <1>g, <2>2, Zenon DEF Marks, RowMarked
<1>h. ASSUME NEW c \in Callers, NEW o \in AllOrders, Fails(c, o)
      PROVE  (\A d \in Callers : CallOurs(d)') /\ (\A p \in AllOrders : RowOurs(p)') /\ NoticeOurs'
  <2>1. RowOurs(o)'
    BY <1>h, Zenon DEF Fails, RowFailed, RowOurs
  <2> QED BY <1>2, <1>11, <1>13, <1>h, <2>1, Zenon DEF Fails, RowFailed
<1>i. ASSUME NEW t \in Txs, Advances(t)
      PROVE  (\A d \in Callers : CallOurs(d)') /\ (\A p \in AllOrders : RowOurs(p)') /\ NoticeOurs'
  BY <1>2, <1>8, <1>9, <1>i, Zenon DEF Advances
<1>j. ASSUME NEW o \in AllOrders, Lists(o)
      PROVE  (\A d \in Callers : CallOurs(d)') /\ (\A p \in AllOrders : RowOurs(p)') /\ NoticeOurs'
  <2>1. SentFor(RowTx(o), o)
    BY <1>3, <1>j, Zenon DEF Lists, RowOurs
  <2>2. NoticeOurs'
    BY <1>6, <1>j, <2>1, Zenon DEF Lists, NoticeOurs, SentFor
  <2> QED BY <1>8, <1>9, <1>j, <2>2, Zenon DEF Lists
<1>k. CASE Looks
  <2>1. NoticeOurs'
    BY <1>3, <1>6, <1>k, Zenon DEF Looks, NoticeOurs, SentFor
  <2> QED BY <1>8, <1>9, <1>k, <2>1, Zenon DEF Looks
<1>l. ASSUME NEW o \in AllOrders, Tells(o)
      PROVE  (\A d \in Callers : CallOurs(d)') /\ (\A p \in AllOrders : RowOurs(p)') /\ NoticeOurs'
  <2>1. CASE RowFailed(o)
    <3>1. RowOurs(o)'
      BY <2>1, Zenon DEF RowFailed, RowOurs
    <3> QED BY <1>9, <1>12, <1>13, <1>l, <2>1, <3>1, Zenon DEF Tells, RowFailed
  <2>2. CASE RowConfirmed(o, notice.tx, notice.confs)
    <3>1. notice # NoReport
      BY <1>l, VaultDispatchAssumption DEF Tells, NoReport, AllOrders
    <3>2. SentFor(notice.tx, o)
      BY <1>3, <1>l, <3>1, Zenon DEF NoticeOurs, Tells
    <3>3. RowStatus(o)' = "BROADCASTED" => RowTx(o)' = notice.tx
      BY <2>2, Zenon DEF RowConfirmed
    <3>4. RowOurs(o)'
      BY <1>6, <3>2, <3>3, Zenon DEF RowOurs, SentFor
    <3> QED BY <1>9, <1>12, <1>13, <1>l, <2>2, <3>4, Zenon DEF Tells, RowConfirmed
  <2> QED BY <1>l, <2>1, <2>2, Zenon DEF Tells
<1>m. CASE Forgets
  BY <1>8, <1>9, <1>12, <1>m, Zenon DEF Forgets
<1>n. CASE Rests
  BY <1>2, <1>8, <1>9, <1>n, Zenon DEF Rests
<1> QED
  BY <1>1, <1>a, <1>b, <1>c, <1>d, <1>e, <1>f, <1>g, <1>h, <1>i, <1>j, <1>k, <1>l, <1>m, <1>n,
     ZenonT(60)
     DEF Shaped

\* Nothing happens to order o, but perhaps that a caller leaves it or the
\* scanner forgets it.
Untouched(o) ==
    /\ Same(o) /\ requests'[o] = requests[o]
    /\ \A c \in Callers : AtWork(c, o)' =>
         AtWork(c, o) /\ calls'[c].pc = calls[c].pc /\ calls'[c].dest = calls[c].dest
    /\ \A t \in Txs : TxOrder[t] = o => chain'[t].to = chain[t].to /\ (Out(t)' <=> Out(t))
    /\ notice'.order = o => notice.order = o

\* What is known of an order that nothing happens to stays so.
LEMMA SoloStays ==
    ASSUME NEW o \in AllOrders, Solo(o), Untouched(o)
    PROVE  Solo(o)'
<1>1. \A t \in Txs : SentFor(t, o)' <=> SentFor(t, o)
  BY Zenon DEF Untouched, SentFor
<1>2. \A c, d \in Callers : AtWork(c, o)' /\ AtWork(d, o)' => c = d
  BY Zenon DEF Untouched, Solo
<1>3. ASSUME NEW c \in Callers, AtWork(c, o)'
      PROVE  /\ notice'.order # o
             /\ RowStatus(o)' = IF calls'[c].pc = "reserve" THEN "NONE" ELSE "RESERVED"
             /\ calls'[c].pc \in {"reserve", "broadcast"} => \A t \in Txs : ~SentFor(t, o)'
             /\ o \in Sweeps /\ calls'[c].pc # "reserve" => sweeps'[o].dest = calls'[c].dest
  BY <1>1, <1>3, Zenon DEF Untouched, Solo, Same
<1>4. \A t, u \in Txs : SentFor(t, o)' /\ SentFor(u, o)' => t = u
  BY <1>1, Zenon DEF Solo
<1>5. /\ requests'[o] = 0 => RowStatus(o)' = "NONE"
      /\ RowStatus(o)' = "NONE" => \A t \in Txs : ~SentFor(t, o)'
      /\ RowStatus(o)' = "FAILED" => notice'.order # o
  BY <1>1, Zenon DEF Solo, Untouched, Same
<1>6. o \in Sweeps => \A t \in Txs : SentFor(t, o)' => chain'[t].to = sweeps'[o].dest
  <2>1. \A t \in Txs : SentFor(t, o) => chain'[t].to = chain[t].to
    BY Zenon DEF Untouched, SentFor
  <2> QED BY <1>1, <2>1, Zenon DEF Solo, Untouched, Same
<1> QED BY <1>2, <1>3, <1>4, <1>5, <1>6, Zenon DEF Solo

\* A caller that moves on with another order, or leaves, does not touch o.
LEMMA CallsElsewhere ==
    ASSUME NEW c \in Callers, NEW o \in AllOrders, Elsewhere(c),
           calls'[c].pc # "idle" => calls'[c].order # o
    PROVE  \A d \in Callers : AtWork(d, o)' =>
             AtWork(d, o) /\ calls'[d].pc = calls[d].pc /\ calls'[d].dest = calls[d].dest
BY Zenon DEF Elsewhere, AtWork

\* An order nobody asked for: nobody serves it and the scanner has not heard
\* of it.
LEMMA NotAskedFor ==
    ASSUME Typed, Ours, NEW o \in AllOrders, Solo(o), requests[o] = 0
    PROVE  /\ \A c \in Callers : ~AtWork(c, o)
           /\ RowStatus(o) = "NONE" /\ notice.order # o /\ \A t \in Txs : ~SentFor(t, o)
<1>1. \A c \in Callers : ~AtWork(c, o)
  BY SMTT(60) DEF Ours, AtWork
<1>2. RowStatus(o) = "NONE" /\ \A t \in Txs : ~SentFor(t, o)
  BY Zenon DEF Solo
<1>3. notice.order # o
  <2>1. SUFFICES ASSUME notice.order = o PROVE FALSE
    BY Zenon
  <2>2. notice # NoReport
    BY <2>1, VaultDispatchAssumption, SMTT(60) DEF NoReport, AllOrders
  <2>3. SentFor(notice.tx, o)
    BY <2>1, <2>2, Zenon DEF Ours
  <2> QED BY <1>2, <2>3, Zenon DEF SentFor
<1> QED BY <1>1, <1>2, <1>3, Zenon

\* A request that starts is the only one, if it is the first.
LEMMA SoloStarts ==
    ASSUME Typed, Ours, NEW c \in Callers, NEW o \in AllOrders, Starts(c, o),
           Solo(o), requests[o] = 0
    PROVE  Solo(o)'
<1>1. /\ \A d \in Callers : ~AtWork(d, o)
      /\ RowStatus(o) = "NONE" /\ notice.order # o /\ \A t \in Txs : ~SentFor(t, o)
  BY NotAskedFor, Zenon
<1>2. Same(o) /\ UNCHANGED <<chain, notice>> /\ calls'[c].pc = "reserve" /\ calls'[c].order = o
  BY Zenon DEF Starts, StillRows
<1>3. \A d \in Callers : AtWork(d, o)' => d = c
  BY <1>1, Zenon DEF Starts, Elsewhere, AtWork
<1>4. RowStatus(o)' = "NONE" /\ notice'.order # o /\ \A t \in Txs : ~SentFor(t, o)'
  BY <1>1, <1>2, Zenon DEF Same, SentFor, Out
<1> QED BY <1>2, <1>3, <1>4, Zenon DEF Solo

\* The reservation of an order that was asked for once writes its row.
LEMMA SoloReserves ==
    ASSUME Typed, Ours, NEW c \in Callers, NEW o \in AllOrders, Reserves(c, o), Solo(o)
    PROVE  Solo(o)'
<1>1. AtWork(c, o) /\ AtWork(c, o)'
  BY Zenon DEF Reserves, AtWork, GoesOn
<1>2. RowStatus(o) = "NONE" /\ notice.order # o /\ \A t \in Txs : ~SentFor(t, o)
  BY <1>1, Zenon DEF Solo, Reserves
<1>3. /\ RowStatus(o)' = "RESERVED" /\ (o \in Sweeps => sweeps'[o].dest = calls[c].dest)
      /\ calls'[c].pc = "broadcast" /\ calls'[c].dest = calls[c].dest
      /\ UNCHANGED <<chain, notice, requests>>
  BY <1>2, Zenon DEF Reserves, RowReserved, GoesOn
<1>4. \A d \in Callers : AtWork(d, o)' => d = c
  BY <1>1, Zenon DEF Solo, Reserves, GoesOn, Elsewhere, AtWork
<1>5. notice'.order # o /\ \A t \in Txs : ~SentFor(t, o)'
  BY <1>2, <1>3, Zenon DEF SentFor, Out
<1>6. requests[o] # 0
  BY <1>1 DEF Ours, AtWork
<1> QED BY <1>3, <1>4, <1>5, <1>6, Zenon DEF Solo

\* A broadcast that fails, for an order that was asked for once.
LEMMA SoloMisses ==
    ASSUME NEW c \in Callers, NEW o \in AllOrders, calls[c].order = o, Misses(c), Solo(o)
    PROVE  Solo(o)'
<1>1. AtWork(c, o) /\ AtWork(c, o)' /\ Same(o)
  BY Zenon DEF Misses, AtWork, GoesOn, StillRows
<1>2. /\ RowStatus(o) = "RESERVED" /\ notice.order # o /\ (\A t \in Txs : ~SentFor(t, o))
      /\ (o \in Sweeps => sweeps[o].dest = calls[c].dest)
  BY <1>1, Zenon DEF Solo, Misses
<1>3. /\ calls'[c].pc = "fail" /\ calls'[c].dest = calls[c].dest
      /\ UNCHANGED <<chain, notice, requests>>
  BY Zenon DEF Misses, GoesOn
<1>4. \A d \in Callers : AtWork(d, o)' => d = c
  BY <1>1, Zenon DEF Solo, Misses, GoesOn, Elsewhere, AtWork
<1>5. notice'.order # o /\ \A t \in Txs : ~SentFor(t, o)'
  BY <1>2, <1>3, Zenon DEF SentFor, Out
<1>6. requests[o] # 0
  BY <1>2, Zenon DEF Solo
<1> QED BY <1>1, <1>2, <1>3, <1>4, <1>5, <1>6, Zenon DEF Solo, Same

\* The one transaction of an order that was asked for once goes where its row
\* says.
LEMMA SoloSends ==
    ASSUME NEW c \in Callers, NEW o \in AllOrders, NEW t \in Txs,
           calls[c].order = o, Sends(c, t), Solo(o)
    PROVE  Solo(o)'
<1>1. /\ AtWork(c, o) /\ AtWork(c, o)' /\ Same(o) /\ Elsewhere(c)
      /\ calls'[c].pc \in {"mark", "fail"} /\ calls'[c].dest = calls[c].dest
  BY Zenon DEF Sends, AtWork, GoesOn, StillRows
<1>2. /\ RowStatus(o) = "RESERVED" /\ notice.order # o /\ (\A u \in Txs : ~SentFor(u, o))
      /\ (o \in Sweeps => sweeps[o].dest = calls[c].dest)
  BY <1>1, Zenon DEF Solo, Sends
<1>3. UNCHANGED <<notice, requests>> /\ chain'[t].to = calls[c].dest
  BY Zenon DEF Sends
<1>4. \A d \in Callers : AtWork(d, o)' => d = c
  BY <1>1, Zenon DEF Solo, Elsewhere, AtWork
<1>5. \A u \in Txs : SentFor(u, o)' => u = t
  <2>1. \A u \in Txs \ {t} : chain'[u] = chain[u]
    BY Zenon DEF Sends
  <2> QED BY <1>2, <2>1, Zenon DEF SentFor, Out
<1>6. requests[o] # 0
  BY <1>2, Zenon DEF Solo
<1>7. RowStatus(o)' = "RESERVED" /\ (o \in Sweeps => sweeps'[o].dest = calls[c].dest)
  BY <1>1, <1>2, Zenon DEF Same
<1> QED BY <1>1, <1>2, <1>3, <1>4, <1>5, <1>6, <1>7, Zenon DEF Solo

\* Its mark ends the request.
LEMMA SoloMarks ==
    ASSUME NEW c \in Callers, NEW o \in AllOrders, Marks(c, o), Solo(o)
    PROVE  Solo(o)'
<1>1. AtWork(c, o)
  BY Zenon DEF Marks, AtWork
<1>2. RowStatus(o) = "RESERVED"
  BY <1>1, Zenon DEF Solo, Marks
<1>3. /\ RowStatus(o)' = "BROADCASTED" /\ (o \in Sweeps => sweeps'[o].dest = sweeps[o].dest)
      /\ UNCHANGED <<chain, notice, requests>>
  BY <1>2, Zenon DEF Marks, RowMarked
<1>4. \A d \in Callers : ~AtWork(d, o)'
  BY <1>1, Zenon DEF Solo, Marks, Leaves, Elsewhere, AtWork
<1>5. \A t \in Txs : (SentFor(t, o)' <=> SentFor(t, o))
  BY <1>3, Zenon DEF SentFor, Out
<1>6. requests[o] # 0
  BY <1>2, Zenon DEF Solo
<1> QED BY <1>3, <1>4, <1>5, <1>6, Zenon DEF Solo

\* So does the release after a failed broadcast.
LEMMA SoloFails ==
    ASSUME NEW c \in Callers, NEW o \in AllOrders, Fails(c, o), Solo(o)
    PROVE  Solo(o)'
<1>1. AtWork(c, o)
  BY Zenon DEF Fails, AtWork
<1>2. RowStatus(o) = "RESERVED" /\ notice.order # o
  BY <1>1, Zenon DEF Solo, Fails
<1>3. /\ RowStatus(o)' = "FAILED" /\ (o \in Sweeps => sweeps'[o].dest = sweeps[o].dest)
      /\ UNCHANGED <<chain, notice, requests>>
  BY <1>2, Zenon DEF Fails, RowFailed
<1>4. \A d \in Callers : ~AtWork(d, o)'
  BY <1>1, Zenon DEF Solo, Fails, Leaves, Elsewhere, AtWork
<1>5. \A t \in Txs : (SentFor(t, o)' <=> SentFor(t, o))
  BY <1>3, Zenon DEF SentFor, Out
<1>6. requests[o] # 0
  BY <1>2, Zenon DEF Solo
<1> QED BY <1>2, <1>3, <1>4, <1>5, <1>6, Zenon DEF Solo

\* The scanner lists an order only when its caller has left.
LEMMA SoloLists ==
    ASSUME NEW o \in AllOrders, Lists(o), Solo(o)
    PROVE  Solo(o)'
<1>1. RowStatus(o) = "BROADCASTED" /\ Same(o) /\ UNCHANGED <<calls, chain, requests>>
  BY Zenon DEF Lists, StillRows
<1>2. \A c \in Callers : ~AtWork(c, o)'
  BY <1>1, Zenon DEF Solo, AtWork
<1>3. \A t \in Txs : (SentFor(t, o)' <=> SentFor(t, o))
  BY <1>1, Zenon DEF SentFor, Out
<1> QED BY <1>1, <1>2, <1>3, Zenon DEF Solo, Same

\* What the scanner tells of it, nobody else is at.
LEMMA SoloTells ==
    ASSUME NEW o \in AllOrders, Tells(o), Solo(o)
    PROVE  Solo(o)'
<1>1. notice.order = o /\ notice'.order # o /\ UNCHANGED <<calls, chain, requests>>
  BY VaultDispatchAssumption, Zenon DEF Tells, NoReport, AllOrders
<1>2. \A c \in Callers : ~AtWork(c, o)'
  BY <1>1, Zenon DEF Solo, AtWork
<1>3. \A t \in Txs : (SentFor(t, o)' <=> SentFor(t, o))
  BY <1>1, Zenon DEF SentFor, Out
<1>4. /\ RowStatus(o) # "NONE" /\ RowStatus(o)' # "NONE"
      /\ (o \in Sweeps => sweeps'[o].dest = sweeps[o].dest)
  BY Zenon DEF Tells, RowFailed, RowConfirmed
<1> QED BY <1>1, <1>2, <1>3, <1>4, Zenon DEF Solo

\* Every step keeps what is known of an order that was asked for once.
LEMMA SolosStep ==
    ASSUME Typed, Ours, Solos, [VaultDispatchNext]_vdvars
    PROVE  Solos'
<1>1. Typed' /\ Shaped
  BY TypedStep, StepsAreShaped, Zenon
<1>2. SUFFICES ASSUME NEW p \in AllOrders, requests'[p] <= 1 PROVE Solo(p)'
  BY Zenon DEF Solos
<1>3. requests[p] \in Nat /\ requests'[p] \in Nat /\ requests'[p] >= requests[p]
  BY <1>1, OutStays, Zenon DEF Typed, VaultDispatchTypeOK
<1>4. Solo(p)
  BY <1>2, <1>3 DEF Solos
<1>5. SUFFICES Untouched(p) \/ Solo(p)'
  BY <1>4, SoloStays, Zenon
<1>6. UNCHANGED chain =>
        \A t \in Txs : TxOrder[t] = p => chain'[t].to = chain[t].to /\ (Out(t)' <=> Out(t))
  BY Zenon DEF Out
<1>7. UNCHANGED calls =>
        \A c \in Callers : AtWork(c, p)' =>
          AtWork(c, p) /\ calls'[c].pc = calls[c].pc /\ calls'[c].dest = calls[c].dest
  BY Zenon DEF AtWork
<1>8. /\ StillRows => Same(p)
      /\ \A o : OthersSame(o) /\ o # p => Same(p)
  BY Zenon DEF StillRows, OthersSame
<1>9. ASSUME NEW c \in Callers, Leaves(c)
      PROVE  \A d \in Callers : AtWork(d, p)' =>
               AtWork(d, p) /\ calls'[d].pc = calls[d].pc /\ calls'[d].dest = calls[d].dest
  BY <1>9, CallsElsewhere, Zenon DEF Leaves
<1>10. NoReport.order # p
  BY VaultDispatchAssumption, Zenon DEF NoReport, AllOrders
<1>a. ASSUME NEW c \in Callers, NEW o \in AllOrders, Starts(c, o) PROVE Untouched(p) \/ Solo(p)'
  <2>1. CASE o = p
    <3>1. requests[p] = 0
      BY <1>2, <1>3, <1>a, <2>1 DEF Starts, Asked
    <3> QED BY <1>4, <1>a, <2>1, <3>1, SoloStarts, Zenon
  <2>2. CASE o # p
    <3>1. \A d \in Callers : AtWork(d, p)' =>
            AtWork(d, p) /\ calls'[d].pc = calls[d].pc /\ calls'[d].dest = calls[d].dest
      BY <1>a, <2>2, CallsElsewhere, Zenon DEF Starts
    <3>2. Same(p) /\ requests'[p] = requests[p]
      BY <1>8, <1>a, <2>2, Zenon DEF Starts, Asked
    <3> QED BY <1>6, <1>a, <3>1, <3>2, Zenon DEF Starts, Untouched
  <2> QED BY <2>1, <2>2, Zenon
<1>b. ASSUME NEW o \in AllOrders, Answers(o) PROVE Untouched(p) \/ Solo(p)'
  <2>1. CASE o = p
    <3>1. requests[p] = 0
      BY <1>2, <1>3, <1>b, <2>1, SMTT(60) DEF Answers, Asked
    <3> QED BY <1>4, <1>b, <2>1, <3>1, Zenon DEF Solo, Answers
  <2>2. CASE o # p
    <3>1. Same(p) /\ requests'[p] = requests[p]
      BY <1>8, <1>b, <2>2, Zenon DEF Answers, Asked
    <3> QED BY <1>6, <1>7, <1>b, <3>1, Zenon DEF Answers, Untouched
  <2> QED BY <2>1, <2>2, Zenon
<1>c. ASSUME NEW c \in Callers, NEW o \in AllOrders, Reserves(c, o) PROVE Untouched(p) \/ Solo(p)'
  <2>1. CASE o = p
    BY <1>4, <1>c, <2>1, SoloReserves, Zenon
  <2>2. CASE o # p
    <3>1. \A d \in Callers : AtWork(d, p)' =>
            AtWork(d, p) /\ calls'[d].pc = calls[d].pc /\ calls'[d].dest = calls[d].dest
      BY <1>c, <2>2, CallsElsewhere, Zenon DEF Reserves, GoesOn
    <3>2. Same(p) /\ requests'[p] = requests[p]
      BY <1>8, <1>c, <2>2, Zenon DEF Reserves, RowReserved
    <3> QED BY <1>6, <1>c, <3>1, <3>2, Zenon DEF Reserves, Untouched
  <2> QED BY <2>1, <2>2, Zenon
<1>d. ASSUME NEW c \in Callers, Quits(c) PROVE Untouched(p) \/ Solo(p)'
  BY <1>6, <1>8, <1>9, <1>d, Zenon DEF Quits, Untouched
<1>e. ASSUME NEW c \in Callers, Misses(c) PROVE Untouched(p) \/ Solo(p)'
  <2>1. CASE calls[c].order = p
    BY <1>4, <1>e, <2>1, SoloMisses, Zenon
  <2>2. CASE calls[c].order # p
    <3>1. \A d \in Callers : AtWork(d, p)' =>
            AtWork(d, p) /\ calls'[d].pc = calls[d].pc /\ calls'[d].dest = calls[d].dest
      BY <1>e, <2>2, CallsElsewhere, Zenon DEF Misses, GoesOn
    <3> QED BY <1>6, <1>8, <1>e, <3>1, Zenon DEF Misses, Untouched
  <2> QED BY <2>1, <2>2, Zenon
<1>f. ASSUME NEW c \in Callers, NEW t \in Txs, Sends(c, t) PROVE Untouched(p) \/ Solo(p)'
  <2>1. CASE calls[c].order = p
    BY <1>4, <1>f, <2>1, SoloSends, Zenon
  <2>2. CASE calls[c].order # p
    <3>1. \A d \in Callers : AtWork(d, p)' =>
            AtWork(d, p) /\ calls'[d].pc = calls[d].pc /\ calls'[d].dest = calls[d].dest
      BY <1>f, <2>2, CallsElsewhere, Zenon DEF Sends, GoesOn
    <3>2. \A u \in Txs : TxOrder[u] = p => chain'[u] = chain[u]
      BY <1>f, <2>2, Zenon DEF Sends
    <3>3. \A u \in Txs : TxOrder[u] = p => chain'[u].to = chain[u].to /\ (Out(u)' <=> Out(u))
      BY <3>2, Zenon DEF Out
    <3> QED BY <1>8, <1>f, <3>1, <3>3, Zenon DEF Sends, Untouched
  <2> QED BY <2>1, <2>2, Zenon
<1>g. ASSUME NEW c \in Callers, NEW o \in AllOrders, Marks(c, o) PROVE Untouched(p) \/ Solo(p)'
  <2>1. CASE o = p
    BY <1>4, <1>g, <2>1, SoloMarks, Zenon
  <2>2. CASE o # p
    BY <1>6, <1>8, <1>9, <1>g, <2>2, ZenonT(60) DEF Marks, RowMarked, Untouched
  <2> QED BY <2>1, <2>2, Zenon
<1>h. ASSUME NEW c \in Callers, NEW o \in AllOrders, Fails(c, o) PROVE Untouched(p) \/ Solo(p)'
  <2>1. CASE o = p
    BY <1>4, <1>h, <2>1, SoloFails, Zenon
  <2>2. CASE o # p
    BY <1>6, <1>8, <1>9, <1>h, <2>2, Zenon DEF Fails, RowFailed, Untouched
  <2> QED BY <2>1, <2>2, Zenon
<1>i. ASSUME NEW t \in Txs, Advances(t) PROVE Untouched(p) \/ Solo(p)'
  <2>1. \A u \in Txs : chain'[u].to = chain[u].to /\ (Out(u)' <=> Out(u))
    BY <1>i, Zenon DEF Advances, Out
  <2> QED BY <1>7, <1>8, <1>i, <2>1, Zenon DEF Advances, Untouched
<1>j. ASSUME NEW o \in AllOrders, Lists(o) PROVE Untouched(p) \/ Solo(p)'
  <2>1. CASE o = p
    BY <1>4, <1>j, <2>1, SoloLists, Zenon
  <2>2. CASE o # p
    BY <1>6, <1>7, <1>8, <1>j, <2>2, Zenon DEF Lists, Untouched
  <2> QED BY <2>1, <2>2, Zenon
<1>k. ASSUME Looks PROVE Untouched(p) \/ Solo(p)'
  BY <1>6, <1>7, <1>8, <1>k, ZenonT(60) DEF Looks, Untouched
<1>l. ASSUME NEW o \in AllOrders, Tells(o) PROVE Untouched(p) \/ Solo(p)'
  <2>1. CASE o = p
    BY <1>4, <1>l, <2>1, SoloTells, Zenon
  <2>2. CASE o # p
    <3>1. Same(p)
      BY <1>8, <1>l, <2>2, Zenon DEF Tells, RowFailed, RowConfirmed
    <3> QED BY <1>6, <1>7, <1>10, <1>l, <3>1, Zenon DEF Tells, Untouched
  <2> QED BY <2>1, <2>2, Zenon
<1>m. ASSUME Forgets PROVE Untouched(p) \/ Solo(p)'
  BY <1>6, <1>7, <1>8, <1>10, <1>m, Zenon DEF Forgets, Untouched
<1>n. ASSUME Rests PROVE Untouched(p) \/ Solo(p)'
  BY <1>6, <1>7, <1>8, <1>n, Zenon DEF Rests, Untouched
<1> QED
  BY <1>1, <1>a, <1>b, <1>c, <1>d, <1>e, <1>f, <1>g, <1>h, <1>i, <1>j, <1>k, <1>l, <1>m, <1>n,
     ZenonT(60)
     DEF Shaped

\* What the chain settled stays settled; the setup stays; faults only add up.
LEMMA SettledStays ==
    ASSUME Typed, Typed', Shaped
    PROVE  /\ \A t \in Txs : chain[t].status \in {"reverted", "final"} =>
                chain'[t].status = chain[t].status
           /\ setup' = setup /\ faults' >= faults
<1>1. faults \in Nat
  BY TypedIs, Zenon
<1>2. CASE UNCHANGED chain /\ UNCHANGED setup /\ faults' >= faults
  BY <1>2, Zenon
<1>3. ASSUME NEW c, NEW t \in Txs, Sends(c, t)
      PROVE  /\ \A u \in Txs : chain[u].status \in {"reverted", "final"} =>
                  chain'[u].status = chain[u].status
             /\ setup' = setup /\ faults' >= faults
  BY <1>1, <1>3, SMTT(60) DEF Sends
<1>4. ASSUME NEW t \in Txs, Advances(t)
      PROVE  /\ \A u \in Txs : chain[u].status \in {"reverted", "final"} =>
                  chain'[u].status = chain[u].status
             /\ setup' = setup /\ faults' >= faults
  BY <1>1, <1>4 DEF Advances
<1>5. UNCHANGED faults => faults' >= faults
  BY <1>1
<1>6. ASSUME NEW c, NEW o \in AllOrders,
             Starts(c, o) \/ Reserves(c, o) \/ Marks(c, o) \/ Fails(c, o)
      PROVE  UNCHANGED chain /\ UNCHANGED setup /\ faults' >= faults
  BY <1>5, <1>6, Zenon DEF Starts, Reserves, Marks, Fails
<1>7. ASSUME NEW c, Quits(c) \/ Misses(c)
      PROVE  UNCHANGED chain /\ UNCHANGED setup /\ faults' >= faults
  BY <1>5, <1>7, Zenon DEF Quits, Misses
<1>8. ASSUME NEW o, Answers(o) \/ Lists(o) \/ Tells(o)
      PROVE  UNCHANGED chain /\ UNCHANGED setup /\ faults' >= faults
  BY <1>5, <1>8, Zenon DEF Answers, Lists, Tells
<1>9. ASSUME Looks \/ Forgets \/ Rests
      PROVE  UNCHANGED chain /\ UNCHANGED setup /\ faults' >= faults
  BY <1>5, <1>9, Zenon DEF Looks, Forgets, Rests
<1> QED BY <1>2, <1>3, <1>4, <1>6, <1>7, <1>8, <1>9, Zenon DEF Shaped

\* While nothing goes wrong, nothing went wrong before.
LEMMA CalmBefore ==
    ASSUME Typed, Typed', Shaped, Calm'
    PROVE  Calm /\ \A o \in AllOrders : requests[o] <= 1 /\ requests'[o] <= 1
<1>1. faults \in Nat /\ faults' >= faults /\ faults' = 0
  BY SettledStays, TypedIs, Zenon DEF Calm
<1>2. \A o \in AllOrders :
        requests[o] \in Nat /\ requests'[o] \in Nat /\ requests'[o] >= requests[o] /\ requests'[o] <= 1
  BY OutStays, Zenon DEF Typed, VaultDispatchTypeOK, Calm
<1> QED BY <1>1, <1>2 DEF Calm

\* A report of a failure stays true.
LEMMA NoticeGentle ==
    ASSUME Typed, Typed', Ours, Gently, Shaped,
           setup.family # "aptos", notice'.status = "FAILED"
    PROVE  chain'[notice'.tx].status = "reverted"
<1>1. \A t \in Txs : chain[t].status = "reverted" => chain'[t].status = "reverted"
  BY SettledStays, Zenon
<1>2. notice' # NoReport /\ NoReport.status # "FAILED"
  BY SMTT(60) DEF NoReport
<1>3. CASE UNCHANGED notice
  <2>1. notice.tx \in Txs /\ chain[notice.tx].status = "reverted"
    BY <1>2, <1>3, Zenon DEF Ours, SentFor, Gently
  <2> QED BY <1>1, <1>3, <2>1, Zenon
<1>4. CASE Looks
  <2>1. notice.tx \in Txs /\ chain[notice.tx].status = "reverted"
    BY <1>4, Zenon DEF Looks, ReportFair, Ours, SentFor
  <2> QED BY <1>4, <2>1, Zenon DEF Looks
<1>5. ~Forgets /\ \A o : ~Lists(o) /\ ~Tells(o)
  BY <1>2, Zenon DEF Forgets, Lists, Tells
<1>6. CASE Rests \/ \E o : Answers(o) \/ \E c : Starts(c, o) \/ Reserves(c, o) \/ Marks(c, o) \/ Fails(c, o)
  BY <1>3, <1>6, Zenon DEF Rests, Answers, Starts, Reserves, Marks, Fails
<1>7. CASE \/ \E t : Advances(t)
           \/ \E c : Quits(c) \/ Misses(c) \/ \E t : Sends(c, t)
  BY <1>3, <1>7, Zenon DEF Advances, Quits, Misses, Sends
<1> QED BY <1>4, <1>5, <1>6, <1>7, Zenon DEF Shaped

\* What Gently says of one transfer.
GentleFor(x) ==
    /\ \A c \in Callers : AtWork(c, x) /\ calls[c].pc = "fail" => \A t \in Txs : ~SentFor(t, x)
    /\ setup.family # "aptos" /\ RowStatus(x) = "FAILED" =>
         \A t \in Txs : SentFor(t, x) => chain[t].status = "reverted"

\* It stays so for a transfer whose row and transactions do not change.
LEMMA GentleStays ==
    ASSUME Typed, Typed', Shaped, NEW x \in Transfers, GentleFor(x),
           RowStatus(x)' = "FAILED" => RowStatus(x) = "FAILED",
           \A t \in Txs : SentFor(t, x)' => SentFor(t, x),
           \A c \in Callers : AtWork(c, x)' /\ calls'[c].pc = "fail" =>
             (\A t \in Txs : ~SentFor(t, x)) \/ (AtWork(c, x) /\ calls[c].pc = "fail")
    PROVE  GentleFor(x)'
<1>1. /\ setup' = setup
      /\ \A t \in Txs : chain[t].status = "reverted" => chain'[t].status = "reverted"
  BY SettledStays, Zenon
<1>2. \A c \in Callers : AtWork(c, x)' /\ calls'[c].pc = "fail" => \A t \in Txs : ~SentFor(t, x)'
  BY Zenon DEF GentleFor
<1>3. setup'.family # "aptos" /\ RowStatus(x)' = "FAILED" =>
        \A t \in Txs : SentFor(t, x)' => chain'[t].status = "reverted"
  BY <1>1, Zenon DEF GentleFor
<1> QED BY <1>2, <1>3, Zenon DEF GentleFor

\* Every step keeps Gently.
LEMMA GentlyStep ==
    ASSUME Typed, Ours, Solos, Gently, [VaultDispatchNext]_vdvars
    PROVE  Gently'
<1>1. Typed' /\ Shaped
  BY TypedStep, StepsAreShaped, Zenon
<1>2. setup'.family # "aptos" /\ notice'.status = "FAILED" => chain'[notice'.tx].status = "reverted"
  BY <1>1, NoticeGentle, SettledStays, Zenon
<1>3. SUFFICES ASSUME Calm', NEW x \in Transfers PROVE GentleFor(x)'
  BY <1>2, Zenon DEF Gently, GentleFor
<1>4. Calm /\ x \in AllOrders /\ requests[x] <= 1
  BY <1>1, <1>3, CalmBefore, Zenon DEF AllOrders
<1>5. Solo(x) /\ GentleFor(x)
  BY <1>4, Zenon DEF Solos, Gently, GentleFor
<1>6. UNCHANGED chain => \A t \in Txs : SentFor(t, x)' => SentFor(t, x)
  BY Zenon DEF SentFor, Out
<1>7. StillRows => Same(x)
  BY <1>4, Zenon DEF StillRows
<1>8. ASSUME Same(x) PROVE RowStatus(x)' = "FAILED" => RowStatus(x) = "FAILED"
  BY <1>8, Zenon DEF Same
<1>9. UNCHANGED calls => \A c \in Callers : AtWork(c, x)' /\ calls'[c].pc = "fail" =>
                            AtWork(c, x) /\ calls[c].pc = "fail"
  BY Zenon DEF AtWork
<1>10. ASSUME NEW c \in Callers, Elsewhere(c), calls'[c].pc # "fail"
       PROVE  \A d \in Callers : AtWork(d, x)' /\ calls'[d].pc = "fail" =>
                AtWork(d, x) /\ calls[d].pc = "fail"
  BY <1>10, Zenon DEF Elsewhere, AtWork
<1>a. ASSUME NEW c \in Callers, NEW o \in AllOrders, Starts(c, o) PROVE GentleFor(x)'
  <2>1. Same(x) /\ UNCHANGED chain /\ Elsewhere(c) /\ calls'[c].pc # "fail"
    BY <1>7, <1>a, Zenon DEF Starts
  <2> QED BY <1>1, <1>5, <1>6, <1>8, <1>10, <2>1, GentleStays, Zenon
<1>b. ASSUME NEW o \in AllOrders, Answers(o) PROVE GentleFor(x)'
  <2>1. Same(x) /\ UNCHANGED chain /\ UNCHANGED calls
    BY <1>7, <1>b, Zenon DEF Answers
  <2> QED BY <1>1, <1>5, <1>6, <1>8, <1>9, <2>1, GentleStays, Zenon
<1>c. ASSUME NEW c \in Callers, NEW o \in AllOrders, Reserves(c, o) PROVE GentleFor(x)'
  <2>1. UNCHANGED chain /\ Elsewhere(c) /\ calls'[c].pc # "fail"
    BY <1>c, Zenon DEF Reserves, GoesOn
  <2>2. RowStatus(x)' = "FAILED" => RowStatus(x) = "FAILED"
    BY <1>4, <1>c, Zenon DEF Reserves, RowReserved, OthersSame, Same
  <2> QED BY <1>1, <1>5, <1>6, <1>10, <2>1, <2>2, GentleStays, Zenon
<1>d. ASSUME NEW c \in Callers, Quits(c) PROVE GentleFor(x)'
  <2>1. Same(x) /\ UNCHANGED chain /\ Elsewhere(c) /\ calls'[c].pc # "fail"
    BY <1>7, <1>d, Zenon DEF Quits, Leaves
  <2> QED BY <1>1, <1>5, <1>6, <1>8, <1>10, <2>1, GentleStays, Zenon
<1>e. ASSUME NEW c \in Callers, Misses(c) PROVE GentleFor(x)'
  <2>1. Same(x) /\ UNCHANGED chain /\ Elsewhere(c) /\ calls'[c].order = calls[c].order
    BY <1>7, <1>e, Zenon DEF Misses, GoesOn
  <2>2. calls[c].order = x => \A t \in Txs : ~SentFor(t, x)
    BY <1>5, <1>e, Zenon DEF Solo, Misses, AtWork
  <2>3. \A d \in Callers : AtWork(d, x)' /\ calls'[d].pc = "fail" =>
          (\A t \in Txs : ~SentFor(t, x)) \/ (AtWork(d, x) /\ calls[d].pc = "fail")
    BY <2>1, <2>2, Zenon DEF Elsewhere, AtWork
  <2> QED BY <1>1, <1>5, <1>6, <1>8, <2>1, <2>3, GentleStays, Zenon
<1>f. ASSUME NEW c \in Callers, NEW t \in Txs, Sends(c, t) PROVE GentleFor(x)'
  <2>1. GoesOn(c, "mark")
    <3>1. faults' = 0 /\ faults = 0
      BY <1>3, <1>4, Zenon DEF Calm
    <3> QED BY <1>f, <3>1, SMTT(60) DEF Sends
  <2>2. Elsewhere(c) /\ calls'[c].pc # "fail" /\ Same(x)
    BY <1>7, <1>f, <2>1, Zenon DEF Sends, GoesOn
  <2>3. CASE calls[c].order # x
    <3>1. \A u \in Txs : SentFor(u, x)' => SentFor(u, x)
      BY <1>f, <2>3, Zenon DEF Sends, SentFor, Out
    <3> QED BY <1>1, <1>5, <1>8, <1>10, <2>2, <3>1, GentleStays, Zenon
  <2>4. CASE calls[c].order = x
    <3>1. AtWork(c, x)
      BY <1>f, <2>4, Zenon DEF Sends, AtWork
    <3>2. RowStatus(x)' = "RESERVED"
      BY <1>5, <1>f, <2>2, <3>1, Zenon DEF Solo, Sends, Same
    <3>3. \A d \in Callers : ~(AtWork(d, x)' /\ calls'[d].pc = "fail")
      BY <1>5, <2>2, <3>1, ZenonT(60) DEF Solo, Elsewhere, AtWork
    <3> QED BY <3>2, <3>3, Zenon DEF GentleFor
  <2> QED BY <2>3, <2>4, Zenon
<1>g. ASSUME NEW c \in Callers, NEW o \in AllOrders, Marks(c, o) PROVE GentleFor(x)'
  <2>1. UNCHANGED chain /\ Elsewhere(c) /\ calls'[c].pc # "fail"
    BY <1>g, Zenon DEF Marks, Leaves
  <2>2. RowStatus(x)' = "FAILED" => RowStatus(x) = "FAILED"
    BY <1>4, <1>g, Zenon DEF Marks, RowMarked, OthersSame, Same
  <2> QED BY <1>1, <1>5, <1>6, <1>10, <2>1, <2>2, GentleStays, Zenon
<1>h. ASSUME NEW c \in Callers, NEW o \in AllOrders, Fails(c, o) PROVE GentleFor(x)'
  <2>1. UNCHANGED chain /\ Elsewhere(c) /\ calls'[c].pc # "fail"
    BY <1>h, ZenonT(60) DEF Fails, Leaves
  <2>2. CASE o # x
    <3>1. RowStatus(x)' = "FAILED" => RowStatus(x) = "FAILED"
      BY <1>4, <1>h, <2>2, Zenon DEF Fails, RowFailed, OthersSame, Same
    <3> QED BY <1>1, <1>5, <1>6, <1>10, <2>1, <3>1, GentleStays, Zenon
  <2>3. CASE o = x
    <3>1. \A t \in Txs : ~SentFor(t, x)
      BY <1>5, <1>h, <2>3, Zenon DEF Fails, AtWork, GentleFor
    <3>2. \A t \in Txs : ~SentFor(t, x)'
      BY <1>6, <2>1, <3>1, Zenon
    <3> QED BY <3>2, Zenon DEF GentleFor
  <2> QED BY <2>2, <2>3, Zenon
<1>i. ASSUME NEW t \in Txs, Advances(t) PROVE GentleFor(x)'
  <2>1. Same(x) /\ UNCHANGED calls
    BY <1>7, <1>i, Zenon DEF Advances
  <2>2. \A u \in Txs : SentFor(u, x)' => SentFor(u, x)
    BY <1>i, ZenonT(60) DEF Advances, SentFor, Out
  <2> QED BY <1>1, <1>5, <1>8, <1>9, <2>1, <2>2, GentleStays, ZenonT(60)
<1>j. ASSUME NEW o \in AllOrders, Lists(o) PROVE GentleFor(x)'
  <2>1. Same(x) /\ UNCHANGED chain /\ UNCHANGED calls
    BY <1>7, <1>j, Zenon DEF Lists
  <2> QED BY <1>1, <1>5, <1>6, <1>8, <1>9, <2>1, GentleStays, Zenon
<1>k. ASSUME Looks \/ Forgets \/ Rests PROVE GentleFor(x)'
  <2>1. Same(x) /\ UNCHANGED chain /\ UNCHANGED calls
    BY <1>7, <1>k, Zenon DEF Looks, Forgets, Rests
  <2> QED BY <1>1, <1>5, <1>6, <1>8, <1>9, <2>1, GentleStays, Zenon
<1>l. ASSUME NEW o \in AllOrders, Tells(o) PROVE GentleFor(x)'
  <2>1. UNCHANGED chain /\ UNCHANGED calls
    BY <1>l, Zenon DEF Tells
  <2>2. CASE o # x \/ notice.status # "FAILED"
    <3>1. RowStatus(x)' = "FAILED" => RowStatus(x) = "FAILED"
      BY <1>4, <1>l, <2>2, Zenon DEF Tells, RowFailed, RowConfirmed, OthersSame, Same
    <3> QED BY <1>1, <1>5, <1>6, <1>9, <2>1, <3>1, GentleStays, Zenon
  <2>3. CASE o = x /\ notice.status = "FAILED"
    <3>1. notice # NoReport
      BY <2>3 DEF NoReport
    <3>2. notice.tx \in Txs /\ SentFor(notice.tx, x)
      BY <1>l, <2>3, <3>1, Zenon DEF Ours, Tells, SentFor
    <3>3. \A t \in Txs : SentFor(t, x) => t = notice.tx
      BY <1>5, <3>2, Zenon DEF Solo
    <3>4. setup.family # "aptos" => chain[notice.tx].status = "reverted"
      BY <2>3, Zenon DEF Gently
    <3>5. setup' = setup
      BY <1>1, SettledStays, Zenon
    <3>6. \A c \in Callers : ~AtWork(c, x)'
      BY <1>5, <1>l, <2>1, <2>3, Zenon DEF Solo, AtWork, Tells
    <3> QED BY <1>6, <2>1, <3>3, <3>4, <3>5, <3>6, Zenon DEF GentleFor
  <2> QED BY <2>2, <2>3, Zenon
<1> QED
  BY <1>1, <1>a, <1>b, <1>c, <1>d, <1>e, <1>f, <1>g, <1>h, <1>i, <1>j, <1>k, <1>l, ZenonT(60)
     DEF Shaped

\* Confirmations that are enough are of a final transaction.
Enough(o) ==
    /\ o \in Sweeps => requests[o] <= 1
    /\ \/ RowStatus(o) = "DONE"
       \/ RowStatus(o) # "FAILED" /\ RowConfs(o) >= RequiredConfs
    => \E t \in Txs : TxOrder[t] = o /\ chain[t].status = "final"

NoticeEnough ==
    notice.status = "CONFIRMED" /\ notice.confs >= RequiredConfs => chain[notice.tx].status = "final"

\* Every step keeps Deep, where one confirmation is not enough.
LEMMA DeepStep ==
    ASSUME RequiredConfs > 1, Typed, Ours, Solos, Deep, [VaultDispatchNext]_vdvars
    PROVE  Deep'
<1>1. Typed' /\ Shaped
  BY TypedStep, StepsAreShaped, Zenon
<1>2. /\ \A t \in Txs : chain[t].status = "final" => chain'[t].status = "final"
      /\ \A o \in AllOrders :
           requests[o] \in Nat /\ requests'[o] \in Nat /\ requests'[o] >= requests[o]
  BY <1>1, SettledStays, OutStays, Zenon DEF Typed, VaultDispatchTypeOK
<1>3. \A o \in AllOrders : requests'[o] <= 1 => requests[o] <= 1
  BY <1>2, SMTT(60)
<1>4. NoticeEnough /\ \A o \in AllOrders : Enough(o)
  BY Zenon DEF Deep, NoticeEnough, Enough
<1>5. SUFFICES NoticeEnough' /\ \A o \in AllOrders : Enough(o)'
  BY Zenon DEF Deep, NoticeEnough, Enough
<1>6. RequiredConfs \in Nat /\ 0 < RequiredConfs
  BY VaultAssumption
<1>7. NoticeEnough'
  <2>1. CASE UNCHANGED notice
    <3>1. notice.status = "CONFIRMED" => notice.tx \in Txs
      BY DEF Ours, SentFor, NoReport
    <3> QED BY <1>2, <1>4, <2>1, <3>1, Zenon DEF NoticeEnough
  <2>2. CASE Looks
    <3>1. notice'.tx = notice.tx /\ notice.tx \in Txs /\ UNCHANGED chain
          /\ ReportFair(notice.tx, notice'.status, notice'.confs)
      BY <2>2, Zenon DEF Looks, Ours, SentFor
    <3>2. notice'.confs \in Int
      BY <1>1, Zenon DEF Typed, VaultDispatchTypeOK
    <3>3. notice'.confs >= RequiredConfs => notice'.confs > 1
      BY <1>6, <3>2, SMTT(60)
    <3> QED BY <3>1, <3>3, Zenon DEF NoticeEnough, ReportFair
  <2>3. CASE notice' = NoReport
    BY <2>3, Zenon DEF NoReport, NoticeEnough
  <2>4. CASE \E o \in AllOrders : Lists(o)
    BY <2>4, Zenon DEF Lists, NoticeEnough
  <2>5. CASE \/ \E t \in Txs : Advances(t)
             \/ \E c \in Callers : Quits(c) \/ Misses(c) \/ \E t \in Txs : Sends(c, t)
    BY <2>1, <2>5, Zenon DEF Advances, Quits, Misses, Sends
  <2>6. CASE \/ Rests
             \/ \E o \in AllOrders : Answers(o)
             \/ \E c \in Callers, o \in AllOrders :
                  Starts(c, o) \/ Reserves(c, o) \/ Marks(c, o) \/ Fails(c, o)
    BY <2>1, <2>6, Zenon DEF Rests, Answers, Starts, Reserves, Marks, Fails
  <2>7. Forgets \/ (\E o \in AllOrders : Tells(o)) => notice' = NoReport
    BY Zenon DEF Forgets, Tells
  <2> QED BY <1>1, <2>2, <2>3, <2>4, <2>5, <2>6, <2>7, Zenon DEF Shaped
<1>8. ASSUME NEW o \in AllOrders,
             /\ RowStatus(o)' = "DONE" => RowStatus(o) = "DONE"
             /\ RowStatus(o)' # "FAILED" /\ RowConfs(o)' >= RequiredConfs =>
                  RowStatus(o) # "FAILED" /\ RowConfs(o) >= RequiredConfs
      PROVE  Enough(o)'
  BY <1>2, <1>3, <1>4, <1>8, Zenon DEF Enough
<1>9. ASSUME NEW o \in AllOrders, Same(o) PROVE Enough(o)'
  BY <1>8, <1>9, Zenon DEF Same
<1>10. ASSUME NEW o \in AllOrders, OthersSame(o), Enough(o)' PROVE \A p \in AllOrders : Enough(p)'
  BY <1>9, <1>10, Zenon DEF OthersSame
<1>11. ASSUME StillRows PROVE \A p \in AllOrders : Enough(p)'
  BY <1>9, <1>11, Zenon DEF StillRows
<1>a. ASSUME NEW c \in Callers, NEW o \in AllOrders, Reserves(c, o)
      PROVE  \A p \in AllOrders : Enough(p)'
  <2>1. OthersSame(o) /\ RowReserved(o, calls[c].dest)
    BY <1>a, Zenon DEF Reserves, RowReserved
  <2>2. CASE Same(o)
    BY <1>9, <1>10, <2>1, <2>2, Zenon
  <2>3. CASE RowStatus(o)' = "RESERVED" /\ RowConfs(o)' = 0
    <3>1. Enough(o)'
      BY <1>6, <2>3 DEF Enough
    <3> QED BY <1>10, <2>1, <3>1, ZenonT(60)
  <2> QED BY <2>1, <2>2, <2>3, Zenon DEF RowReserved
<1>b. ASSUME NEW c \in Callers, NEW o \in AllOrders, Marks(c, o)
      PROVE  \A p \in AllOrders : Enough(p)'
  <2>1. OthersSame(o) /\ RowStatus(o)' = "BROADCASTED" /\ RowConfs(o)' = RowConfs(o)
    BY <1>b, Zenon DEF Marks, RowMarked
  <2>2. (o \in Sweeps => requests'[o] <= 1) => RowStatus(o) # "FAILED"
    <3>1. CASE o \in Transfers
      BY <1>b, <3>1, Zenon DEF Marks, RowMarked, Open
    <3>2. CASE o \in Sweeps /\ requests'[o] <= 1
      <4>1. Solo(o) /\ AtWork(c, o) /\ calls[c].pc = "mark"
        BY <1>3, <1>b, <3>2, Zenon DEF Solos, Marks, AtWork
      <4> QED BY <4>1, Zenon DEF Solo
    <3> QED BY <3>1, <3>2, Zenon DEF AllOrders
  <2>3. Enough(o)'
    BY <1>2, <1>3, <1>4, <2>1, <2>2, Zenon DEF Enough
  <2> QED BY <1>10, <2>1, <2>3, Zenon
<1>c. ASSUME NEW o \in AllOrders, RowFailed(o) PROVE \A p \in AllOrders : Enough(p)'
  <2>1. OthersSame(o) /\ RowStatus(o)' = "FAILED"
    BY <1>c, Zenon DEF RowFailed
  <2>2. Enough(o)'
    BY <2>1, Zenon DEF Enough
  <2> QED BY <1>10, <2>1, <2>2, Zenon
<1>d. ASSUME NEW o \in AllOrders, Tells(o), notice.status = "CONFIRMED",
             RowConfirmed(o, notice.tx, notice.confs)
      PROVE  \A p \in AllOrders : Enough(p)'
  <2>1. OthersSame(o)
    BY <1>d, ZenonT(60) DEF RowConfirmed
  <2>2. notice # NoReport /\ notice.tx \in Txs /\ TxOrder[notice.tx] = o
    BY <1>d, SMTT(60) DEF NoReport, Ours, SentFor, Tells
  <2>3. notice.confs \in Int /\ RowConfs(o) \in Int
    BY TypedIs DEF Report, RowConfs, AllOrders, VaultTypeOK, OrderRow, SweepRow
  <2>4. SUFFICES ASSUME o \in Sweeps => requests'[o] <= 1,
                        RowStatus(o)' = "DONE" \/ RowConfs(o)' >= RequiredConfs
                 PROVE  \E t \in Txs : TxOrder[t] = o /\ chain'[t].status = "final"
    <3>1. Enough(o)'
      BY <2>4, Zenon DEF Enough
    <3> QED BY <1>10, <2>1, <3>1, Zenon
  <2>5. RowStatus(o) # "FAILED"
    <3>1. CASE o \in Transfers
      BY <1>d, <3>1, Zenon DEF RowConfirmed
    <3>2. CASE o \in Sweeps
      <4>1. Solo(o)
        BY <1>3, <2>4, <3>2, Zenon DEF Solos
      <4> QED BY <1>d, <4>1, Zenon DEF Solo, Tells
    <3> QED BY <3>1, <3>2, Zenon DEF AllOrders
  <2>6. RowStatus(o) = "DONE" \/ RowConfs(o) >= RequiredConfs \/ notice.confs >= RequiredConfs
    BY <1>6, <1>d, <2>3, <2>4, Zenon DEF RowConfirmed, Most
  <2>7. CASE notice.confs >= RequiredConfs
    BY <1>2, <1>4, <1>d, <2>2, <2>7, Zenon DEF NoticeEnough
  <2>8. CASE RowStatus(o) = "DONE" \/ RowConfs(o) >= RequiredConfs
    <3>1. o \in Sweeps => requests[o] <= 1
      BY <1>3, <2>4, Zenon
    <3> QED BY <1>2, <1>4, <2>5, <2>8, <3>1, Zenon DEF Enough
  <2> QED BY <2>6, <2>7, <2>8, Zenon
<1>e. ASSUME NEW o \in AllOrders, Tells(o) PROVE \A p \in AllOrders : Enough(p)'
  BY <1>c, <1>d, <1>e, Zenon DEF Tells
<1>f. ASSUME NEW c \in Callers, NEW o \in AllOrders, Fails(c, o) PROVE \A p \in AllOrders : Enough(p)'
  BY <1>c, <1>f, Zenon DEF Fails
<1>g. CASE \/ \E c \in Callers, o \in AllOrders : Starts(c, o)
           \/ \E c \in Callers : Quits(c) \/ Misses(c) \/ \E t \in Txs : Sends(c, t)
  BY <1>7, <1>11, <1>g, Zenon DEF Starts, Quits, Misses, Sends
<1>h. CASE \/ \E o \in AllOrders : Answers(o) \/ Lists(o)
           \/ \E t \in Txs : Advances(t)
           \/ Looks \/ Forgets \/ Rests
  BY <1>7, <1>11, <1>h, Zenon DEF Answers, Lists, Advances, Looks, Forgets, Rests
<1> QED BY <1>1, <1>7, <1>a, <1>b, <1>e, <1>f, <1>g, <1>h, ZenonT(60) DEF Shaped

\* In the beginning nothing is asked for, held or sent.
LEMMA DispatchStart ==
    ASSUME VaultDispatchInit
    PROVE  Typed /\ Ours /\ Solos /\ Gently /\ Deep
<1> USE VaultAssumption, VaultDispatchAssumption
<1>1. Typed
  <2>1. VaultTypeOK
    BY VaultTypeInit, Zenon DEF VaultDispatchInit
  <2>2. calls \in [Callers -> [pc : {"idle", "reserve", "broadcast", "mark", "fail"},
                               order : AllOrders \cup {NoOrder}, dest : Accounts,
                               tx : Txs \cup {NoTx}]]
    BY Zenon DEF VaultDispatchInit, NoCall, NoAccount
  <2>3. chain \in [Txs -> [status : {"absent", "pending", "included", "final", "reverted", "dropped"},
                           to : Accounts]]
    BY Zenon DEF VaultDispatchInit, NoAccount
  <2>4. notice \in [order : AllOrders \cup {NoOrder}, tx : Txs \cup {NoTx},
                    status : {"NONE", "LISTED", "CONFIRMED", "FAILED"}, confs : Int]
    BY DEF VaultDispatchInit, NoReport
  <2>5. requests \in [AllOrders -> Nat] /\ faults \in Nat /\ setup \in Setups
    BY Zenon DEF VaultDispatchInit
  <2> QED BY <2>1, <2>2, <2>3, <2>4, <2>5, Zenon DEF Typed, VaultDispatchTypeOK
<1>2. \A c \in Callers, o \in AllOrders : ~AtWork(c, o) /\ calls[c].pc = "idle"
  BY Zenon DEF VaultDispatchInit, NoCall, AtWork
<1>3. \A t \in Txs : chain[t].status = "absent"
  BY Zenon DEF VaultDispatchInit
<1>4. \A t \in Txs, o \in AllOrders : ~SentFor(t, o)
  BY <1>3, Zenon DEF SentFor, Out
<1>5. \A o \in AllOrders : RowStatus(o) = "NONE" /\ RowConfs(o) = 0
  BY Zenon DEF VaultDispatchInit, VaultInit, RowStatus, RowConfs, Order, Sweep, AllOrders
<1>6. notice = NoReport /\ notice.status = "NONE" /\ notice.order \notin AllOrders
  BY Zenon DEF VaultDispatchInit, NoReport, AllOrders
<1>7. Ours
  <2>1. \A c \in Callers : calls[c].pc = "idle"
    BY Zenon DEF VaultDispatchInit, NoCall
  <2> QED BY <1>5, <1>6, <2>1, Zenon DEF Ours
<1>8. Solos
  BY <1>2, <1>4, <1>5, <1>6, Zenon DEF Solos, Solo
<1>9. Gently
  BY <1>2, <1>5, <1>6, Zenon DEF Gently, AllOrders
<1>10. Deep
  BY <1>5, <1>6 DEF Deep
<1> QED BY <1>1, <1>7, <1>8, <1>9, <1>10, Zenon

\* The handlers, the chain and the scanner keep the layers.
LEMMA DispatchAlways == VaultDispatchSpec => [](Typed /\ Ours /\ Solos /\ Gently)
<1>1. Typed /\ Ours /\ Solos /\ Gently /\ [VaultDispatchNext]_vdvars
        => (Typed /\ Ours /\ Solos /\ Gently)'
  BY TypedStep, OursStep, SolosStep, GentlyStep, Zenon
<1> QED
  BY <1>1, DispatchStart, PTL DEF VaultDispatchSpec

\* What is on the chain for an order was sent for it.
LEMMA LiveWasSent ==
    ASSUME NEW o \in AllOrders, NEW t \in Live(o)
    PROVE  t \in Txs /\ SentFor(t, o) /\ chain[t].status # "reverted"
BY Zenon DEF Live, TxsOf, SentFor, Out

\* A sweep order moves the customer's money at most once, to the account whose
\* vault is credited, as long as SweepRun is called once for it, whatever
\* crashes, fails or is lost.
THEOREM SweepsMoveOnce == VaultDispatchSpec => []SingleSweepIsOnce
<1>1. Solos => SingleSweepIsOnce
  <2>1. SUFFICES ASSUME Solos, NEW s \in Sweeps, requests[s] <= 1
                 PROVE  /\ \A t, u \in Live(s) : t = u
                        /\ \A t \in Live(s) : chain[t].to = sweeps[s].dest
    BY Zenon DEF SingleSweepIsOnce
  <2>2. s \in AllOrders /\ Solo(s)
    BY <2>1, Zenon DEF Solos, AllOrders
  <2>3. \A t \in Live(s) : t \in Txs /\ SentFor(t, s)
    BY <2>2, LiveWasSent, Zenon
  <2>4. \A t, u \in Live(s) : t = u
    BY <2>2, <2>3, Zenon DEF Solo
  <2>5. \A t \in Live(s) : chain[t].to = sweeps[s].dest
    BY <2>2, <2>3, Zenon DEF Solo
  <2> QED BY <2>4, <2>5, Zenon
<1> QED BY <1>1, DispatchAlways, PTL

\* What the chain takes from a pool for a transfer is covered by the debit of
\* its one reservation, while nothing goes wrong, on every chain but Aptos.
THEOREM PoolsAreCovered == VaultDispatchSpec => []PoolNotOversubscribed
<1>1. Solos /\ Gently => PoolNotOversubscribed
  <2>1. SUFFICES ASSUME Solos, Gently, Calm, setup.family # "aptos", NEW x \in Transfers
                 PROVE  /\ \A t, u \in Live(x) : t = u
                        /\ transfers[x].status \in {"NONE", "FAILED"} => Live(x) = {}
    BY Zenon DEF PoolNotOversubscribed
  <2>2. x \in AllOrders /\ Solo(x) /\ RowStatus(x) = transfers[x].status
    BY <2>1, Zenon DEF Solos, Calm, AllOrders, RowStatus
  <2>3. \A t \in Live(x) : t \in Txs /\ SentFor(t, x) /\ chain[t].status # "reverted"
    BY <2>2, LiveWasSent, Zenon
  <2>4. \A t, u \in Live(x) : t = u
    BY <2>2, <2>3, Zenon DEF Solo
  <2>5. ASSUME transfers[x].status \in {"NONE", "FAILED"} PROVE Live(x) = {}
    BY <2>1, <2>2, <2>3, <2>5, Zenon DEF Solo, Gently
  <2> QED BY <2>4, <2>5, Zenon
<1> QED BY <1>1, DispatchAlways, PTL

\* A DONE order has a final transaction, whatever crashes, fails or comes late
\* and whichever chain's adapter is asked, where one confirmation is not
\* enough: a transaction has one as soon as it is included.
THEOREM DoneOrdersArePaid ==
    ASSUME RequiredConfs > 1
    PROVE  VaultDispatchSpec => []DoneMeansPaid
<1>1. Typed /\ Ours /\ Solos /\ Deep /\ [VaultDispatchNext]_vdvars => Deep'
  BY DeepStep, Zenon
<1>2. Deep => DoneMeansPaid
  BY ZenonT(60) DEF Deep, DoneMeansPaid, Final, TxsOf
<1> QED BY <1>1, <1>2, DispatchStart, DispatchAlways, PTL DEF VaultDispatchSpec

\* Whatever the handlers and the scanner do, and in whatever order, a transfer
\* that is DONE or FAILED stays so.
THEOREM HandlersSettleOnce == VaultDispatchSpec => SettledTransferIsFinal
<1>1. Typed /\ Ours /\ [VaultDispatchNext]_vdvars => [Stays]_vaultVars
  BY StepsAreShaped, SettledStep, Zenon DEF Typed, VaultDispatchTypeOK
<1> QED
  BY <1>1, DispatchAlways, PTL DEF VaultDispatchSpec, SettledTransferIsFinal, Stays

\* Nor do they leave the journal and the order rows in disagreement.
THEOREM HandlersJournal == VaultDispatchSpec => []VaultJournalTellsTheRows
<1>1. VaultDispatchInit => VaultJournalTellsTheRows
  BY SMTT(60) DEF VaultDispatchInit, VaultInit, VaultJournalTellsTheRows, Order, Sweep
<1>2. Typed /\ Ours /\ VaultJournalTellsTheRows /\ [VaultDispatchNext]_vdvars
        => VaultJournalTellsTheRows'
  BY StepsAreShaped, VaultJournalStep, Zenon DEF Typed, VaultDispatchTypeOK
<1> QED BY <1>1, <1>2, DispatchAlways, PTL DEF VaultDispatchSpec

-----------------------------------------------------------------------------
(* The balances.  CoinsTheorems is taken here and not above, and under a     *)
(* name: its facts about finite sets would be in the way of everything else. *)

Sums == INSTANCE CoinsTheorems

\* Its words are this module's.
LEMMA SumsAgree ==
    /\ \A S : Sums!IsFiniteSet(S) <=> IsFiniteSet(S)
    /\ \A S, amt : Sums!Worth(S, amt) = Worth(S, amt)
<1>1. \A S : Sums!IsFiniteSet(S) <=> IsFiniteSet(S)
  BY Zenon DEF Sums!IsFiniteSet, IsFiniteSet
<1>2. \A S : Sums!Cardinality(S) = Cardinality(S)
  BY Zenon DEF Sums!Cardinality, Cardinality
<1> QED
  BY <1>1, <1>2, ZenonT(60) DEF Sums!Worth, Worth, Sums!CoinsOf, CoinsOf

\* The worth of finitely many orders is a natural number.
LEMMA WorthNat ==
    ASSUME NEW S, IsFiniteSet(S), NEW amt, \A x \in S : amt[x] \in Nat
    PROVE  Worth(S, amt) \in Nat
BY SumsAgree, Sums!WorthNat, ZenonT(60)

\* Nothing is worth nothing.
LEMMA WorthEmpty ==
    ASSUME NEW amt
    PROVE  Worth({}, amt) = 0
BY SumsAgree, Sums!WorthEmpty, ZenonT(60)

\* A new order adds its amount.
LEMMA WorthAdd ==
    ASSUME NEW S, IsFiniteSet(S), NEW y, y \notin S,
           NEW amt, \A x \in S \cup {y} : amt[x] \in Nat
    PROVE  Worth(S \cup {y}, amt) = Worth(S, amt) + amt[y]
BY SumsAgree, Sums!WorthAdd, ZenonT(60)

\* An order that leaves takes its amount along.
LEMMA WorthRemove ==
    ASSUME NEW S, IsFiniteSet(S), NEW y \in S, NEW amt, \A x \in S : amt[x] \in Nat
    PROVE  /\ amt[y] <= Worth(S, amt)
           /\ Worth(S \ {y}, amt) = Worth(S, amt) - amt[y]
BY SumsAgree, Sums!WorthRemove, ZenonT(60)

\* A part of a finite set is finite.
LEMMA PartFinite ==
    ASSUME NEW S, IsFiniteSet(S), NEW T \in SUBSET S
    PROVE  IsFiniteSet(T)
BY SumsAgree, Sums!FS_Subset, ZenonT(60)

\* What one step does to the balance of one vault and the orders behind it.
Moves(a) ==
    vault'[a] + Worth(DebitedFrom(a)', TransferAmount) + Worth(CreditedTo(a), TransferAmount)
      = vault[a] + Worth(DebitedFrom(a), TransferAmount)
          + Worth(CreditedTo(a)', TransferAmount) + Worth(SweptInto(a), SweepAmount)

\* A treasury-transfer method moves a vault by the transfer's amount exactly
\* when it adds the transfer to, or takes it from, the vault's orders.
LEMMA TransferMoves ==
    ASSUME VaultTypeOK, NEW a \in Accounts, NEW x \in Transfers, NEW r \in OrderRow,
           TransferEffect(x, r)
    PROVE  Moves(a)
<1> USE VaultAssumption
<1> DEFINE old == transfers[x]
           D == DebitedFrom(a)
           C == CreditedTo(a)
<1>1. transfers'[x] = r /\ \A y \in Transfers \ {x} : transfers'[y] = transfers[y]
  BY Zenon DEF TransferEffect, VaultTypeOK
<1>2. Worth(SweptInto(a), SweepAmount) = 0
  <2>1. SweptInto(a) = {}
    BY Zenon DEF SweptInto, TransferEffect
  <2> QED BY <2>1, WorthEmpty, ZenonT(60)
<1>3. IsFiniteSet(D) /\ IsFiniteSet(C) /\ D \subseteq Transfers /\ C \subseteq Transfers
  BY PartFinite, ZenonT(60) DEF DebitedFrom, CreditedTo
<1>4. /\ \A y \in Transfers : TransferAmount[y] \in Nat
      /\ vault \in [Accounts -> Nat] /\ From[x] \in Accounts /\ To[x] \in Accounts
  BY Zenon DEF VaultTypeOK
<1>5. Worth(D, TransferAmount) \in Nat /\ Worth(C, TransferAmount) \in Nat
  BY <1>3, <1>4, WorthNat, ZenonT(60)
<1>6. CASE /\ old.status = "NONE" /\ r.status = "RESERVED"
           /\ vault' = [vault EXCEPT ![From[x]] = @ + (-TransferAmount[x])]
  <2>1. C' = C
    BY <1>1, <1>6, ZenonT(60) DEF CreditedTo
  <2>2. CASE From[x] = a
    <3>1. D' = D \cup {x} /\ x \notin D
      BY <1>1, <1>6, <2>2, ZenonT(60) DEF DebitedFrom
    <3>2. Worth(D', TransferAmount) = Worth(D, TransferAmount) + TransferAmount[x]
      BY <1>3, <1>4, <3>1, WorthAdd, ZenonT(60)
    <3>3. vault'[a] = vault[a] - TransferAmount[x]
      BY <1>4, <1>6, <2>2, ZenonT(60)
    <3> QED BY <1>2, <1>4, <1>5, <2>1, <3>2, <3>3, SMTT(60) DEF Moves
  <2>3. CASE From[x] # a
    <3>1. D' = D
      BY <1>1, <1>6, <2>3, ZenonT(60) DEF DebitedFrom
    <3>2. vault'[a] = vault[a]
      BY <1>4, <1>6, <2>3, ZenonT(60)
    <3> QED BY <1>2, <1>4, <1>5, <2>1, <3>1, <3>2, SMTT(60) DEF Moves
  <2> QED BY <2>2, <2>3, ZenonT(60)
<1>7. CASE /\ UNCHANGED vault
           /\ \/ old.status \in Open /\ r.status \in Open
              \/ r.status = old.status
  <2>1. D' = D /\ C' = C
    BY <1>1, <1>7, ZenonT(60) DEF DebitedFrom, CreditedTo, Open
  <2> QED BY <1>2, <1>4, <1>5, <1>7, <2>1, SMTT(60) DEF Moves
<1>8. CASE /\ old.status \in Open /\ r.status = "DONE"
           /\ vault' = [vault EXCEPT ![To[x]] = @ + TransferAmount[x]]
  <2>1. D' = D
    BY <1>1, <1>8, ZenonT(60) DEF DebitedFrom, Open
  <2>2. CASE To[x] = a
    <3>1. C' = C \cup {x} /\ x \notin C
      BY <1>1, <1>8, <2>2, ZenonT(60) DEF CreditedTo, Open
    <3>2. Worth(C', TransferAmount) = Worth(C, TransferAmount) + TransferAmount[x]
      BY <1>3, <1>4, <3>1, WorthAdd, ZenonT(60)
    <3>3. vault'[a] = vault[a] + TransferAmount[x]
      BY <1>4, <1>8, <2>2, ZenonT(60)
    <3> QED BY <1>2, <1>4, <1>5, <2>1, <3>2, <3>3, SMTT(60) DEF Moves
  <2>3. CASE To[x] # a
    <3>1. C' = C
      BY <1>1, <1>8, <2>3, ZenonT(60) DEF CreditedTo, Open
    <3>2. vault'[a] = vault[a]
      BY <1>4, <1>8, <2>3, ZenonT(60)
    <3> QED BY <1>2, <1>4, <1>5, <2>1, <3>1, <3>2, SMTT(60) DEF Moves
  <2> QED BY <2>2, <2>3, ZenonT(60)
<1>9. CASE /\ old.status \in Open /\ r.status = "FAILED"
           /\ vault' = [vault EXCEPT ![From[x]] = @ + TransferAmount[x]]
  <2>1. C' = C
    BY <1>1, <1>9, ZenonT(60) DEF CreditedTo, Open
  <2>2. CASE From[x] = a
    <3>1. D' = D \ {x} /\ x \in D
      BY <1>1, <1>9, <2>2, ZenonT(60) DEF DebitedFrom, Open
    <3>2. /\ Worth(D', TransferAmount) = Worth(D, TransferAmount) - TransferAmount[x]
          /\ TransferAmount[x] <= Worth(D, TransferAmount)
      BY <1>3, <1>4, <3>1, WorthRemove, ZenonT(60)
    <3>3. vault'[a] = vault[a] + TransferAmount[x]
      BY <1>4, <1>9, <2>2, ZenonT(60)
    <3> QED BY <1>2, <1>4, <1>5, <2>1, <3>2, <3>3, SMTT(60) DEF Moves
  <2>3. CASE From[x] # a
    <3>1. D' = D
      BY <1>1, <1>9, <2>3, ZenonT(60) DEF DebitedFrom
    <3>2. vault'[a] = vault[a]
      BY <1>4, <1>9, <2>3, ZenonT(60)
    <3> QED BY <1>2, <1>4, <1>5, <2>1, <3>1, <3>2 DEF Moves
  <2> QED BY <2>2, <2>3, Zenon
<1> QED
  BY <1>6, <1>7, <1>8, <1>9, ZenonT(60) DEF TransferEffect

\* A sweep method moves its destination vault by the sweep's amount exactly
\* when the sweep becomes DONE.
LEMMA SweepMoves ==
    ASSUME VaultTypeOK, NEW a \in Accounts, NEW s \in Sweeps, NEW r \in SweepRow,
           SweepEffect(s, r)
    PROVE  Moves(a)
<1> USE VaultAssumption
<1> DEFINE old == sweeps[s]
           D == DebitedFrom(a)
           C == CreditedTo(a)
<1>1. sweeps'[s] = r /\ \A z \in Sweeps \ {s} : sweeps'[z] = sweeps[z]
  BY Zenon DEF SweepEffect, VaultTypeOK
<1>2. D' = D /\ C' = C
  BY Zenon DEF SweepEffect, DebitedFrom, CreditedTo
<1>3. Worth(D, TransferAmount) \in Nat /\ Worth(C, TransferAmount) \in Nat
  <2>1. IsFiniteSet(D) /\ IsFiniteSet(C) /\ D \subseteq Transfers /\ C \subseteq Transfers
    BY PartFinite, Zenon DEF DebitedFrom, CreditedTo
  <2>2. \A y \in Transfers : TransferAmount[y] \in Nat
    BY Zenon
  <2> QED BY <2>1, <2>2, WorthNat, ZenonT(60)
<1>4. vault \in [Accounts -> Nat] /\ SweepAmount[s] \in Nat /\ old.dest \in Accounts
  BY ZenonT(60) DEF VaultTypeOK, SweepRow
<1>5. CASE UNCHANGED vault /\ (r.status = "DONE" => old.status = "DONE")
  <2>1. SweptInto(a) = {}
    BY <1>1, <1>5, ZenonT(60) DEF SweptInto
  <2> QED BY <1>2, <1>3, <1>4, <1>5, <2>1, WorthEmpty, SMTT(60) DEF Moves
<1>6. CASE /\ old.status # "DONE" /\ r.status = "DONE"
           /\ vault' = [vault EXCEPT ![old.dest] = @ + SweepAmount[s]]
  <2>1. CASE old.dest = a
    <3>1. SweptInto(a) = {} \cup {s}
      BY <1>1, <1>6, <2>1, ZenonT(60) DEF SweptInto
    <3>0. IsFiniteSet({})
      BY PartFinite, Zenon
    <3>2. Worth({} \cup {s}, SweepAmount) = Worth({}, SweepAmount) + SweepAmount[s]
      BY <1>4, <3>0, WorthAdd, ZenonT(60)
    <3>3. Worth(SweptInto(a), SweepAmount) = SweepAmount[s]
      BY <1>4, <3>1, <3>2, WorthEmpty, SMTT(60)
    <3>4. vault'[a] = vault[a] + SweepAmount[s]
      BY <1>4, <1>6, <2>1, ZenonT(60)
    <3> QED BY <1>2, <1>3, <1>4, <3>3, <3>4, SMTT(60) DEF Moves
  <2>2. CASE old.dest # a
    <3>1. SweptInto(a) = {}
      BY <1>1, <1>6, <2>2, ZenonT(60) DEF SweptInto
    <3>2. vault'[a] = vault[a]
      BY <1>4, <1>6, <2>2, ZenonT(60)
    <3> QED BY <1>2, <1>3, <1>4, <3>1, <3>2, WorthEmpty, SMTT(60) DEF Moves
  <2> QED BY <2>1, <2>2, ZenonT(60)
<1> QED
  BY <1>5, <1>6, ZenonT(60) DEF SweepEffect

\* Every method moves the vaults so.
LEMMA MovesStep ==
    ASSUME VaultTypeOK, TableStep, NEW a \in Accounts
    PROVE  Moves(a) \/ UNCHANGED vaultVars
BY TransferCases, SweepCases, TransferMoves, SweepMoves, ZenonT(60) DEF TableStep

\* Vault money moves only with its orders: every change of a vault balance is
\* a reservation, its rollback, or the one credit of a DONE transfer or sweep.
THEOREM VaultBalanced == VaultSpec => VaultMovesWithOrders
<1>1. VaultTypeOK /\ [VaultNext]_vaultVars => [\A a \in Accounts : Moves(a)]_vaultVars
  BY MovesStep, CallsAreMethods, ZenonT(60)
<1> QED
  BY <1>1, VaultTypeCorrect, PTL DEF VaultSpec, VaultMovesWithOrders, Moves

\* The handlers move vault money only with its orders: every change of a vault
\* balance is a reservation, its rollback, or the one credit of a DONE order.
THEOREM HandlersMoveWithOrders == VaultDispatchSpec => VaultMovesWithOrders
<1>1. Typed /\ Ours /\ [VaultDispatchNext]_vdvars => [\A a \in Accounts : Moves(a)]_vaultVars
  BY StepsAreShaped, MovesStep, Zenon DEF Typed, VaultDispatchTypeOK
<1> QED
  BY <1>1, DispatchAlways, PTL DEF VaultDispatchSpec, VaultMovesWithOrders, Moves
=============================================================================
