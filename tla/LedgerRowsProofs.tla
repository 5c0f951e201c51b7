-------------------------- MODULE LedgerRowsProofs --------------------------
(***************************************************************************)
(* When a ledger method may be taken for one step: with the balance rows   *)
(* in place, and an order frozen by one caller at a time, no interleaving  *)
(* of the statements of any number of transactions loses an update, and    *)
(* the only transactions that deadlock are confirmations of transfers.     *)
(*                                                                         *)
(* The inductive invariant says who holds which lock at which statement,   *)
(* and that a transaction that has read a balance row and not yet ended    *)
(* works on what the row still holds.                                      *)
(***************************************************************************)
EXTENDS LedgerRows, CoinsTheorems

\* Past the statements on its own row, and past the read of its balance row.
Past(c) == client[c].pc \in {"read", "source", "write", "file", "commit"}
Holding(c) == client[c].pc \in {"source", "write", "file", "commit"}

\* The methods that take up an order that is there.
Settles(kind) == kind \in {"confirm", "fail", "sweep"}

\* A caller is idle, or at a statement of a method for a key of its kind.
ShapeOK(c) ==
    /\ At(c, "idle") <=> Kind(c) = "none"
    /\ Kind(c) = "none" => Key(c) = Nobody
    /\ Kind(c) # "none" => Kind(c) \in Kinds /\ Key(c) \in KeysOf(Kind(c))
    /\ At(c, "look") => Kind(c) # "reserve"
    /\ At(c, "insert") => Kind(c) \in {"credit", "reserve"}
    /\ At(c, "source") => Kind(c) = "confirm"

ShapeInv == RowsTypeOK /\ \A c \in Clients : ShapeOK(c)

\* The lock of an order's row is held by a transaction past it, and, but for
\* a freeze, which inserts its row last, by every such transaction.
KeyLocks ==
    /\ \A c \in Clients, k \in Keys : keyOwner[k] = c => Past(c) /\ Key(c) = k
    /\ \A c \in Clients : Past(c) /\ Kind(c) # "freeze" => keyOwner[Key(c)] = c

\* What the order's row says while a transaction is at work on it.
KeyStates ==
    /\ \A k \in Orders \cup Deposits : filed[k] \in {"NONE", "FILED"}
    /\ \A c \in Clients : Settles(Kind(c)) => filed[Key(c)] # "NONE"
    /\ \A c \in Clients : Past(c) => filed[Key(c)] = IF Settles(Kind(c)) THEN "RESERVED" ELSE "NONE"
    /\ \A c, d \in Clients : Kind(c) = "freeze" /\ Kind(d) = "freeze" /\ Key(c) = Key(d) => c = d

\* The lock of a balance row is held from the read to the end.
RowLocks ==
    /\ exists = Rows
    /\ \A c \in Clients : Holding(c) => rowOwner[Target(c)] = c
    /\ \A c \in Clients, r \in Rows : rowOwner[r] = c =>
         /\ Holding(c)
         /\ r = Target(c) \/ (Kind(c) = "confirm" /\ ~At(c, "source") /\ r = From[Key(c)])

\* What was read is still there, and what will be written was computed from it.
ReadIsCurrent ==
    \A c \in Clients :
      /\ client[c].pc \in {"source", "write"} => client[c].val = row[Target(c)]
      /\ client[c].pc \in {"file", "commit"} =>
           /\ Affordable(Kind(c), Key(c), row[Target(c)])
           /\ client[c].val = Rewritten(Kind(c), Key(c), row[Target(c)])

LockInv == KeyLocks /\ KeyStates /\ RowLocks /\ ReadIsCurrent

-----------------------------------------------------------------------------
(* Kinds and keys. *)

\* Every method's keys are keys, and no order is a key of two kinds.
LEMMA KeysOfKinds ==
    /\ \A kind \in Kinds : KeysOf(kind) \subseteq Keys
    /\ \A kind \in Kinds : \A k \in KeysOf(kind) : k # Nobody
BY RowsAssumption, Zenon DEF Kinds, KeysOf, Keys

\* A method at work rewrites one balance row.
LEMMA TargetIsRow ==
    ASSUME NEW c \in Clients, ShapeOK(c), Kind(c) # "none"
    PROVE  Target(c) \in Rows
BY RowsAssumption, Zenon DEF ShapeOK, Kinds, KeysOf, Target, Rows

\* What a method writes is a balance row, if it can be afforded.
LEMMA RewrittenType ==
    ASSUME NEW kind \in Kinds, NEW k \in KeysOf(kind), NEW v \in BalanceType,
           Affordable(kind, k, v)
    PROVE  Rewritten(kind, k, v) \in BalanceType
<1> USE RowsAssumption, OrdersAssumption, DepositsAssumption DEF KeysOf, Affordable, Rewritten, Row, BalanceType
<1>1. CASE kind = "freeze"
  BY <1>1
<1>2. CASE kind = "credit"
  BY <1>2
<1>3. CASE kind = "reserve"
  BY <1>3
<1>4. CASE kind = "confirm" \/ kind = "fail"
  BY <1>4
<1>5. CASE kind = "sweep"
  BY <1>5
<1> QED
  BY <1>1, <1>2, <1>3, <1>4, <1>5, Zenon DEF Kinds

-----------------------------------------------------------------------------
(* Type correctness. *)

\* At the start every caller is idle.
LEMMA ShapeInit == RowsInit => ShapeInv
<1> SUFFICES ASSUME RowsInit PROVE ShapeInv
  BY Zenon
<1>1. NoBalance \in BalanceType
  BY Zenon DEF NoBalance, Row, BalanceType
<1>2. RowsTypeOK
  <2>1. row \in [Rows -> BalanceType] /\ exists \subseteq Rows
    BY RowsAssumption, Zenon DEF RowsInit, Row, BalanceType
  <2>2. client \in [Clients -> [pc : {"idle", "look", "insert", "read", "source", "write",
                                     "file", "commit"},
                               kind : Kinds \cup {"none"},
                               key : Keys \cup {Nobody}, val : BalanceType]]
    BY <1>1, Zenon DEF RowsInit, Resting
  <2> QED BY <2>1, <2>2, Zenon DEF RowsInit, RowsTypeOK
<1>3. ASSUME NEW c \in Clients PROVE ShapeOK(c)
  BY Zenon DEF RowsInit, Resting, ShapeOK, At, Kind, Key, Kinds
<1> QED BY <1>2, <1>3, Zenon DEF ShapeInv

\* A step of one caller, if what that caller becomes is well-formed.
LEMMA ShapeOfOne ==
    ASSUME ShapeInv, NEW c \in Clients, NEW h,
           client' = [client EXCEPT ![c] = h],
           h.pc \in {"idle", "look", "insert", "read", "source", "write", "file", "commit"},
           h \in [pc : {"idle", "look", "insert", "read", "source", "write", "file", "commit"},
                  kind : Kinds \cup {"none"}, key : Keys \cup {Nobody}, val : BalanceType],
           h.pc = "idle" <=> h.kind = "none",
           h.kind = "none" => h.key = Nobody,
           h.kind # "none" => h.kind \in Kinds /\ h.key \in KeysOf(h.kind),
           h.pc = "look" => h.kind # "reserve",
           h.pc = "insert" => h.kind \in {"credit", "reserve"},
           h.pc = "source" => h.kind = "confirm",
           workload' \in Workloads,
           row' \in [Rows -> BalanceType], exists' \subseteq Rows,
           rowOwner' \in [Rows -> Clients \cup {Nobody}],
           filed' \in [Keys -> {"NONE", "FILED", "RESERVED", "DONE", "FAILED"}],
           keyOwner' \in [Keys -> Clients \cup {Nobody}]
    PROVE  ShapeInv'
<1>1. RowsTypeOK'
  BY Zenon DEF ShapeInv, RowsTypeOK
<1>2. ASSUME NEW d \in Clients PROVE ShapeOK(d)'
  <2>1. CASE d = c
    <3>1. client'[d] = h
      BY <2>1, Zenon DEF ShapeInv, RowsTypeOK
    <3> QED
      BY <3>1, Zenon DEF ShapeOK, At, Kind, Key
  <2>2. CASE d # c
    <3>1. client'[d] = client[d]
      BY <2>2, Zenon DEF ShapeInv, RowsTypeOK
    <3> QED
      BY <3>1 DEF ShapeInv, ShapeOK, At, Kind, Key
  <2> QED
    BY <2>1, <2>2, Zenon
<1> QED
  BY <1>1, <1>2, Zenon DEF ShapeInv

\* A transaction that ends leaves its caller idle.
LEMMA RollbackShape ==
    ASSUME ShapeInv, NEW c \in Clients, Release(c),
           row' \in [Rows -> BalanceType], exists' \subseteq Rows, workload' = workload,
           filed' \in [Keys -> {"NONE", "FILED", "RESERVED", "DONE", "FAILED"}]
    PROVE  ShapeInv'
<1>1. /\ Resting.pc = "idle" /\ Resting.kind = "none" /\ Resting.key = Nobody
      /\ Resting \in [pc : {"idle", "look", "insert", "read", "source", "write", "file", "commit"},
                      kind : Kinds \cup {"none"}, key : Keys \cup {Nobody}, val : BalanceType]
  BY Zenon DEF Resting, NoBalance, Row, BalanceType
<1>2. /\ rowOwner' \in [Rows -> Clients \cup {Nobody}]
      /\ keyOwner' \in [Keys -> Clients \cup {Nobody}]
      /\ workload' \in Workloads
  BY Zenon DEF ShapeInv, RowsTypeOK, Release
<1>3. client' = [client EXCEPT ![c] = Resting]
  BY Zenon DEF Release
<1> HIDE DEF Resting
<1> QED
  BY <1>1, <1>2, <1>3, ShapeOfOne, Zenon

\* Every statement leaves the tables and the callers well-formed: in
\* particular no balance a transaction computes goes below zero.
LEMMA ShapeStep == ShapeInv /\ [RowsNext]_rowVars => ShapeInv'
<1> SUFFICES ASSUME ShapeInv, [RowsNext]_rowVars PROVE ShapeInv'
  BY Zenon
<1> DEFINE H == [pc : {"idle", "look", "insert", "read", "source", "write", "file", "commit"},
                 kind : Kinds \cup {"none"}, key : Keys \cup {Nobody}, val : BalanceType]
<1>t. RowsTypeOK
  BY Zenon DEF ShapeInv
<1>1. CASE UNCHANGED rowVars
  BY <1>1, Zenon DEF ShapeInv, RowsTypeOK, rowVars, ShapeOK, At, Kind, Key
<1>2. ASSUME NEW c \in Clients, NEW kind \in Kinds, NEW k \in KeysOf(kind), Begin(c, kind, k)
      PROVE  ShapeInv'
  <2> DEFINE h == [Resting EXCEPT !.pc = IF kind = "reserve" THEN "insert" ELSE "look",
                                  !.kind = kind, !.key = k]
  <2>1. h \in H /\ h.kind = kind /\ h.key = k /\ h.pc \notin {"idle", "source"} /\ kind # "none"
        /\ (h.pc = "look" => kind # "reserve") /\ (h.pc = "insert" => kind = "reserve")
    BY KeysOfKinds, Zenon DEF Resting, NoBalance, Row, BalanceType, Kinds
  <2>2. client' = [client EXCEPT ![c] = h]
    BY <1>2, Zenon DEF Begin
  <2>3. UNCHANGED <<workload, tables, rowOwner, keyOwner>>
    BY <1>2, Zenon DEF Begin
  <2> HIDE DEF h
  <2> QED
    BY <1>t, <2>1, <2>2, <2>3, ShapeOfOne, Zenon DEF tables, RowsTypeOK
<1>3. ASSUME NEW c \in Clients, Rollback(c) PROVE ShapeInv'
  BY <1>t, <1>3, RollbackShape, Zenon DEF Rollback, tables, RowsTypeOK
<1>4. ASSUME NEW c \in Clients, ~At(c, "idle"),
             NEW pc \in {"insert", "read", "write", "file", "commit"}, Goto(c, pc),
             pc = "insert" => Kind(c) = "credit",
             UNCHANGED <<workload, tables>>,
             rowOwner' \in [Rows -> Clients \cup {Nobody}],
             keyOwner' \in [Keys -> Clients \cup {Nobody}]
      PROVE  ShapeInv'
  <2> DEFINE h == [client[c] EXCEPT !.pc = pc]
  <2>1. client[c] \in H
    BY <1>t, Zenon DEF RowsTypeOK
  <2>2. /\ h \in H /\ h.pc = pc /\ h.kind = Kind(c) /\ h.key = Key(c)
        /\ Kind(c) # "none" /\ Kind(c) \in Kinds /\ Key(c) \in KeysOf(Kind(c))
    BY <1>4, <2>1, Zenon DEF ShapeInv, ShapeOK, Kind, Key, At
  <2>3. client' = [client EXCEPT ![c] = h]
    BY <1>4, Zenon DEF Goto
  <2> HIDE DEF h
  <2> QED
    BY <1>t, <1>4, <2>2, <2>3, ShapeOfOne, Zenon DEF tables, RowsTypeOK
<1>k. ASSUME NEW c \in Clients, ~At(c, "idle")
      PROVE  /\ Kind(c) \in Kinds /\ Key(c) \in KeysOf(Kind(c)) /\ Key(c) \in Keys
             /\ Target(c) \in Rows /\ client[c].val \in BalanceType
  BY <1>t, <1>k, KeysOfKinds, TargetIsRow, Zenon DEF ShapeInv, ShapeOK, RowsTypeOK
<1>5. ASSUME NEW c \in Clients, Look(c) PROVE ShapeInv'
  <2> USE <1>5 DEF Look
  <2>0. ~At(c, "idle")
    BY Zenon DEF At
  <2>1. CASE filed[Key(c)] = "NONE"
    <3>1. Goto(c, IF Kind(c) = "credit" THEN "insert" ELSE "read")
      BY <2>1, Zenon
    <3>2. UNCHANGED <<workload, tables, rowOwner, keyOwner>>
      BY <2>1, Zenon
    <3> QED
      BY <1>t, <1>4, <2>0, <3>1, <3>2, Zenon DEF RowsTypeOK
  <2>2. CASE Rollback(c)
    BY <1>3, <2>2, Zenon
  <2>3. CASE /\ keyOwner' = [keyOwner EXCEPT ![Key(c)] = c]
             /\ Goto(c, "read")
             /\ UNCHANGED <<workload, tables, rowOwner>>
    BY <1>t, <1>4, <2>0, <2>3, Zenon DEF RowsTypeOK
  <2> QED
    BY <2>1, <2>2, <2>3, Zenon
<1>6. ASSUME NEW c \in Clients, Insert(c) PROVE ShapeInv'
  <2> USE <1>6 DEF Insert
  <2>0. ~At(c, "idle")
    BY Zenon DEF At
  <2>2. CASE Rollback(c)
    BY <1>3, <2>2, Zenon
  <2>3. CASE /\ keyOwner' = [keyOwner EXCEPT ![Key(c)] = c]
             /\ Goto(c, "read")
             /\ UNCHANGED <<workload, tables, rowOwner>>
    BY <1>t, <1>4, <2>0, <2>3, Zenon DEF RowsTypeOK
  <2> QED
    BY <2>2, <2>3, Zenon
<1>7. ASSUME NEW c \in Clients, GetBalanceTx(c) PROVE ShapeInv'
  <2>0. ~At(c, "idle")
    BY <1>7, Zenon DEF At, GetBalanceTx
  <2> DEFINE h == [client[c] EXCEPT !.pc = AfterRead(c), !.val = row[Target(c)]]
  <2>1. client[c] \in H /\ row[Target(c)] \in BalanceType
    BY <1>t, <1>k, <2>0, Zenon DEF RowsTypeOK
  <2>2. /\ h \in H /\ h.pc \in {"source", "write"} /\ h.kind = Kind(c) /\ h.key = Key(c)
        /\ h.pc = "source" => Kind(c) = "confirm"
    BY <2>1, Zenon DEF Kind, Key, AfterRead
  <2>3. Kind(c) # "none" /\ Kind(c) \in Kinds /\ Key(c) \in KeysOf(Kind(c))
    BY <1>k, <2>0, Zenon DEF Kinds
  <2>4. client' = [client EXCEPT ![c] = h] /\ UNCHANGED <<workload, tables, keyOwner>>
    BY <1>t, <1>7, Zenon DEF GetBalanceTx, RowsTypeOK
  <2>5. rowOwner' \in [Rows -> Clients \cup {Nobody}]
    BY <1>t, <1>7, Zenon DEF GetBalanceTx, RowsTypeOK
  <2> HIDE DEF h
  <2> QED
    BY <1>t, <2>2, <2>3, <2>4, <2>5, ShapeOfOne, Zenon DEF tables, RowsTypeOK
<1>8. ASSUME NEW c \in Clients, GetSourceBalanceTx(c) PROVE ShapeInv'
  <2>0. ~At(c, "idle")
    BY <1>8, Zenon DEF At, GetSourceBalanceTx
  <2>1. rowOwner' \in [Rows -> Clients \cup {Nobody}]
    BY <1>t, <1>8, Zenon DEF GetSourceBalanceTx, RowsTypeOK
  <2> QED
    BY <1>t, <1>4, <1>8, <2>0, <2>1, Zenon DEF GetSourceBalanceTx, RowsTypeOK
<1>9. ASSUME NEW c \in Clients, UpsertBalanceTx(c) PROVE ShapeInv'
  <2>1. CASE Rollback(c)
    BY <1>3, <2>1, Zenon
  <2>2. CASE ~Rollback(c)
    <3>0. ~At(c, "idle")
      BY <1>9, Zenon DEF At, UpsertBalanceTx
    <3> DEFINE w == Rewritten(Kind(c), Key(c), client[c].val)
               h == [client[c] EXCEPT !.pc = "file", !.val = w]
    <3>1. Affordable(Kind(c), Key(c), client[c].val)
      BY <1>9, <2>2, Zenon DEF UpsertBalanceTx
    <3>2. w \in BalanceType
      BY <1>k, <3>0, <3>1, RewrittenType, Zenon
    <3>3. client[c] \in H
      BY <1>t, Zenon DEF RowsTypeOK
    <3>4. client' = [client EXCEPT ![c] = h] /\ UNCHANGED <<workload, tables, keyOwner>>
      BY <1>9, <2>2, <1>t, Zenon DEF UpsertBalanceTx, RowsTypeOK
    <3>5. rowOwner' \in [Rows -> Clients \cup {Nobody}]
      BY <1>t, <1>9, <2>2, Zenon DEF UpsertBalanceTx, RowsTypeOK
    <3> HIDE DEF w
    <3>6. h \in H /\ h.pc = "file" /\ h.kind = Kind(c) /\ h.key = Key(c)
      BY <3>2, <3>3, Zenon DEF Kind, Key
    <3>7. Kind(c) # "none" /\ Kind(c) \in Kinds /\ Key(c) \in KeysOf(Kind(c))
      BY <1>k, <3>0, Zenon DEF Kinds
    <3> HIDE DEF h
    <3> QED
      BY <1>t, <3>4, <3>5, <3>6, <3>7, ShapeOfOne, Zenon DEF tables, RowsTypeOK
  <2> QED
    BY <2>1, <2>2, Zenon
<1>10. ASSUME NEW c \in Clients, File(c) PROVE ShapeInv'
  <2>0. ~At(c, "idle")
    BY <1>10, Zenon DEF At, File
  <2>1. keyOwner' \in [Keys -> Clients \cup {Nobody}]
    BY <1>t, <1>10, Zenon DEF File, RowsTypeOK
  <2> QED
    BY <1>t, <1>4, <1>10, <2>0, <2>1, Zenon DEF File, RowsTypeOK
<1>11. ASSUME NEW c \in Clients, Commit(c) PROVE ShapeInv'
  <2>0. ~At(c, "idle")
    BY <1>11, Zenon DEF At, Commit
  <2>1. row' \in [Rows -> BalanceType] /\ exists' \subseteq Rows /\ workload' = workload /\ Release(c)
    BY <1>t, <1>k, <1>11, <2>0, Zenon DEF Commit, RowsTypeOK
  <2>2. Outcome(Kind(c)) \in {"FILED", "RESERVED", "DONE", "FAILED"}
    BY <1>k, <2>0, Zenon DEF Outcome, Kinds
  <2>3. filed' \in [Keys -> {"NONE", "FILED", "RESERVED", "DONE", "FAILED"}]
    BY <1>t, <1>11, <2>2, Zenon DEF Commit, RowsTypeOK
  <2> QED
    BY <2>1, <2>3, RollbackShape, Zenon
<1>12. ASSUME NEW c \in Clients, DeadlockVictim(c) PROVE ShapeInv'
  BY <1>3, <1>12, Zenon DEF DeadlockVictim
<1> QED
  BY <1>1, <1>2, <1>5, <1>6, <1>7, <1>8, <1>9, <1>10, <1>11, <1>12, Zenon DEF RowsNext, Statement

\* The tables and the callers keep their types: no balance row goes below zero
\* and no transaction is at a statement its method does not have.
THEOREM RowsTypeCorrect == RowsSpec => []RowsTypeOK
<1>1. ShapeInv => RowsTypeOK
  BY Zenon DEF ShapeInv
<1> QED
  BY <1>1, ShapeInit, ShapeStep, PTL DEF RowsSpec

-----------------------------------------------------------------------------
(* The locks. *)

\* The order's row is one of freezes, or of none.
LEMMA FreezeKeysApart ==
    ASSUME ShapeInv, NEW c \in Clients, NEW d \in Clients,
           Kind(c) # "none", Kind(d) # "none", Key(c) = Key(d)
    PROVE  Kind(c) = "freeze" <=> Kind(d) = "freeze"
BY RowsAssumption, Zenon DEF ShapeInv, ShapeOK, Kinds, KeysOf

\* A transaction at work has a kind, a key and a target.
LEMMA AtWork ==
    ASSUME ShapeInv, NEW c \in Clients, ~At(c, "idle")
    PROVE  /\ Kind(c) \in Kinds /\ Kind(c) # "none"
           /\ Key(c) \in KeysOf(Kind(c)) /\ Key(c) \in Keys
           /\ Target(c) \in Rows
           /\ client[c] \in [pc : {"idle", "look", "insert", "read", "source", "write",
                                   "file", "commit"},
                             kind : Kinds \cup {"none"}, key : Keys \cup {Nobody},
                             val : BalanceType]
BY KeysOfKinds, TargetIsRow, Zenon DEF ShapeInv, ShapeOK, RowsTypeOK, Kinds

\* No two transactions are past the same order's row.
LEMMA PastApart ==
    ASSUME ShapeInv, KeyLocks, KeyStates, NEW c \in Clients, NEW d \in Clients,
           Past(c), Past(d), Key(c) = Key(d)
    PROVE  c = d
<1>1. Kind(c) # "none" /\ Kind(d) # "none"
  BY AtWork, Zenon DEF Past, At
<1>2. Kind(c) = "freeze" <=> Kind(d) = "freeze"
  BY <1>1, FreezeKeysApart, Zenon
<1> QED
  BY <1>2, Zenon DEF KeyLocks, KeyStates

\* No two transactions work on the same balance row.
LEMMA HoldingApart ==
    ASSUME RowLocks, NEW c \in Clients, NEW d \in Clients,
           Holding(c), Holding(d), Target(c) = Target(d)
    PROVE  c = d
BY Zenon DEF RowLocks

\* The callers that a step leaves alone.
LEMMA OthersStay ==
    ASSUME ShapeInv, NEW c \in Clients, NEW h, client' = [client EXCEPT ![c] = h]
    PROVE  /\ client'[c] = h
           /\ \A d \in Clients : d # c =>
                /\ client'[d] = client[d] /\ Key(d)' = Key(d) /\ Kind(d)' = Kind(d)
                /\ Target(d)' = Target(d) /\ Past(d)' = Past(d) /\ Holding(d)' = Holding(d)
<1>1. \A d \in Clients : d # c => client'[d] = client[d]
  BY Zenon DEF ShapeInv, RowsTypeOK
<1>2. client'[c] = h
  BY Zenon DEF ShapeInv, RowsTypeOK
<1> QED
  BY <1>1, <1>2, Zenon DEF Key, Kind, Target, Past, Holding

\* A transaction that ends without a commit.
LEMMA RollbackLocks ==
    ASSUME ShapeInv, LockInv, NEW c \in Clients, Rollback(c)
    PROVE  LockInv'
<1>0. /\ c # Nobody /\ UNCHANGED <<row, exists, filed>>
      /\ rowOwner' = [r \in Rows |-> IF rowOwner[r] = c THEN Nobody ELSE rowOwner[r]]
      /\ keyOwner' = [k \in Keys |-> IF keyOwner[k] = c THEN Nobody ELSE keyOwner[k]]
      /\ client' = [client EXCEPT ![c] = Resting]
  BY RowsAssumption, Zenon DEF Rollback, Release, tables
<1>r. client'[c] = Resting
  BY <1>0, OthersStay, Zenon
<1>1. client'[c].pc = "idle" /\ Kind(c)' = "none"
  BY <1>r DEF Resting, Kind
<1>2. \A d \in Clients : d # c =>
                /\ client'[d] = client[d] /\ Key(d)' = Key(d) /\ Kind(d)' = Kind(d)
                /\ Target(d)' = Target(d) /\ Past(d)' = Past(d) /\ Holding(d)' = Holding(d)
  BY <1>0, OthersStay, Zenon
<1>3. ~Past(c)' /\ ~Holding(c)'
  BY <1>1, Zenon DEF Past, Holding
<1>k. ASSUME NEW d \in Clients, ~At(d, "idle") PROVE Key(d) \in Keys /\ Target(d) \in Rows
  BY <1>k, AtWork, Zenon
<1>4. KeyLocks'
  <2>1. ASSUME NEW d \in Clients, NEW k \in Keys, keyOwner'[k] = d PROVE (Past(d) /\ Key(d) = k)'
    BY <1>0, <1>2, <2>1, RowsAssumption, Zenon DEF LockInv, KeyLocks
  <2>2. ASSUME NEW d \in Clients, Past(d)', Kind(d)' # "freeze" PROVE keyOwner'[Key(d)'] = d
    <3>1. d # c
      BY <1>3, <2>2, Zenon
    <3> QED
      BY <1>0, <1>2, <1>k, <2>2, <3>1, Zenon DEF LockInv, KeyLocks, Past, At
  <2> QED
    BY <2>1, <2>2, Zenon DEF KeyLocks
<1>5. KeyStates'
  BY <1>0, <1>1, <1>2, <1>3 DEF LockInv, KeyStates, Settles
<1>6. RowLocks'
  <2>1. ASSUME NEW d \in Clients, Holding(d)' PROVE rowOwner'[Target(d)'] = d
    <3>1. d # c
      BY <1>3, <2>1, Zenon
    <3> QED
      BY <1>0, <1>2, <1>k, <2>1, <3>1 DEF LockInv, RowLocks, Holding, At
  <2>2. ASSUME NEW d \in Clients, NEW r \in Rows, rowOwner'[r] = d
        PROVE  /\ Holding(d)'
               /\ \/ r = Target(d)'
                  \/ (Kind(d) = "confirm" /\ ~At(d, "source") /\ r = From[Key(d)])'
    <3>1. d # c /\ rowOwner[r] = d
      BY <1>0, <2>2, RowsAssumption, Zenon
    <3> QED
      BY <1>2, <3>1 DEF LockInv, RowLocks, At
  <2> QED
    BY <1>0, <2>1, <2>2, Zenon DEF LockInv, RowLocks
<1>7. ReadIsCurrent'
  <2> SUFFICES ASSUME NEW d \in Clients, d # c
               PROVE (/\ client[d].pc \in {"source", "write"} => client[d].val = row[Target(d)]
                      /\ client[d].pc \in {"file", "commit"} =>
                           /\ Affordable(Kind(d), Key(d), row[Target(d)])
                           /\ client[d].val = Rewritten(Kind(d), Key(d), row[Target(d)]))'
    BY <1>1, Zenon DEF ReadIsCurrent
  <2> QED
    BY <1>0, <1>2, Zenon DEF LockInv, ReadIsCurrent, Affordable, Rewritten
<1> QED
  BY <1>4, <1>5, <1>6, <1>7, Zenon DEF LockInv

\* At the start nobody holds a lock.
LEMMA LockInit ==
    ASSUME RowsInit, Opened = Rows
    PROVE  LockInv
<1>1. \A c \in Clients : client[c].pc = "idle" /\ Kind(c) = "none" /\ ~Past(c) /\ ~Holding(c)
  BY Zenon DEF RowsInit, Resting, Kind, Past, Holding
<1>2. KeyLocks
  BY <1>1, RowsAssumption, Zenon DEF RowsInit, KeyLocks
<1>3. KeyStates
  BY <1>1, RowsAssumption, Zenon DEF RowsInit, KeyStates, Settles, Keys
<1>4. RowLocks
  BY <1>1, RowsAssumption, Zenon DEF RowsInit, RowLocks
<1>5. ReadIsCurrent
  BY <1>1, Zenon DEF ReadIsCurrent
<1> QED
  BY <1>2, <1>3, <1>4, <1>5, Zenon DEF LockInv

\* A method starts: it holds nothing, and no other caller freezes its order.
LEMMA BeginLocks ==
    ASSUME ShapeInv, LockInv, ~Duplicates, NEW c \in Clients, NEW kind \in Kinds,
           NEW k \in KeysOf(kind), Begin(c, kind, k)
    PROVE  LockInv'
<1> DEFINE h == [Resting EXCEPT !.pc = IF kind = "reserve" THEN "insert" ELSE "look",
                                !.kind = kind, !.key = k]
<1>0. /\ UNCHANGED <<row, exists, filed, rowOwner, keyOwner>>
      /\ client' = [client EXCEPT ![c] = h]
      /\ ~Past(c) /\ ~Holding(c)
      /\ kind = "freeze" => \A other \in Clients : Key(other) # k
      /\ Settles(kind) => filed[k] = "RESERVED"
  BY Zenon DEF Begin, tables, At, Past, Holding, Settles
<1>h. h.pc \in {"insert", "look"} /\ h.kind = kind /\ h.key = k
  BY Zenon DEF Resting
<1> HIDE DEF h
<1>2. /\ client'[c] = h
      /\ \A d \in Clients : d # c =>
                /\ client'[d] = client[d] /\ Key(d)' = Key(d) /\ Kind(d)' = Kind(d)
                /\ Target(d)' = Target(d) /\ Past(d)' = Past(d) /\ Holding(d)' = Holding(d)
  BY <1>0, OthersStay, Zenon
<1>3. Kind(c)' = kind /\ Key(c)' = k /\ ~Past(c)' /\ ~Holding(c)'
  BY <1>2, <1>h, Zenon DEF Kind, Key, Past, Holding
<1>4. KeyLocks'
  BY <1>0, <1>2, <1>3 DEF LockInv, KeyLocks
<1>5. KeyStates'
  <2>1. \A d \in Clients : Settles(Kind(d)') => filed[Key(d)'] # "NONE"
    BY <1>0, <1>2, <1>3 DEF LockInv, KeyStates
  <2>2. \A d \in Clients : Past(d)' => filed[Key(d)'] = IF Settles(Kind(d)') THEN "RESERVED" ELSE "NONE"
    BY <1>2, <1>3 DEF LockInv, KeyStates
  <2>3. \A d, e \in Clients : Kind(d)' = "freeze" /\ Kind(e)' = "freeze" /\ Key(d)' = Key(e)' => d = e
    BY <1>0, <1>2, <1>3 DEF LockInv, KeyStates
  <2> QED
    BY <1>0, <2>1, <2>2, <2>3, Zenon DEF LockInv, KeyStates, Settles
<1>6. RowLocks'
  BY <1>0, <1>2, <1>3 DEF LockInv, RowLocks, At
<1>7. ReadIsCurrent'
  <2>1. ASSUME NEW d \in Clients
        PROVE (/\ client[d].pc \in {"source", "write"} => client[d].val = row[Target(d)]
               /\ client[d].pc \in {"file", "commit"} =>
                    /\ Affordable(Kind(d), Key(d), row[Target(d)])
                    /\ client[d].val = Rewritten(Kind(d), Key(d), row[Target(d)]))'
    <3>1. CASE d = c
      BY <1>h, <1>2, <3>1, Zenon
    <3>2. CASE d # c
      BY <1>0, <1>2, <3>2, Zenon DEF LockInv, ReadIsCurrent, Affordable, Rewritten
    <3> QED
      BY <3>1, <3>2, Zenon
  <2> QED
    BY <2>1, Zenon DEF ReadIsCurrent
<1> QED
  BY <1>4, <1>5, <1>6, <1>7, Zenon DEF LockInv

\* A transaction goes past its order's row, or on to the insert of it.
LEMMA PastKeyLocks ==
    ASSUME ShapeInv, LockInv, NEW c \in Clients, NEW pc \in {"insert", "read"}, Goto(c, pc),
           client[c].pc \in {"look", "insert"}, UNCHANGED <<row, exists, filed, rowOwner>>,
           \/ UNCHANGED keyOwner
           \/ keyOwner[Key(c)] = Nobody /\ pc = "read" /\ keyOwner' = [keyOwner EXCEPT ![Key(c)] = c],
           pc = "read" =>
             /\ filed[Key(c)] = IF Settles(Kind(c)) THEN "RESERVED" ELSE "NONE"
             /\ Kind(c) # "freeze" => keyOwner' = [keyOwner EXCEPT ![Key(c)] = c]
    PROVE  LockInv'
<1> DEFINE h == [client[c] EXCEPT !.pc = pc]
<1>0. client' = [client EXCEPT ![c] = h] /\ ~Past(c) /\ ~Holding(c) /\ ~At(c, "idle")
  BY Zenon DEF Goto, Past, Holding, At
<1>w. /\ Key(c) \in Keys
      /\ client[c] \in [pc : {"idle", "look", "insert", "read", "source", "write", "file", "commit"},
                        kind : Kinds \cup {"none"}, key : Keys \cup {Nobody}, val : BalanceType]
  BY <1>0, AtWork, Zenon
<1>h. h.pc = pc /\ h.kind = Kind(c) /\ h.key = Key(c)
  BY <1>w, Zenon DEF Kind, Key
<1> HIDE DEF h
<1>2. /\ client'[c] = h
      /\ \A d \in Clients : d # c =>
                /\ client'[d] = client[d] /\ Key(d)' = Key(d) /\ Kind(d)' = Kind(d)
                /\ Target(d)' = Target(d) /\ Past(d)' = Past(d) /\ Holding(d)' = Holding(d)
  BY <1>0, OthersStay, Zenon
<1>3. Kind(c)' = Kind(c) /\ Key(c)' = Key(c) /\ (Past(c)' <=> pc = "read") /\ ~Holding(c)'
  BY <1>2, <1>h, Zenon DEF Kind, Key, Past, Holding
<1>o. \A k \in Keys : keyOwner'[k] = keyOwner[k]
                      \/ (k = Key(c) /\ keyOwner[k] = Nobody /\ keyOwner'[k] = c /\ pc = "read")
  BY <1>w, Zenon DEF ShapeInv, RowsTypeOK
<1>4. KeyLocks'
  <2>1. ASSUME NEW d \in Clients, NEW k \in Keys, keyOwner'[k] = d PROVE (Past(d) /\ Key(d) = k)'
    BY <1>0, <1>2, <1>3, <1>o, <2>1 DEF LockInv, KeyLocks
  <2>2. ASSUME NEW d \in Clients, Past(d)', Kind(d)' # "freeze" PROVE keyOwner'[Key(d)'] = d
    <3>1. CASE d = c
      BY <1>3, <1>w, <2>2, <3>1, Zenon DEF ShapeInv, RowsTypeOK
    <3>2. CASE d # c
      <4>1. keyOwner[Key(d)] = d /\ Key(d) \in Keys /\ d # Nobody
        BY <1>2, <2>2, <3>2, AtWork, RowsAssumption, Zenon DEF LockInv, KeyLocks, Past, At
      <4> QED
        BY <1>2, <1>o, <3>2, <4>1, Zenon
    <3> QED
      BY <3>1, <3>2, Zenon
  <2> QED
    BY <2>1, <2>2, Zenon DEF KeyLocks
<1>5. KeyStates'
  <2>1. \A d \in Clients : Settles(Kind(d)') => filed[Key(d)'] # "NONE"
    BY <1>2, <1>3 DEF LockInv, KeyStates
  <2>2. \A d \in Clients : Past(d)' => filed[Key(d)'] = IF Settles(Kind(d)') THEN "RESERVED" ELSE "NONE"
    BY <1>2, <1>3 DEF LockInv, KeyStates
  <2>3. \A d, e \in Clients : Kind(d)' = "freeze" /\ Kind(e)' = "freeze" /\ Key(d)' = Key(e)' => d = e
    BY <1>2, <1>3 DEF LockInv, KeyStates
  <2> QED
    BY <2>1, <2>2, <2>3, Zenon DEF LockInv, KeyStates, Settles
<1>6. RowLocks'
  BY <1>0, <1>2, <1>3 DEF LockInv, RowLocks, At
<1>7. ReadIsCurrent'
  <2>1. ASSUME NEW d \in Clients
        PROVE (/\ client[d].pc \in {"source", "write"} => client[d].val = row[Target(d)]
               /\ client[d].pc \in {"file", "commit"} =>
                    /\ Affordable(Kind(d), Key(d), row[Target(d)])
                    /\ client[d].val = Rewritten(Kind(d), Key(d), row[Target(d)]))'
    <3>1. CASE d = c
      BY <1>h, <1>2, <3>1, Zenon
    <3>2. CASE d # c
      BY <1>0, <1>2, <3>2, Zenon DEF LockInv, ReadIsCurrent, Affordable, Rewritten
    <3> QED
      BY <3>1, <3>2, Zenon
  <2> QED
    BY <2>1, Zenon DEF ReadIsCurrent
<1> QED
  BY <1>4, <1>5, <1>6, <1>7, Zenon DEF LockInv

\* SELECT ... FOR UPDATE of the order's row.
LEMMA LookLocks ==
    ASSUME ShapeInv, LockInv, NEW c \in Clients, Look(c)
    PROVE  LockInv'
<1>0. At(c, "look") /\ ~At(c, "idle") /\ Kind(c) # "reserve"
  BY Zenon DEF Look, At, ShapeInv, ShapeOK
<1>w. Kind(c) \in Kinds /\ Key(c) \in KeysOf(Kind(c))
  BY <1>0, AtWork, Zenon
<1>1. CASE Rollback(c)
  BY <1>1, RollbackLocks, Zenon
<1>2. CASE filed[Key(c)] = "NONE"
  <2>1. ~Settles(Kind(c))
    BY <1>2, Zenon DEF LockInv, KeyStates
  <2>2. Kind(c) \in {"freeze", "credit"}
    BY <1>0, <1>w, <2>1, Zenon DEF Kinds, Settles
  <2>3. /\ Goto(c, IF Kind(c) = "credit" THEN "insert" ELSE "read")
        /\ UNCHANGED <<row, exists, filed, rowOwner, keyOwner>>
    BY <1>2, Zenon DEF Look, tables
  <2> QED
    BY <1>0, <1>2, <2>1, <2>2, <2>3, PastKeyLocks, Zenon DEF At
<1>3. CASE /\ filed[Key(c)] = "RESERVED" /\ keyOwner[Key(c)] = Nobody
           /\ keyOwner' = [keyOwner EXCEPT ![Key(c)] = c]
           /\ Goto(c, "read")
           /\ UNCHANGED <<workload, tables, rowOwner>>
  <2>1. Key(c) \notin Orders \cup Deposits
    BY <1>3, Zenon DEF LockInv, KeyStates
  <2>2. Settles(Kind(c))
    BY <1>0, <1>w, <2>1, Zenon DEF Kinds, KeysOf, Settles
  <2> QED
    BY <1>0, <1>3, <2>2, PastKeyLocks, Zenon DEF At, tables
<1> QED
  BY <1>1, <1>2, <1>3, Zenon DEF Look

\* The INSERT of a deposit or of a transfer.
LEMMA InsertLocks ==
    ASSUME ShapeInv, LockInv, NEW c \in Clients, Insert(c)
    PROVE  LockInv'
<1>0. At(c, "insert") /\ keyOwner[Key(c)] = Nobody /\ Kind(c) \in {"credit", "reserve"}
  BY Zenon DEF Insert, ShapeInv, ShapeOK
<1>1. CASE Rollback(c)
  BY <1>1, RollbackLocks, Zenon
<1>2. CASE /\ filed[Key(c)] = "NONE"
           /\ keyOwner' = [keyOwner EXCEPT ![Key(c)] = c]
           /\ Goto(c, "read")
           /\ UNCHANGED <<workload, tables, rowOwner>>
  <2>1. ~Settles(Kind(c))
    BY <1>0, Zenon DEF Settles
  <2> QED
    BY <1>0, <1>2, <2>1, PastKeyLocks, Zenon DEF At, tables
<1> QED
  BY <1>1, <1>2, Zenon DEF Insert

\* A transaction past its order's row moves on with its balance rows: it takes
\* them, computes, and comes to the statement on its order.
LEMMA BalanceLocks ==
    ASSUME ShapeInv, LockInv, NEW c \in Clients, NEW h,
           client' = [client EXCEPT ![c] = h], Past(c),
           h.kind = Kind(c), h.key = Key(c),
           h.pc \in {"source", "write", "file", "commit"},
           UNCHANGED <<row, exists, filed>>,
           UNCHANGED keyOwner \/ (keyOwner[Key(c)] \in {Nobody, c} /\ keyOwner' = [keyOwner EXCEPT ![Key(c)] = c]),
           rowOwner' \in [Rows -> Clients \cup {Nobody}],
           rowOwner'[Target(c)] = c,
           \A r \in Rows : rowOwner'[r] # rowOwner[r] =>
              /\ rowOwner[r] \in {Nobody, c} /\ rowOwner'[r] = c
              /\ r = Target(c) \/ (Kind(c) = "confirm" /\ h.pc # "source" /\ r = From[Key(c)]),
           h.pc = "source" => ~Holding(c),
           h.pc \in {"source", "write"} => h.val = row[Target(c)],
           h.pc \in {"file", "commit"} =>
              /\ Affordable(Kind(c), Key(c), row[Target(c)])
              /\ h.val = Rewritten(Kind(c), Key(c), row[Target(c)])
    PROVE  LockInv'
<1>w. Key(c) \in Keys /\ Target(c) \in Rows
  BY AtWork, Zenon DEF Past, At
<1>2. /\ client'[c] = h
      /\ \A d \in Clients : d # c =>
                /\ client'[d] = client[d] /\ Key(d)' = Key(d) /\ Kind(d)' = Kind(d)
                /\ Target(d)' = Target(d) /\ Past(d)' = Past(d) /\ Holding(d)' = Holding(d)
  BY OthersStay, Zenon
<1>3. /\ Kind(c)' = Kind(c) /\ Key(c)' = Key(c) /\ Target(c)' = Target(c)
      /\ Past(c)' /\ Holding(c)'
  BY <1>2, Zenon DEF Kind, Key, Past, Holding, Target
<1>o. \A k \in Keys : keyOwner'[k] = keyOwner[k]
                      \/ (k = Key(c) /\ keyOwner[k] \in {Nobody, c} /\ keyOwner'[k] = c)
  BY <1>w, Zenon DEF ShapeInv, RowsTypeOK
<1>4. KeyLocks'
  <2>1. ASSUME NEW d \in Clients, NEW k \in Keys, keyOwner'[k] = d PROVE (Past(d) /\ Key(d) = k)'
    BY <1>2, <1>3, <1>o, <2>1 DEF LockInv, KeyLocks
  <2>2. ASSUME NEW d \in Clients, Past(d)', Kind(d)' # "freeze" PROVE keyOwner'[Key(d)'] = d
    <3>1. CASE d = c
      BY <1>3, <1>w, <1>o, <2>2, <3>1 DEF LockInv, KeyLocks
    <3>2. CASE d # c
      <4>1. keyOwner[Key(d)] = d /\ Key(d) \in Keys /\ d # Nobody
        BY <1>2, <2>2, <3>2, AtWork, RowsAssumption DEF LockInv, KeyLocks, Past, At
      <4> QED
        BY <1>2, <1>o, <3>2, <4>1, Zenon
    <3> QED
      BY <3>1, <3>2, Zenon
  <2> QED
    BY <2>1, <2>2, Zenon DEF KeyLocks
<1>5. KeyStates'
  <2>1. \A d \in Clients : Settles(Kind(d)') => filed[Key(d)'] # "NONE"
    BY <1>2, <1>3 DEF LockInv, KeyStates
  <2>2. \A d \in Clients : Past(d)' => filed[Key(d)'] = IF Settles(Kind(d)') THEN "RESERVED" ELSE "NONE"
    BY <1>2, <1>3 DEF LockInv, KeyStates
  <2>3. \A d, e \in Clients : Kind(d)' = "freeze" /\ Kind(e)' = "freeze" /\ Key(d)' = Key(e)' => d = e
    BY <1>2, <1>3 DEF LockInv, KeyStates
  <2> QED
    BY <2>1, <2>2, <2>3, Zenon DEF LockInv, KeyStates, Settles
<1>6. RowLocks'
  <2>1. ASSUME NEW d \in Clients, Holding(d)' PROVE rowOwner'[Target(d)'] = d
    <3>1. CASE d = c
      BY <1>3, <3>1, Zenon
    <3>2. CASE d # c
      <4>1. rowOwner[Target(d)] = d /\ Target(d) \in Rows /\ d # Nobody
        BY <1>2, <2>1, <3>2, AtWork, RowsAssumption, Zenon DEF LockInv, RowLocks, Holding, At
      <4> QED
        BY <1>2, <3>2, <4>1, Zenon
    <3> QED
      BY <3>1, <3>2, Zenon
  <2>2. ASSUME NEW d \in Clients, NEW r \in Rows, rowOwner'[r] = d
        PROVE  /\ Holding(d)'
               /\ \/ r = Target(d)'
                  \/ (Kind(d) = "confirm" /\ ~At(d, "source") /\ r = From[Key(d)])'
    <3>1. CASE d = c
      BY <1>2, <1>3, <2>2, <3>1 DEF LockInv, RowLocks, At, Holding
    <3>2. CASE d # c
      BY <1>2, <2>2, <3>2 DEF LockInv, RowLocks, At
    <3> QED
      BY <3>1, <3>2, Zenon
  <2> QED
    BY <2>1, <2>2, Zenon DEF LockInv, RowLocks
<1>7. ReadIsCurrent'
  <2>1. ASSUME NEW d \in Clients
        PROVE (/\ client[d].pc \in {"source", "write"} => client[d].val = row[Target(d)]
               /\ client[d].pc \in {"file", "commit"} =>
                    /\ Affordable(Kind(d), Key(d), row[Target(d)])
                    /\ client[d].val = Rewritten(Kind(d), Key(d), row[Target(d)]))'
    <3>1. CASE d = c
      BY <1>2, <1>3, <3>1, Zenon DEF Affordable, Rewritten
    <3>2. CASE d # c
      BY <1>2, <3>2 DEF LockInv, ReadIsCurrent, Affordable, Rewritten
    <3> QED
      BY <3>1, <3>2, Zenon
  <2> QED
    BY <2>1, Zenon DEF ReadIsCurrent
<1> QED
  BY <1>4, <1>5, <1>6, <1>7, Zenon DEF LockInv

\* SELECT ... FOR UPDATE of the balance row.
LEMMA GetBalanceLocks ==
    ASSUME ShapeInv, LockInv, NEW c \in Clients, GetBalanceTx(c)
    PROVE  LockInv'
<1> DEFINE h == [client[c] EXCEPT !.pc = AfterRead(c), !.val = row[Target(c)]]
<1>0. At(c, "read") /\ ~At(c, "idle") /\ Past(c) /\ ~Holding(c)
  BY Zenon DEF GetBalanceTx, At, Past, Holding
<1>w. /\ Target(c) \in Rows /\ Target(c) \in exists
      /\ client[c] \in [pc : {"idle", "look", "insert", "read", "source", "write", "file", "commit"},
                        kind : Kinds \cup {"none"}, key : Keys \cup {Nobody}, val : BalanceType]
  BY <1>0, AtWork, Zenon DEF LockInv, RowLocks
<1>h. h.pc \in {"source", "write"} /\ h.kind = Kind(c) /\ h.key = Key(c) /\ h.val = row[Target(c)]
  BY <1>w, Zenon DEF Kind, Key, AfterRead
<1>1. /\ client' = [client EXCEPT ![c] = h]
      /\ UNCHANGED <<row, exists, filed, keyOwner>>
      /\ rowOwner[Target(c)] = Nobody
      /\ rowOwner' = [rowOwner EXCEPT ![Target(c)] = c]
  BY <1>w, Zenon DEF GetBalanceTx, tables, ShapeInv, RowsTypeOK
<1>2. /\ rowOwner' \in [Rows -> Clients \cup {Nobody}]
      /\ rowOwner'[Target(c)] = c
      /\ \A r \in Rows : rowOwner'[r] # rowOwner[r] => r = Target(c)
  BY <1>1, <1>w, Zenon DEF ShapeInv, RowsTypeOK
<1> HIDE DEF h
<1> QED
  BY <1>0, <1>h, <1>1, <1>2, BalanceLocks, Zenon

\* A transfer that is confirmed locks its source.
LEMMA GetSourceLocks ==
    ASSUME ShapeInv, LockInv, NEW c \in Clients, GetSourceBalanceTx(c)
    PROVE  LockInv'
<1> DEFINE h == [client[c] EXCEPT !.pc = "write"]
           s == From[Key(c)]
<1>0. At(c, "source") /\ ~At(c, "idle") /\ Past(c) /\ Holding(c) /\ Kind(c) = "confirm"
  BY Zenon DEF GetSourceBalanceTx, At, Past, Holding, ShapeInv, ShapeOK
<1>w. /\ Target(c) \in Rows /\ Key(c) \in KeysOf(Kind(c))
      /\ client[c] \in [pc : {"idle", "look", "insert", "read", "source", "write", "file", "commit"},
                        kind : Kinds \cup {"none"}, key : Keys \cup {Nobody}, val : BalanceType]
  BY <1>0, AtWork, Zenon DEF LockInv, RowLocks
<1>s. s \in Rows /\ s \in exists /\ s # Target(c)
  BY <1>0, <1>w, RowsAssumption, Zenon DEF LockInv, RowLocks, KeysOf, Rows, Target
<1>v. client[c].val = row[Target(c)] /\ rowOwner[Target(c)] = c
  BY <1>0, Zenon DEF LockInv, ReadIsCurrent, RowLocks, At
<1>h. h.pc = "write" /\ h.kind = Kind(c) /\ h.key = Key(c) /\ h.val = row[Target(c)]
  BY <1>w, <1>v, Zenon DEF Kind, Key
<1>1. /\ client' = [client EXCEPT ![c] = h]
      /\ UNCHANGED <<row, exists, filed, keyOwner>>
      /\ rowOwner[s] = Nobody
      /\ rowOwner' = [rowOwner EXCEPT ![s] = c]
  BY <1>s, Zenon DEF GetSourceBalanceTx, Goto, tables
<1>2. /\ rowOwner' \in [Rows -> Clients \cup {Nobody}]
      /\ rowOwner'[Target(c)] = c
      /\ \A r \in Rows : rowOwner'[r] # rowOwner[r] => r = s /\ rowOwner[r] = Nobody /\ rowOwner'[r] = c
  BY <1>1, <1>w, <1>v, <1>s, Zenon DEF ShapeInv, RowsTypeOK
<1> HIDE DEF h
<1> QED
  BY <1>0, <1>h, <1>1, <1>2, BalanceLocks, Zenon

\* The new balance is computed from the row that is locked.
LEMMA UpsertLocks ==
    ASSUME ShapeInv, LockInv, NEW c \in Clients, UpsertBalanceTx(c)
    PROVE  LockInv'
<1> DEFINE w == Rewritten(Kind(c), Key(c), client[c].val)
           h == [client[c] EXCEPT !.pc = "file", !.val = w]
<1>0. At(c, "write") /\ ~At(c, "idle") /\ Past(c) /\ Holding(c)
  BY Zenon DEF UpsertBalanceTx, At, Past, Holding
<1>w. /\ Target(c) \in Rows
      /\ client[c] \in [pc : {"idle", "look", "insert", "read", "source", "write", "file", "commit"},
                        kind : Kinds \cup {"none"}, key : Keys \cup {Nobody}, val : BalanceType]
  BY <1>0, AtWork, Zenon
<1>v. client[c].val = row[Target(c)] /\ rowOwner[Target(c)] = c
  BY <1>0, Zenon DEF LockInv, ReadIsCurrent, RowLocks, At
<1>1. CASE Rollback(c)
  BY <1>1, RollbackLocks, Zenon
<1>2. CASE ~Rollback(c)
  <2>1. /\ client' = [client EXCEPT ![c] = h]
        /\ UNCHANGED <<row, exists, filed, keyOwner>>
        /\ Affordable(Kind(c), Key(c), client[c].val)
        /\ rowOwner' = [rowOwner EXCEPT ![Target(c)] = c]
    BY <1>2, <1>w, Zenon DEF UpsertBalanceTx, tables, ShapeInv, RowsTypeOK
  <2>2. rowOwner' = rowOwner /\ rowOwner \in [Rows -> Clients \cup {Nobody}]
    BY <2>1, <1>v, Zenon DEF ShapeInv, RowsTypeOK
  <2>w. w = Rewritten(Kind(c), Key(c), row[Target(c)]) /\ Affordable(Kind(c), Key(c), row[Target(c)])
    BY <1>v, <2>1, Zenon
  <2> HIDE DEF w
  <2>h. h.pc = "file" /\ h.kind = Kind(c) /\ h.key = Key(c) /\ h.val = w
    BY <1>w, Zenon DEF Kind, Key
  <2> HIDE DEF h
  <2> QED
    BY <1>0, <1>v, <2>h, <2>w, <2>1, <2>2, BalanceLocks, Zenon
<1> QED
  BY <1>1, <1>2, Zenon

\* The statement on the order's row.
LEMMA FileLocks ==
    ASSUME ShapeInv, LockInv, NEW c \in Clients, File(c)
    PROVE  LockInv'
<1> DEFINE h == [client[c] EXCEPT !.pc = "commit"]
<1>0. At(c, "file") /\ ~At(c, "idle") /\ Past(c) /\ Holding(c)
  BY Zenon DEF File, At, Past, Holding
<1>w. client[c] \in [pc : {"idle", "look", "insert", "read", "source", "write", "file", "commit"},
                     kind : Kinds \cup {"none"}, key : Keys \cup {Nobody}, val : BalanceType]
  BY <1>0, AtWork, Zenon
<1>v. /\ Affordable(Kind(c), Key(c), row[Target(c)])
      /\ client[c].val = Rewritten(Kind(c), Key(c), row[Target(c)])
      /\ rowOwner[Target(c)] = c
  BY <1>0, Zenon DEF LockInv, ReadIsCurrent, RowLocks, At
<1>h. h.pc = "commit" /\ h.kind = Kind(c) /\ h.key = Key(c) /\ h.val = client[c].val
  BY <1>w, Zenon DEF Kind, Key
<1>1. /\ client' = [client EXCEPT ![c] = h]
      /\ UNCHANGED <<row, exists, filed, rowOwner>>
      /\ keyOwner[Key(c)] \in {Nobody, c} /\ keyOwner' = [keyOwner EXCEPT ![Key(c)] = c]
      /\ rowOwner \in [Rows -> Clients \cup {Nobody}]
  BY Zenon DEF File, Goto, tables, ShapeInv, RowsTypeOK
<1> HIDE DEF h
<1> QED
  BY <1>0, <1>h, <1>v, <1>1, BalanceLocks, Zenon

\* A commit writes the row and gives the locks up.
LEMMA CommitLocks ==
    ASSUME ShapeInv, LockInv, NEW c \in Clients, Commit(c)
    PROVE  LockInv'
<1>p. At(c, "commit") /\ ~At(c, "idle") /\ Past(c) /\ Holding(c)
  BY Zenon DEF Commit, At, Past, Holding
<1>w. /\ Kind(c) \in Kinds /\ Key(c) \in KeysOf(Kind(c)) /\ Key(c) \in Keys /\ Target(c) \in Rows
  BY <1>p, AtWork, Zenon
<1>0. /\ c # Nobody /\ exists' = Rows
      /\ rowOwner' = [r \in Rows |-> IF rowOwner[r] = c THEN Nobody ELSE rowOwner[r]]
      /\ keyOwner' = [k \in Keys |-> IF keyOwner[k] = c THEN Nobody ELSE keyOwner[k]]
      /\ client' = [client EXCEPT ![c] = Resting]
      /\ row' = [row EXCEPT ![Target(c)] = client[c].val]
      /\ filed' = [filed EXCEPT ![Key(c)] = Outcome(Kind(c))]
  BY <1>w, RowsAssumption DEF Commit, Release, LockInv, RowLocks
<1>r. client'[c] = Resting
  BY <1>0, OthersStay, Zenon
<1>1. client'[c].pc = "idle" /\ Kind(c)' = "none" /\ ~Past(c)' /\ ~Holding(c)'
  BY <1>r DEF Resting, Kind, Past, Holding
<1>2. \A d \in Clients : d # c =>
                /\ client'[d] = client[d] /\ Key(d)' = Key(d) /\ Kind(d)' = Kind(d)
                /\ Target(d)' = Target(d) /\ Past(d)' = Past(d) /\ Holding(d)' = Holding(d)
  BY <1>0, OthersStay, Zenon
<1>f. /\ \A k \in Keys : k # Key(c) => filed'[k] = filed[k]
      /\ filed'[Key(c)] = Outcome(Kind(c)) /\ Outcome(Kind(c)) # "NONE"
      /\ Key(c) \in Orders \cup Deposits => Outcome(Kind(c)) = "FILED"
  BY <1>0, <1>w, RowsAssumption DEF ShapeInv, RowsTypeOK, Outcome, Kinds, KeysOf
<1>k. ASSUME NEW d \in Clients, ~At(d, "idle") PROVE Key(d) \in Keys /\ Target(d) \in Rows
  BY <1>k, AtWork, Zenon
<1>4. KeyLocks'
  <2>1. ASSUME NEW d \in Clients, NEW k \in Keys, keyOwner'[k] = d PROVE (Past(d) /\ Key(d) = k)'
    BY <1>0, <1>2, <2>1, RowsAssumption, Zenon DEF LockInv, KeyLocks
  <2>2. ASSUME NEW d \in Clients, Past(d)', Kind(d)' # "freeze" PROVE keyOwner'[Key(d)'] = d
    <3>1. d # c
      BY <1>1, <2>2, Zenon
    <3> QED
      BY <1>0, <1>2, <1>k, <2>2, <3>1, Zenon DEF LockInv, KeyLocks, Past, At
  <2> QED
    BY <2>1, <2>2, Zenon DEF KeyLocks
<1>5. KeyStates'
  <2>0. \A k \in Orders \cup Deposits : filed'[k] \in {"NONE", "FILED"}
    BY <1>f, Zenon DEF LockInv, KeyStates, Keys
  <2>1. ASSUME NEW d \in Clients, Settles(Kind(d)') PROVE filed'[Key(d)'] # "NONE"
    <3>1. d # c
      BY <1>1, <2>1, Zenon DEF Settles
    <3>2. filed[Key(d)] # "NONE" /\ Key(d) \in Keys
      BY <1>2, <2>1, <3>1, AtWork DEF LockInv, KeyStates, Settles, ShapeInv, ShapeOK
    <3> QED
      BY <1>2, <1>f, <3>1, <3>2, Zenon
  <2>2. ASSUME NEW d \in Clients, Past(d)'
        PROVE  filed'[Key(d)'] = IF Settles(Kind(d)') THEN "RESERVED" ELSE "NONE"
    <3>1. d # c
      BY <1>1, <2>2, Zenon
    <3>2. Past(d) /\ Key(d) # Key(c)
      BY <1>2, <1>p, <2>2, <3>1, PastApart, Zenon DEF LockInv
    <3>3. Key(d) \in Keys
      BY <3>2, <1>k, Zenon DEF Past, At
    <3>4. filed[Key(d)] = IF Settles(Kind(d)) THEN "RESERVED" ELSE "NONE"
      BY <3>2, Zenon DEF LockInv, KeyStates
    <3> QED
      BY <1>2, <1>f, <3>1, <3>2, <3>3, <3>4, Zenon
  <2>3. \A d, e \in Clients : Kind(d)' = "freeze" /\ Kind(e)' = "freeze" /\ Key(d)' = Key(e)' => d = e
    BY <1>1, <1>2 DEF LockInv, KeyStates
  <2> QED
    BY <2>0, <2>1, <2>2, <2>3, Zenon DEF KeyStates, Settles
<1>6. RowLocks'
  <2>1. ASSUME NEW d \in Clients, Holding(d)' PROVE rowOwner'[Target(d)'] = d
    <3>1. d # c
      BY <1>1, <2>1, Zenon
    <3> QED
      BY <1>0, <1>2, <1>k, <2>1, <3>1 DEF LockInv, RowLocks, Holding, At
  <2>2. ASSUME NEW d \in Clients, NEW r \in Rows, rowOwner'[r] = d
        PROVE  /\ Holding(d)'
               /\ \/ r = Target(d)'
                  \/ (Kind(d) = "confirm" /\ ~At(d, "source") /\ r = From[Key(d)])'
    <3>1. d # c /\ rowOwner[r] = d
      BY <1>0, <2>2, RowsAssumption, Zenon
    <3> QED
      BY <1>2, <3>1 DEF LockInv, RowLocks, At
  <2> QED
    BY <1>0, <2>1, <2>2, Zenon DEF RowLocks
<1>7. ReadIsCurrent'
  <2>1. ASSUME NEW d \in Clients
        PROVE (/\ client[d].pc \in {"source", "write"} => client[d].val = row[Target(d)]
               /\ client[d].pc \in {"file", "commit"} =>
                    /\ Affordable(Kind(d), Key(d), row[Target(d)])
                    /\ client[d].val = Rewritten(Kind(d), Key(d), row[Target(d)]))'
    <3>1. CASE ~Holding(d)'
      BY <3>1, Zenon DEF Holding
    <3>2. CASE Holding(d)'
      <4>1. d # c
        BY <1>1, <3>2, Zenon
      <4>2. Holding(d) /\ Target(d) # Target(c)
        BY <1>2, <1>p, <3>2, <4>1, HoldingApart, Zenon DEF LockInv
      <4>3. Target(d) \in Rows
        BY <4>2, <1>k, Zenon DEF Holding, At
      <4>4. row'[Target(d)'] = row[Target(d)]
        BY <1>0, <1>2, <4>1, <4>2, <4>3, Zenon DEF ShapeInv, RowsTypeOK
      <4> QED
        BY <1>2, <4>1, <4>4, Zenon DEF LockInv, ReadIsCurrent, Affordable, Rewritten
    <3> QED
      BY <3>1, <3>2, Zenon
  <2> QED
    BY <2>1, Zenon DEF ReadIsCurrent
<1> QED
  BY <1>4, <1>5, <1>6, <1>7, Zenon DEF LockInv

\* What a commit does to the tables: the balance row becomes what the method
\* makes of it, and the order's row goes from the state the method found it in.
LEMMA CommitTables ==
    ASSUME ShapeInv, LockInv, NEW c \in Clients, Commit(c)
    PROVE  /\ Kind(c) \in Kinds /\ Key(c) \in KeysOf(Kind(c)) /\ Target(c) \in Rows
           /\ row[Target(c)] \in BalanceType
           /\ Affordable(Kind(c), Key(c), row[Target(c)])
           /\ row'[Target(c)] = Rewritten(Kind(c), Key(c), row[Target(c)])
           /\ \A r \in Rows : r # Target(c) => row'[r] = row[r]
           /\ filed[Key(c)] = IF Settles(Kind(c)) THEN "RESERVED" ELSE "NONE"
           /\ filed'[Key(c)] = Outcome(Kind(c))
           /\ \A k \in Keys : k # Key(c) => filed'[k] = filed[k]
<1>p. At(c, "commit") /\ ~At(c, "idle") /\ Past(c)
  BY Zenon DEF Commit, At, Past
<1>w. Kind(c) \in Kinds /\ Key(c) \in KeysOf(Kind(c)) /\ Key(c) \in Keys /\ Target(c) \in Rows
  BY <1>p, AtWork, Zenon
<1>v. /\ Affordable(Kind(c), Key(c), row[Target(c)])
      /\ client[c].val = Rewritten(Kind(c), Key(c), row[Target(c)])
      /\ filed[Key(c)] = IF Settles(Kind(c)) THEN "RESERVED" ELSE "NONE"
  BY <1>p, Zenon DEF LockInv, ReadIsCurrent, KeyStates, At
<1> QED
  BY <1>w, <1>v, Zenon DEF Commit, ShapeInv, RowsTypeOK

-----------------------------------------------------------------------------
(* No update is lost. *)

\* Only a commit changes a table.
LEMMA TablesStay ==
    ASSUME [RowsNext]_rowVars, ~\E c \in Clients : Commit(c)
    PROVE  UNCHANGED tables
BY Zenon
   DEF RowsNext, rowVars, Statement, Begin, Look, Insert, GetBalanceTx, GetSourceBalanceTx,
       UpsertBalanceTx, File, DeadlockVictim, Rollback, tables

\* The sets that are summed are finite.
LEMMA FiledFinite ==
    ASSUME NEW st
    PROVE  /\ IsFiniteSet(FiledAs(Orders, st)) /\ IsFiniteSet(FiledAs(Deposits, st))
           /\ IsFiniteSet(FiledAs(Transfers, st)) /\ IsFiniteSet(FiledAs(Sweeps, st))
<1>1. FiledAs(Orders, st) \subseteq Orders /\ FiledAs(Deposits, st) \subseteq Deposits
      /\ FiledAs(Transfers, st) \subseteq Transfers /\ FiledAs(Sweeps, st) \subseteq Sweeps
  BY Zenon DEF FiledAs
<1> QED
  BY <1>1, FS_Subset, RowsAssumption, OrdersAssumption, DepositsAssumption, Zenon

\* A commit changes the account's row and its orders alike.
LEMMA CommitAccount ==
    ASSUME ShapeInv, LockInv, AccountAddsUp, NEW c \in Clients, Commit(c)
    PROVE  AccountAddsUp'
<1> DEFINE k == Key(c)
           F == FiledAs(Orders, "FILED")
           D == FiledAs(Deposits, "FILED")
<1>t. /\ Kind(c) \in Kinds /\ k \in KeysOf(Kind(c)) /\ Target(c) \in Rows
      /\ row[Target(c)] \in BalanceType
      /\ row'[Target(c)] = Rewritten(Kind(c), k, row[Target(c)])
      /\ \A r \in Rows : r # Target(c) => row'[r] = row[r]
      /\ filed[k] = IF Settles(Kind(c)) THEN "RESERVED" ELSE "NONE"
      /\ filed'[k] = Outcome(Kind(c))
      /\ \A x \in Keys : x # k => filed'[x] = filed[x]
  BY CommitTables, Zenon
<1>e. /\ row[Account].frozen = Worth(F, Amount)
      /\ row[Account].available + row[Account].frozen = Opening[Account] + Worth(D, DepositAmount)
      /\ row[Account] \in BalanceType
      /\ Opening[Account] \in Nat
  BY RowsAssumption, Zenon DEF AccountAddsUp, ShapeInv, RowsTypeOK, Rows
<1>n. Worth(F, Amount) \in Nat /\ Worth(D, DepositAmount) \in Nat
  <2>1. (\A x \in F : Amount[x] \in Nat) /\ (\A x \in D : DepositAmount[x] \in Nat)
    BY OrdersAssumption, DepositsAssumption, Zenon DEF FiledAs
  <2> QED
    BY <2>1, FiledFinite, WorthNat, Zenon
<1>1. CASE Kind(c) = "freeze"
  <2>1. k \in Orders /\ k \notin Deposits /\ Target(c) = Account /\ filed[k] = "NONE" /\ filed'[k] = "FILED"
    BY <1>1, <1>t, RowsAssumption, Zenon DEF KeysOf, Target, Settles, Outcome
  <2>2. F' = F \cup {k} /\ k \notin F /\ D' = D
    BY <1>t, <2>1, Zenon DEF FiledAs, Keys
  <2>3. Worth(F', Amount) = Worth(F, Amount) + Amount[k] /\ Amount[k] \in Nat
    <3>1. (\A x \in F \cup {k} : Amount[x] \in Nat) /\ IsFiniteSet(F)
      BY <2>1, OrdersAssumption, FiledFinite, Zenon DEF FiledAs
    <3>2. Worth(F \cup {k}, Amount) = Worth(F, Amount) + Amount[k]
      BY <2>2, <3>1, WorthAdd, Zenon
    <3> QED
      BY <2>2, <3>1, <3>2, Zenon
  <2>4. row'[Account] = Row(row[Account].available - Amount[k], row[Account].frozen + Amount[k],
                            row[Account].locked)
    BY <1>1, <1>t, <2>1, Zenon DEF Rewritten
  <2>5. /\ row'[Account].available = row[Account].available - Amount[k]
        /\ row'[Account].frozen = row[Account].frozen + Amount[k]
    BY <2>4 DEF Row
  <2>6. row[Account].available \in Nat /\ row[Account].frozen \in Nat
    BY <1>e, Zenon DEF BalanceType
  <2>7. /\ row'[Account].frozen = Worth(F', Amount)
        /\ row'[Account].available + row'[Account].frozen = Opening[Account] + Worth(D', DepositAmount)
    <3> HIDE DEF F, D, k
    <3> QED BY <1>e, <1>n, <2>2, <2>3, <2>5, <2>6
  <2> QED
    BY <2>7, Zenon DEF AccountAddsUp
<1>2. CASE Kind(c) = "credit"
  <2>1. k \in Deposits /\ k \notin Orders /\ Target(c) = Account /\ filed[k] = "NONE" /\ filed'[k] = "FILED"
    BY <1>2, <1>t, RowsAssumption, Zenon DEF KeysOf, Target, Settles, Outcome
  <2>2. D' = D \cup {k} /\ k \notin D /\ F' = F
    BY <1>t, <2>1, Zenon DEF FiledAs, Keys
  <2>3. Worth(D', DepositAmount) = Worth(D, DepositAmount) + DepositAmount[k] /\ DepositAmount[k] \in Nat
    <3>1. (\A x \in D \cup {k} : DepositAmount[x] \in Nat) /\ IsFiniteSet(D)
      BY <2>1, DepositsAssumption, FiledFinite, Zenon DEF FiledAs
    <3>2. Worth(D \cup {k}, DepositAmount) = Worth(D, DepositAmount) + DepositAmount[k]
      BY <2>2, <3>1, WorthAdd, Zenon
    <3> QED
      BY <2>2, <3>1, <3>2, Zenon
  <2>4. row'[Account] = Row(row[Account].available + DepositAmount[k], row[Account].frozen,
                            row[Account].locked + DepositAmount[k])
    BY <1>2, <1>t, <2>1, Zenon DEF Rewritten
  <2>5. /\ row'[Account].available = row[Account].available + DepositAmount[k]
        /\ row'[Account].frozen = row[Account].frozen
    BY <2>4 DEF Row
  <2>6. row[Account].available \in Nat /\ row[Account].frozen \in Nat
    BY <1>e, Zenon DEF BalanceType
  <2>7. /\ row'[Account].frozen = Worth(F', Amount)
        /\ row'[Account].available + row'[Account].frozen = Opening[Account] + Worth(D', DepositAmount)
    <3> HIDE DEF F, D, k
    <3> QED BY <1>e, <1>n, <2>2, <2>3, <2>5, <2>6
  <2> QED
    BY <2>7, Zenon DEF AccountAddsUp
<1>3. CASE Kind(c) \notin {"freeze", "credit"}
  <2>1. k \notin Orders \cup Deposits /\ Target(c) # Account
    BY <1>3, <1>t, RowsAssumption DEF Kinds, KeysOf, Target
  <2>2. F' = F /\ D' = D /\ row'[Account] = row[Account]
    BY <1>t, <2>1, Zenon DEF FiledAs, Keys, Rows
  <2>3. /\ row'[Account].frozen = Worth(F', Amount)
        /\ row'[Account].available + row'[Account].frozen = Opening[Account] + Worth(D', DepositAmount)
    BY <1>e, <2>2, Zenon
  <2> QED
    BY <2>3, Zenon DEF AccountAddsUp
<1> QED
  BY <1>1, <1>2, <1>3, Zenon

\* The three sums of a vault.
Out(v) == {t \in Transfers : From[t] = v /\ filed[t] \in {"RESERVED", "DONE"}}
In(v) == {t \in FiledAs(Transfers, "DONE") : To[t] = v}
Swept(v) == {s \in FiledAs(Sweeps, "DONE") : SweptTo[s] = v}

VaultAddsUp(v) ==
    row[v].available + Worth(Out(v), TransferAmount)
      = Opening[v] + Worth(In(v), TransferAmount) + Worth(Swept(v), SweepAmount)

\* A set of transfers has a sum that grows by the transfer it gains.
LEMMA TransfersWorth ==
    ASSUME NEW S, S \subseteq Transfers
    PROVE  /\ Worth(S, TransferAmount) \in Nat
           /\ \A t \in Transfers : TransferAmount[t] \in Nat
           /\ \A t \in Transfers \ S :
                Worth(S \cup {t}, TransferAmount) = Worth(S, TransferAmount) + TransferAmount[t]
           /\ \A t \in S :
                Worth(S \ {t}, TransferAmount) = Worth(S, TransferAmount) - TransferAmount[t]
<1>1. IsFiniteSet(S)
  BY FS_Subset, RowsAssumption, Zenon
<1>2. \A t \in Transfers : TransferAmount[t] \in Nat
  BY RowsAssumption, Zenon
<1>3. Worth(S, TransferAmount) \in Nat
  BY <1>1, <1>2, WorthNat, Zenon
<1>4. ASSUME NEW t \in Transfers \ S
      PROVE  Worth(S \cup {t}, TransferAmount) = Worth(S, TransferAmount) + TransferAmount[t]
  <2>1. \A x \in S \cup {t} : TransferAmount[x] \in Nat
    BY <1>2, Zenon
  <2> QED
    BY <1>1, <2>1, WorthAdd, Zenon
<1>5. ASSUME NEW t \in S
      PROVE  Worth(S \ {t}, TransferAmount) = Worth(S, TransferAmount) - TransferAmount[t]
  <2>1. \A x \in S : TransferAmount[x] \in Nat
    BY <1>2, Zenon
  <2> QED
    BY <1>1, <2>1, WorthRemove, Zenon
<1> QED
  BY <1>2, <1>3, <1>4, <1>5, Zenon

\* The same for sweeps.
LEMMA SweepsWorth ==
    ASSUME NEW S, S \subseteq Sweeps
    PROVE  /\ Worth(S, SweepAmount) \in Nat
           /\ \A t \in Sweeps : SweepAmount[t] \in Nat
           /\ \A t \in Sweeps \ S : Worth(S \cup {t}, SweepAmount) = Worth(S, SweepAmount) + SweepAmount[t]
<1>1. IsFiniteSet(S)
  BY FS_Subset, RowsAssumption, Zenon
<1>2. \A t \in Sweeps : SweepAmount[t] \in Nat
  BY RowsAssumption, Zenon
<1>3. Worth(S, SweepAmount) \in Nat
  BY <1>1, <1>2, WorthNat, Zenon
<1>4. ASSUME NEW t \in Sweeps \ S
      PROVE  Worth(S \cup {t}, SweepAmount) = Worth(S, SweepAmount) + SweepAmount[t]
  <2>1. \A x \in S \cup {t} : SweepAmount[x] \in Nat
    BY <1>2, Zenon
  <2> QED
    BY <1>1, <2>1, WorthAdd, Zenon
<1> QED
  BY <1>2, <1>3, <1>4, Zenon

\* A commit changes each vault's row and its transfers and sweeps alike.
LEMMA CommitVault ==
    ASSUME ShapeInv, LockInv, NEW v \in Vaults, VaultAddsUp(v), NEW c \in Clients, Commit(c)
    PROVE  VaultAddsUp(v)'
<1> DEFINE k == Key(c)
           m == TransferAmount[k]
           b == row[v]
<1>t. /\ Kind(c) \in Kinds /\ k \in KeysOf(Kind(c)) /\ Target(c) \in Rows
      /\ row'[Target(c)] = Rewritten(Kind(c), k, row[Target(c)])
      /\ \A r \in Rows : r # Target(c) => row'[r] = row[r]
      /\ filed[k] = IF Settles(Kind(c)) THEN "RESERVED" ELSE "NONE"
      /\ filed'[k] = Outcome(Kind(c))
      /\ \A x \in Keys : x # k => filed'[x] = filed[x]
  BY CommitTables, Zenon
<1>e. /\ b.available \in Nat /\ b.frozen \in Nat /\ b.locked \in Nat
      /\ Opening[v] \in Nat /\ v \in Rows /\ v # Account
  BY RowsAssumption, Zenon DEF ShapeInv, RowsTypeOK, Rows, BalanceType
<1>s. Out(v) \subseteq Transfers /\ In(v) \subseteq Transfers /\ Swept(v) \subseteq Sweeps
  BY Zenon DEF Out, In, Swept, FiledAs
<1>n. /\ Worth(Out(v), TransferAmount) \in Nat /\ Worth(In(v), TransferAmount) \in Nat
      /\ Worth(Swept(v), SweepAmount) \in Nat
  BY <1>s, TransfersWorth, SweepsWorth, Zenon
<1>0. CASE row'[v] = b /\ Out(v)' = Out(v) /\ In(v)' = In(v) /\ Swept(v)' = Swept(v)
  BY <1>0, Zenon DEF VaultAddsUp
<1>1. CASE Kind(c) \in {"freeze", "credit"}
  <2>1. k \notin Transfers \cup Sweeps /\ Target(c) # v
    BY <1>1, <1>t, <1>e, RowsAssumption, Zenon DEF KeysOf, Target
  <2>2. row'[v] = b /\ Out(v)' = Out(v) /\ In(v)' = In(v) /\ Swept(v)' = Swept(v)
    BY <1>t, <1>e, <2>1, Zenon DEF Out, In, Swept, FiledAs, Keys
  <2> QED
    BY <1>0, <2>2, Zenon
<1>2. CASE Kind(c) = "reserve"
  <2>1. /\ k \in Transfers /\ k \notin Sweeps /\ Target(c) = From[k]
        /\ filed[k] = "NONE" /\ filed'[k] = "RESERVED"
    BY <1>2, <1>t, RowsAssumption, Zenon DEF KeysOf, Target, Settles, Outcome
  <2>2. In(v)' = In(v) /\ Swept(v)' = Swept(v) /\ k \notin Out(v)
    BY <1>t, <2>1, Zenon DEF Out, In, Swept, FiledAs, Keys
  <2>3. CASE From[k] # v
    <3>1. row'[v] = b /\ Out(v)' = Out(v)
      BY <1>t, <1>e, <2>1, <2>3, Zenon DEF Out, Keys
    <3> QED
      BY <1>0, <2>2, <3>1, Zenon
  <2>4. CASE From[k] = v
    <3>1. Out(v)' = Out(v) \cup {k}
      BY <1>t, <2>1, <2>4, Zenon DEF Out, Keys
    <3>2. Worth(Out(v)', TransferAmount) = Worth(Out(v), TransferAmount) + m /\ m \in Nat
      BY <1>s, <2>1, <2>2, <3>1, TransfersWorth, Zenon
    <3>3. row'[v] = Row(b.available - m, b.frozen, b.locked)
      BY <1>2, <1>t, <2>1, <2>4, Zenon DEF Rewritten
    <3>4. row'[v].available = b.available - m
      BY <3>3 DEF Row
    <3> HIDE DEF b, m
    <3> QED
      BY <1>e, <1>n, <2>2, <3>2, <3>4 DEF VaultAddsUp, b
  <2> QED
    BY <2>3, <2>4, Zenon
<1>3. CASE Kind(c) = "confirm"
  <2>1. /\ k \in Transfers /\ k \notin Sweeps /\ Target(c) = To[k]
        /\ filed[k] = "RESERVED" /\ filed'[k] = "DONE"
    BY <1>3, <1>t, RowsAssumption, Zenon DEF KeysOf, Target, Settles, Outcome
  <2>2. Out(v)' = Out(v) /\ Swept(v)' = Swept(v) /\ k \notin In(v)
    BY <1>t, <2>1, Zenon DEF Out, In, Swept, FiledAs, Keys
  <2>3. CASE To[k] # v
    <3>1. row'[v] = b /\ In(v)' = In(v)
      BY <1>t, <1>e, <2>1, <2>3, Zenon DEF In, FiledAs, Keys
    <3> QED
      BY <1>0, <2>2, <3>1, Zenon
  <2>4. CASE To[k] = v
    <3>1. In(v)' = In(v) \cup {k}
      BY <1>t, <2>1, <2>4, Zenon DEF In, FiledAs, Keys
    <3>2. Worth(In(v)', TransferAmount) = Worth(In(v), TransferAmount) + m /\ m \in Nat
      BY <1>s, <2>1, <2>2, <3>1, TransfersWorth, Zenon
    <3>3. row'[v] = Row(b.available + m, b.frozen, b.locked)
      BY <1>3, <1>t, <2>1, <2>4, Zenon DEF Rewritten
    <3>4. row'[v].available = b.available + m
      BY <3>3 DEF Row
    <3> HIDE DEF b, m
    <3> QED
      BY <1>e, <1>n, <2>2, <3>2, <3>4 DEF VaultAddsUp, b
  <2> QED
    BY <2>3, <2>4, Zenon
<1>4. CASE Kind(c) = "fail"
  <2>1. /\ k \in Transfers /\ k \notin Sweeps /\ Target(c) = From[k]
        /\ filed[k] = "RESERVED" /\ filed'[k] = "FAILED"
    BY <1>4, <1>t, RowsAssumption, Zenon DEF KeysOf, Target, Settles, Outcome
  <2>2. In(v)' = In(v) /\ Swept(v)' = Swept(v)
    BY <1>t, <2>1 DEF In, Swept, FiledAs, Keys
  <2>3. CASE From[k] # v
    <3>1. row'[v] = b /\ Out(v)' = Out(v)
      BY <1>t, <1>e, <2>1, <2>3, Zenon DEF Out, Keys
    <3> QED
      BY <1>0, <2>2, <3>1, Zenon
  <2>4. CASE From[k] = v
    <3>1. Out(v)' = Out(v) \ {k} /\ k \in Out(v)
      BY <1>t, <2>1, <2>4, Zenon DEF Out, Keys
    <3>2. Worth(Out(v)', TransferAmount) = Worth(Out(v), TransferAmount) - m /\ m \in Nat
      BY <1>s, <2>1, <3>1, TransfersWorth, Zenon
    <3>3. row'[v] = Row(b.available + m, b.frozen, b.locked)
      BY <1>4, <1>t, <2>1, <2>4, Zenon DEF Rewritten
    <3>4. row'[v].available = b.available + m
      BY <3>3 DEF Row
    <3> HIDE DEF b, m
    <3> QED
      BY <1>e, <1>n, <2>2, <3>2, <3>4 DEF VaultAddsUp, b
  <2> QED
    BY <2>3, <2>4, Zenon
<1>5. CASE Kind(c) = "sweep"
  <2>1. /\ k \in Sweeps /\ k \notin Transfers /\ Target(c) = SweptTo[k]
        /\ filed[k] = "RESERVED" /\ filed'[k] = "DONE"
    BY <1>5, <1>t, RowsAssumption, Zenon DEF KeysOf, Target, Settles, Outcome
  <2>2. Out(v)' = Out(v) /\ In(v)' = In(v) /\ k \notin Swept(v)
    BY <1>t, <2>1, Zenon DEF Out, In, Swept, FiledAs, Keys
  <2>3. CASE SweptTo[k] # v
    <3>1. row'[v] = b /\ Swept(v)' = Swept(v)
      BY <1>t, <1>e, <2>1, <2>3, Zenon DEF Swept, FiledAs, Keys
    <3> QED
      BY <1>0, <2>2, <3>1, Zenon
  <2>4. CASE SweptTo[k] = v
    <3>1. Swept(v)' = Swept(v) \cup {k}
      BY <1>t, <2>1, <2>4, Zenon DEF Swept, FiledAs, Keys
    <3>2. Worth(Swept(v)', SweepAmount) = Worth(Swept(v), SweepAmount) + SweepAmount[k]
          /\ SweepAmount[k] \in Nat
      BY <1>s, <2>1, <2>2, <3>1, SweepsWorth, Zenon
    <3>3. row'[v] = Row(b.available + SweepAmount[k], b.frozen, b.locked)
      BY <1>5, <1>t, <2>1, <2>4, Zenon DEF Rewritten
    <3>4. row'[v].available = b.available + SweepAmount[k]
      BY <3>3 DEF Row
    <3> HIDE DEF b, m
    <3> QED
      BY <1>e, <1>n, <2>2, <3>2, <3>4 DEF VaultAddsUp, b
  <2> QED
    BY <2>3, <2>4, Zenon
<1> QED
  BY <1>t, <1>1, <1>2, <1>3, <1>4, <1>5, Zenon DEF Kinds

-----------------------------------------------------------------------------
(* The theorems. *)

\* The whole inductive invariant.
RowsInv == ShapeInv /\ LockInv /\ AccountAddsUp /\ VaultsAddUp

\* It holds at the start.
LEMMA RowsInvInit ==
    ASSUME RowsInit, Opened = Rows
    PROVE  RowsInv
<1>1. ShapeInv /\ LockInv
  BY ShapeInit, LockInit, Zenon
<1>2. AccountAddsUp
  <2>1. FiledAs(Orders, "FILED") = {} /\ FiledAs(Deposits, "FILED") = {}
    BY Zenon DEF RowsInit, FiledAs, Keys
  <2>2. row[Account].frozen = 0 /\ row[Account].available = Opening[Account] /\ Opening[Account] \in Nat
    BY RowsAssumption, Zenon DEF RowsInit, Rows, Row
  <2> QED
    BY <2>1, <2>2, WorthEmpty, Zenon DEF AccountAddsUp
<1>3. ASSUME NEW v \in Vaults PROVE VaultAddsUp(v)
  <2>1. Out(v) = {} /\ In(v) = {} /\ Swept(v) = {}
    BY RowsAssumption, Zenon DEF RowsInit, Out, In, Swept, FiledAs, Keys
  <2>2. row[v].available = Opening[v] /\ Opening[v] \in Nat
    BY RowsAssumption, Zenon DEF RowsInit, Rows, Row
  <2> QED
    BY <2>1, <2>2, WorthEmpty DEF VaultAddsUp
<1>4. VaultsAddUp
  BY <1>3, Zenon DEF VaultsAddUp, VaultAddsUp, Out, In, Swept
<1> QED
  BY <1>1, <1>2, <1>4, Zenon DEF RowsInv

\* Every statement of every transaction keeps it.
LEMMA RowsInvStep ==
    ASSUME RowsInv, [RowsNext]_rowVars, ~Duplicates
    PROVE  RowsInv'
<1> USE DEF RowsInv
<1>1. ShapeInv'
  BY ShapeStep, Zenon
<1>2. LockInv'
  <2>1. CASE UNCHANGED rowVars
    <3>0. /\ UNCHANGED <<row, exists, rowOwner, filed, keyOwner, client>>
          /\ \A c \in Clients : Target(c)' = Target(c) /\ Kind(c)' = Kind(c) /\ Key(c)' = Key(c)
      BY <2>1, Zenon DEF rowVars, Target, Kind, Key
    <3> USE <3>0 DEF LockInv, Past, Holding, At
    <3>1. KeyLocks'
      BY Zenon DEF KeyLocks
    <3>2. KeyStates'
      BY DEF KeyStates, Settles
    <3>3. RowLocks'
      BY DEF RowLocks
    <3>4. ReadIsCurrent'
      BY Zenon DEF ReadIsCurrent, Affordable, Rewritten
    <3> QED
      BY <3>1, <3>2, <3>3, <3>4, Zenon
  <2>2. ASSUME NEW c \in Clients, DeadlockVictim(c) PROVE LockInv'
    BY <2>2, RollbackLocks, Zenon DEF DeadlockVictim
  <2> QED
    BY <2>1, <2>2, BeginLocks, LookLocks, InsertLocks, GetBalanceLocks, GetSourceLocks, UpsertLocks,
       FileLocks, CommitLocks, Zenon
       DEF RowsNext, Statement
<1>3. AccountAddsUp' /\ VaultsAddUp'
  <2>1. CASE \E c \in Clients : Commit(c)
    <3>1. PICK c \in Clients : Commit(c)
      BY <2>1, Zenon
    <3>2. AccountAddsUp'
      BY <3>1, CommitAccount, Zenon
    <3>3. ASSUME NEW v \in Vaults PROVE VaultAddsUp(v)
      BY Zenon DEF VaultsAddUp, VaultAddsUp, Out, In, Swept
    <3>4. ASSUME NEW v \in Vaults PROVE VaultAddsUp(v)'
      BY <3>1, <3>3, CommitVault, Zenon
    <3>5. VaultsAddUp'
      BY <3>4, Zenon DEF VaultsAddUp, VaultAddsUp, Out, In, Swept
    <3> QED
      BY <3>2, <3>5, Zenon
  <2>2. CASE ~\E c \in Clients : Commit(c)
    <3>1. UNCHANGED tables
      BY <2>2, TablesStay, Zenon
    <3> QED
      BY <3>1, Zenon DEF tables, AccountAddsUp, VaultsAddUp, FiledAs
  <2> QED
    BY <2>1, <2>2, Zenon
<1> QED
  BY <1>1, <1>2, <1>3, Zenon

\* A transaction that others wait for is past its order's row, and past the
\* read of its balance row if it is a balance row that they wait for.
LEMMA CirclesAreTransfers ==
    ASSUME ShapeInv, LockInv, NEW S \in SUBSET Clients, Circle(S), NEW c \in S
    PROVE  At(c, "source") /\ \E d \in S : At(d, "source") /\ From[Key(d)] = To[Key(c)]
<1>1. ASSUME NEW e \in S PROVE At(e, "read") \/ At(e, "source")
  <2>0. e \in Clients
    BY Zenon
  <2>1. PICK d \in S \ {e} : e \in HeldBy(d)
    BY Zenon DEF Circle
  <2>2. PICK f \in S \ {e} : f \in HeldBy(e)
    BY Zenon DEF Circle
  <2>3. d \in Clients /\ ~At(d, "idle")
    BY <2>1, Zenon DEF HeldBy, At
  <2>4. Key(d) \in Keys /\ Target(d) \in Rows /\ Key(d) \in KeysOf(Kind(d))
    BY <2>3, AtWork, Zenon
  <2>5. At(d, "source") => From[Key(d)] \in Rows
    BY <2>3, <2>4, RowsAssumption, Zenon DEF ShapeInv, ShapeOK, KeysOf, Rows
  <2>6. Past(e)
    <3>1. (\E k \in Keys : keyOwner[k] = e) \/ (\E r \in Rows : rowOwner[r] = e)
      BY <2>1, <2>4, <2>5, Zenon DEF HeldBy
    <3> QED
      BY <2>0, <3>1, Zenon DEF LockInv, KeyLocks, RowLocks, Past, Holding
  <2>7. ~At(e, "commit")
    BY <2>2, Zenon DEF HeldBy, At
  <2>8. ~At(e, "write")
    BY <2>0, <2>2, Zenon DEF HeldBy, At, LockInv, RowLocks, Holding
  <2>9. ~At(e, "file")
    <3> SUFFICES ASSUME At(e, "file") PROVE FALSE
      BY Zenon
    <3>1. keyOwner[Key(e)] = f /\ f # e /\ f \in Clients /\ Key(e) \in Keys
      BY <2>0, <2>2, AtWork, Zenon DEF HeldBy, At
    <3>2. Past(f) /\ Key(f) = Key(e)
      BY <3>1, Zenon DEF LockInv, KeyLocks
    <3> QED
      BY <2>0, <2>6, <3>1, <3>2, PastApart, Zenon DEF LockInv
  <2> QED
    BY <2>6, <2>7, <2>8, <2>9, Zenon DEF Past, At
<1>2. PICK d \in S \ {c} : c \in HeldBy(d)
  BY Zenon DEF Circle
<1>3. c \in Clients /\ d \in Clients /\ ~At(d, "idle")
  BY <1>1, Zenon DEF At
<1>4. Target(d) \in Rows /\ (At(d, "source") => From[Key(d)] \in Rows)
  BY <1>3, AtWork, RowsAssumption, Zenon DEF ShapeInv, ShapeOK, KeysOf, Rows
<1>5. \/ At(d, "read") /\ rowOwner[Target(d)] = c
      \/ At(d, "source") /\ rowOwner[From[Key(d)]] = c
  BY <1>1, <1>2, Zenon DEF HeldBy, At
<1>6. Holding(c)
  BY <1>3, <1>4, <1>5, Zenon DEF LockInv, RowLocks
<1>7. At(c, "source")
  BY <1>1, <1>6, Zenon DEF Holding, At
<1>8. ASSUME NEW e \in S PROVE At(e, "source")
  <2>1. PICK x \in S \ {e} : e \in HeldBy(x)
    BY Zenon DEF Circle
  <2>2. e \in Clients /\ x \in Clients /\ ~At(x, "idle")
    BY <1>1, Zenon DEF At
  <2>3. Target(x) \in Rows /\ (At(x, "source") => From[Key(x)] \in Rows)
    BY <2>2, AtWork, RowsAssumption, Zenon DEF ShapeInv, ShapeOK, KeysOf, Rows
  <2>4. \/ At(x, "read") /\ rowOwner[Target(x)] = e
        \/ At(x, "source") /\ rowOwner[From[Key(x)]] = e
    BY <1>1, <2>1, Zenon DEF HeldBy, At
  <2>5. Holding(e)
    BY <2>2, <2>3, <2>4, Zenon DEF LockInv, RowLocks
  <2> QED
    BY <1>1, <2>5, Zenon DEF Holding, At
<1>9. At(d, "source") /\ rowOwner[From[Key(d)]] = c
  BY <1>5, <1>8, Zenon DEF At
<1>10. From[Key(d)] = Target(c)
  BY <1>3, <1>4, <1>7, <1>9, Zenon DEF LockInv, RowLocks
<1>11. Target(c) = To[Key(c)]
  BY <1>3, <1>7, Zenon DEF ShapeInv, ShapeOK, Target
<1> QED
  BY <1>7, <1>9, <1>10, <1>11, Zenon

\* No update of an account's balance row is lost and no order is frozen twice,
\* however the statements of any number of freezes and credits interleave, when
\* the balance row is there and an order is frozen by one caller at a time.
THEOREM AccountsAddUp ==
    ASSUME Opened = Rows, ~Duplicates
    PROVE  RowsSpec => []AccountAddsUp
<1>1. RowsInv => AccountAddsUp
  BY Zenon DEF RowsInv
<1>2. RowsInit => RowsInv
  BY RowsInvInit, Zenon
<1>3. RowsInv /\ [RowsNext]_rowVars => RowsInv'
  BY RowsInvStep, Zenon
<1> QED
  BY <1>1, <1>2, <1>3, PTL DEF RowsSpec

\* The same for the vaults: reservations, confirmations, failures and sweeps
\* that cross leave each vault with what its committed orders add up to.
THEOREM VaultRowsAddUp ==
    ASSUME Opened = Rows, ~Duplicates
    PROVE  RowsSpec => []VaultsAddUp
<1>1. RowsInv => VaultsAddUp
  BY Zenon DEF RowsInv
<1>2. RowsInit => RowsInv
  BY RowsInvInit, Zenon
<1>3. RowsInv /\ [RowsNext]_rowVars => RowsInv'
  BY RowsInvStep, Zenon
<1> QED
  BY <1>1, <1>2, <1>3, PTL DEF RowsSpec

\* Only confirmations of transfers wait for each other in a circle, each for a
\* source that is another's destination.
THEOREM OnlyTransfersDeadlock ==
    ASSUME Opened = Rows, ~Duplicates
    PROVE  RowsSpec => []OnlyOppositeTransfersDeadlock
<1>1. RowsInv => OnlyOppositeTransfersDeadlock
  <2> SUFFICES ASSUME RowsInv, NEW c \in Deadlocked
               PROVE  At(c, "source") /\ \E d \in Deadlocked : At(d, "source") /\ From[Key(d)] = To[Key(c)]
    BY Zenon DEF OnlyOppositeTransfersDeadlock
  <2>1. PICK S \in SUBSET Clients : Circle(S) /\ c \in S
    BY Zenon DEF Deadlocked
  <2>2. S \subseteq Deadlocked
    BY <2>1, Zenon DEF Deadlocked
  <2> QED
    BY <2>1, <2>2, CirclesAreTransfers, Zenon DEF RowsInv
<1>2. RowsInit => RowsInv
  BY RowsInvInit, Zenon
<1>3. RowsInv /\ [RowsNext]_rowVars => RowsInv'
  BY RowsInvStep, Zenon
<1> QED
  BY <1>1, <1>2, <1>3, PTL DEF RowsSpec
=============================================================================
