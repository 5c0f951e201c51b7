---------------------------- MODULE WatchProofs ----------------------------
(***************************************************************************)
(* What is watched and what is owned: the scan of a chain and the registry *)
(* of the addresses that it watches.                                       *)
(*                                                                         *)
(* The scan, by blocks and by signatures: no deposit is left behind, for   *)
(* every number of scanners, endpoints, addresses and faults. The          *)
(* invariants behind it speak of what is owed: the deposits on the chain   *)
(* that are neither seen nor excused. With blocks all of them are above    *)
(* every cursor there is, the stored one and those of the scans under way  *)
(* (BlockInv). With signatures none of them is in the stretches that a     *)
(* cursor has gone past (SigInv).                                          *)
(*                                                                         *)
(* The registry: an address has one owner, and what is registered can be   *)
(* signed for, for any accounts, tenants, chains, callers and seeds. An    *)
(* account's HD index is its row id, which no two share and which never    *)
(* changes once set; every key a caller, a row or a created address holds  *)
(* carries the index of its account; and what was derived was derived from *)
(* the seed that is still in the slot.                                     *)
(***************************************************************************)
EXTENDS ChainScan, AddressRegistry, TLAPS

Cursors == Nat \cup {-1}

Paging == [pc : {"page"}, watched : SUBSET Addresses, cursor : Cursors, page : Nat, empty : Nat,
           passed : Seq(Cursors)]
Saving == [pc : {"save"}, cursor : Cursors]

\* What is on the chain and was promised, but is not recorded yet.
Owed == {d \in Deposits : mined[d] # 0 /\ ~ Excused(d) /\ ~ IsSeen(d)}

\* The addresses a scan must know: registered before it began and among the
\* first WatchLimit.
Due == {a \in Known : a \notin late /\ ~ \E i \in DOMAIN watchList : watchList[i] = a /\ i > WatchLimit}

\* Nothing owed is at or below a cursor.
Clear(c, owed, m) == \A d \in owed : c < m[d]

\* A scan under way.
ScanOK(g, h, due, owed, m) ==
    \/ g = NoScan
    \/ /\ g \in Paging \cup Saving
       /\ g.cursor <= h
       /\ g.pc = "page" => due \subseteq g.watched
       /\ Clear(g.cursor, owed, m)

ChainShape ==
    /\ setup \in Setups
    /\ reader = "block"
    /\ mined \in [Deposits -> Nat]
    /\ head \in Nat
    /\ view \in [Endpoints -> Nat]
    /\ \A e \in Endpoints : view[e] <= head
    /\ watchList \in Seq(Addresses)
    /\ \A d \in Deposits : mined[d] # 0 => Payee(d) \in Known
    /\ start \in Nat

CursorShape ==
    /\ checkpoint \in Cursors
    /\ checkpoint <= head
    /\ Clear(checkpoint, Owed, mined)
    /\ DOMAIN scans = Scanners
    /\ \A s \in Scanners : ScanOK(scans[s], head, Due, Owed, mined)

BlockInv == ChainShape /\ CursorShape

\* A step that reads nothing and moves no block owes nothing new, so every
\* cursor stays clear (Sync, the endpoint manager, failures).
Still ==
    /\ setup' = setup /\ mined' = mined /\ watchList' = watchList /\ late' = late
    /\ head' = head /\ Owed' \subseteq Owed

-----------------------------------------------------------------------------

\* Observe ends or goes on at the old or at the new cursor, with the same
\* watches (paginationGuard and the loop in scanOneAccountGroup).
LEMMA ObserveKeeps ==
    ASSUME NEW g \in Paging, NEW next \in Cursors, NEW count
    PROVE  /\ Observe(g, next, count) \in Paging \cup Saving
           /\ Observe(g, next, count).cursor \in {g.cursor, next}
           /\ Observe(g, next, count).pc = "page" => Observe(g, next, count).watched = g.watched
<1> DEFINE empty == IF count = 0 THEN g.empty + 1 ELSE 0
           more == Paged(g.watched, next, g.page + 1, empty, Append(g.passed, next))
<1>1. empty \in Nat /\ g.page + 1 \in Nat /\ g.watched \in SUBSET Addresses
      /\ Append(g.passed, next) \in Seq(Cursors)
  BY DEF Paging
<1>2. more \in Paging /\ more.cursor = next /\ more.watched = g.watched /\ more.pc = "page"
  <2> HIDE DEF empty
  <2> QED BY <1>1, Zenon DEF Paging, Paged
<1>3. \A c \in Cursors : Stop(c) \in Saving /\ Stop(c).cursor = c /\ Stop(c).pc = "save"
  BY Zenon DEF Stop, Saving
<1>4. g.cursor \in Cursors
  BY Zenon DEF Paging
<1>5. Observe(g, next, count) \in {Stop(g.cursor), Stop(next), more}
  BY Zenon DEF Observe
<1> HIDE DEF more
<1> QED BY <1>2, <1>3, <1>4, <1>5, Zenon

\* A cursor that is clear stays clear when nothing new is owed.
LEMMA StillKeepsScans ==
    ASSUME BlockInv, Still, checkpoint' = checkpoint, start' \in Nat,
           view' \in [Endpoints -> Nat], \A e \in Endpoints : view'[e] <= head,
           DOMAIN scans' = Scanners,
           \A s \in Scanners : scans'[s] \in {scans[s], NoScan}
    PROVE  BlockInv'
<1>1. ChainShape'
  BY Zenon DEF BlockInv, ChainShape, Still, reader, Known, Payee
<1>2. Due' = Due
  BY Zenon DEF Still, Due, Known
<1>3. \A c \in Cursors : Clear(c, Owed, mined) => Clear(c, Owed', mined')
  BY Zenon DEF Still, Clear
<1>4. \A s \in Scanners : ScanOK(scans'[s], head', Due', Owed', mined')
  <2> TAKE s \in Scanners
  <2>1. ScanOK(scans[s], head, Due, Owed, mined)
    BY Zenon DEF BlockInv, CursorShape
  <2>2. scans[s] \in Paging \cup Saving => scans[s].cursor \in Cursors
    BY Zenon DEF Paging, Saving
  <2> QED BY <1>2, <1>3, <2>1, <2>2, Zenon DEF ScanOK, Still
<1> QED BY <1>1, <1>3, <1>4, Zenon DEF BlockInv, CursorShape, Still

\* Seeing more, or being excused more, owes no more.
LEMMA OwedShrinks ==
    ASSUME ChainShape, UNCHANGED <<setup, mined, watchList>>, late \subseteq late', replaced \subseteq replaced',
           blind \subseteq blind', seen \subseteq seen', start' \in Nat, start <= start'
    PROVE  Owed' \subseteq Owed
<1> SUFFICES ASSUME NEW d \in Deposits, mined[d] # 0, Excused(d) \/ IsSeen(d)
             PROVE  Excused(d)' \/ IsSeen(d)'
  BY Zenon DEF Owed
<1>1. CASE IsSeen(d)
  BY <1>1, Zenon DEF IsSeen
<1>2. CASE Excused(d)
  BY <1>2 DEF Excused, ChainShape, Payee, reader
<1> QED BY <1>1, <1>2, Zenon

\* Endpoints that catch up, the endpoint manager, and failures of a read, of
\* the database or of the scanner.
LEMMA QuietSteps ==
    ASSUME BlockInv,
           \/ \E e \in Endpoints : Sync(e) \/ ProbePool(e)
           \/ RefreshPool \/ ElapsePool
           \/ \E s \in Scanners : SaveFails(s) \/ \E e \in Endpoints : ReadFails(s, e) \/ StoreFails(s, e)
    PROVE  BlockInv'
<1>1. /\ UNCHANGED <<setup, mined, watchList, late, replaced, blind, start, head, checkpoint>>
      /\ seen \subseteq seen'
      /\ DOMAIN scans' = Scanners
      /\ \A s \in Scanners : scans'[s] \in {scans[s], NoScan}
      /\ view' = view \/ \E e \in Endpoints : view' = [view EXCEPT ![e] = head]
  <2>1. CASE \E e \in Endpoints : Sync(e)
    BY <2>1, Zenon DEF Sync, histories, BlockInv, CursorShape
  <2>2. CASE \E e \in Endpoints : ProbePool(e)
    BY <2>2, Zenon DEF ProbePool, chainState, histories, BlockInv, CursorShape
  <2>3. CASE RefreshPool
    BY <2>3, Zenon DEF RefreshPool, chainState, BlockInv, CursorShape
  <2>4. CASE ElapsePool
    BY <2>4, Zenon DEF ElapsePool, scanVars, BlockInv, CursorShape
  <2>5. CASE \E s \in Scanners : SaveFails(s)
    BY <2>5, Zenon DEF SaveFails, chainState, histories, BlockInv, CursorShape
  <2>6. CASE \E s \in Scanners, e \in Endpoints : ReadFails(s, e)
    BY <2>6, Zenon DEF ReadFails, chainState, histories, BlockInv, CursorShape
  <2>7. CASE \E s \in Scanners, e \in Endpoints : StoreFails(s, e)
    BY <2>7, Zenon DEF StoreFails, chainState, histories, BlockInv, CursorShape, Recorded
  <2> QED BY <2>1, <2>2, <2>3, <2>4, <2>5, <2>6, <2>7, Zenon
<1>2. start' \in Nat /\ start <= start'
  BY <1>1 DEF BlockInv, ChainShape
<1>3. Owed' \subseteq Owed
  BY <1>1, <1>2, OwedShrinks, Zenon DEF BlockInv
<1>4. Still
  BY <1>1, <1>3, Zenon DEF Still
<1>5. view' \in [Endpoints -> Nat] /\ \A e \in Endpoints : view'[e] <= head
  <2>1. view \in [Endpoints -> Nat] /\ head \in Nat /\ \A e \in Endpoints : view[e] <= head
    BY Zenon DEF BlockInv, ChainShape
  <2>2. CASE view' = view
    BY <2>1, <2>2, Zenon
  <2>3. ASSUME NEW e \in Endpoints, view' = [view EXCEPT ![e] = head]
        PROVE  view' \in [Endpoints -> Nat] /\ \A x \in Endpoints : view'[x] <= head
    <3>1. \A x \in Endpoints : view'[x] = IF x = e THEN head ELSE view[x]
      BY <2>1, <2>3, Zenon
    <3>2. view' \in [Endpoints -> Nat]
      BY <2>1, <2>3, Zenon
    <3> QED BY <2>1, <3>1, <3>2
  <2> QED BY <1>1, <2>2, <2>3, Zenon
<1> QED BY <1>1, <1>2, <1>4, <1>5, StillKeepsScans, Zenon

\* A cursor is stored only over a clear one, and is clear itself: a scanner
\* that finishes late cannot hide a deposit.
LEMMA SaveKeeps ==
    ASSUME BlockInv, NEW s \in Scanners, Save(s)
    PROVE  BlockInv'
<1>1. /\ UNCHANGED <<setup, mined, head, view, watchList, seen, late, replaced, blind, start>>
      /\ scans' = [scans EXCEPT ![s] = NoScan]
      /\ checkpoint' \in {checkpoint, scans[s].cursor}
      /\ scans[s] # NoScan
  BY DEF Save, chainState, histories, Stored, NoScan
<1>2. Owed' = Owed /\ Due' = Due
  BY <1>1, Zenon DEF Owed, Due, Excused, IsSeen, Known, Payee, reader
<1>3. ChainShape'
  BY <1>1, Zenon DEF BlockInv, ChainShape, reader, Known, Payee
<1>4. scans[s].cursor \in Cursors /\ scans[s].cursor <= head /\ Clear(scans[s].cursor, Owed, mined)
  <2>1. ScanOK(scans[s], head, Due, Owed, mined)
    BY Zenon DEF BlockInv, CursorShape
  <2> QED BY <1>1, <2>1, Zenon DEF ScanOK, Paging, Saving
<1>5. checkpoint' \in Cursors /\ checkpoint' <= head' /\ Clear(checkpoint', Owed', mined')
  BY <1>1, <1>2, <1>4, Zenon DEF BlockInv, CursorShape
<1>6. DOMAIN scans' = Scanners /\ \A x \in Scanners : ScanOK(scans'[x], head', Due', Owed', mined')
  <2>1. DOMAIN scans = Scanners /\ \A x \in Scanners : ScanOK(scans[x], head, Due, Owed, mined)
    BY Zenon DEF BlockInv, CursorShape
  <2>2. \A h, due, owed, m : ScanOK(NoScan, h, due, owed, m)
    BY Zenon DEF ScanOK
  <2>3. \A x \in Scanners : scans'[x] = NoScan \/ scans'[x] = scans[x]
    BY <1>1, <2>1, Zenon
  <2>4. DOMAIN scans' = Scanners
    BY <1>1, <2>1, Zenon
  <2> QED BY <1>1, <1>2, <2>1, <2>2, <2>3, <2>4, Zenon
<1> QED BY <1>3, <1>5, <1>6, Zenon DEF BlockInv, CursorShape

\* A scan begins at the stored cursor with all the watches that are due.
LEMMA BeginKeeps ==
    ASSUME BlockInv, NEW s \in Scanners, BeginScan(s)
    PROVE  BlockInv'
<1> DEFINE W == {watchList[i] : i \in {j \in DOMAIN watchList : j <= WatchLimit}}
           g == Paged(W, checkpoint, 1, 0, <<>>)
<1>1. /\ UNCHANGED <<setup, mined, head, view, watchList, seen, late, replaced, blind, start, checkpoint>>
      /\ scans' = [scans EXCEPT ![s] = g]
  BY Zenon DEF BeginScan, chainState, histories
<1>2. Owed' = Owed /\ Due' = Due
  BY <1>1, Zenon DEF Owed, Due, Excused, IsSeen, Known, Payee, reader
<1>3. ChainShape'
  BY <1>1, Zenon DEF BlockInv, ChainShape, reader, Known, Payee
<1>4. W \in SUBSET Addresses
  BY DEF BlockInv, ChainShape
<1>5. Due \subseteq W
  <2> SUFFICES ASSUME NEW a \in Due PROVE a \in W
    BY Zenon
  <2>1. PICK i \in DOMAIN watchList : watchList[i] = a
    BY Zenon DEF Due, Known
  <2>2. i \in Nat /\ WatchLimit \in Nat
    BY ScanAssumption DEF BlockInv, ChainShape
  <2>3. i <= WatchLimit
    BY <2>1, <2>2 DEF Due
  <2> QED BY <2>1, <2>3, Zenon
<1>6. ScanOK(g, head, Due, Owed, mined)
  <2>1. g \in Paging
    <3>1. checkpoint \in Cursors /\ <<>> \in Seq(Cursors)
      BY DEF BlockInv, CursorShape
    <3> HIDE DEF W
    <3> QED BY <1>4, <3>1, Zenon DEF Paging, Paged
  <2>2. g.cursor = checkpoint /\ g.watched = W
    BY Zenon DEF Paged
  <2> HIDE DEF g, W
  <2> QED BY <1>5, <2>1, <2>2, Zenon DEF ScanOK, BlockInv, CursorShape
<1> HIDE DEF g
<1>7. DOMAIN scans' = Scanners /\ \A x \in Scanners : ScanOK(scans'[x], head', Due', Owed', mined')
  <2>1. DOMAIN scans = Scanners /\ \A x \in Scanners : ScanOK(scans[x], head, Due, Owed, mined)
    BY Zenon DEF BlockInv, CursorShape
  <2>2. \A x \in Scanners : scans'[x] = g \/ scans'[x] = scans[x]
    BY <1>1, <2>1, Zenon
  <2>3. DOMAIN scans' = Scanners
    BY <1>1, <2>1, Zenon
  <2> QED BY <1>1, <1>2, <1>6, <2>1, <2>2, <2>3, Zenon
<1> QED BY <1>1, <1>2, <1>3, <1>7, Zenon DEF BlockInv, CursorShape

\* The chain and the registry move while every scan stays where it is.  What
\* is owed anew must be above all cursors, and a scan under way must not miss
\* a watch that is due.
LEMMA ChainMoves ==
    ASSUME BlockInv, ChainShape', UNCHANGED <<checkpoint, scans>>, head <= head',
           \A s \in Scanners : scans[s] # NoScan => Due' \subseteq Due,
           \A d \in Owed' :
              \/ d \in Owed /\ mined'[d] = mined[d]
              \/ /\ checkpoint < mined'[d]
                 /\ \A s \in Scanners : scans[s] # NoScan => scans[s].cursor < mined'[d]
    PROVE  BlockInv'
<1>1. head \in Nat /\ head' \in Nat
  BY Zenon DEF BlockInv, ChainShape
<1>2. checkpoint' \in Cursors /\ checkpoint' <= head' /\ Clear(checkpoint', Owed', mined')
  BY <1>1 DEF BlockInv, CursorShape, Clear, Cursors
<1>3. \A s \in Scanners : ScanOK(scans'[s], head', Due', Owed', mined')
  <2> TAKE s \in Scanners
  <2>1. ScanOK(scans[s], head, Due, Owed, mined)
    BY Zenon DEF BlockInv, CursorShape
  <2>2. CASE scans[s] = NoScan
    BY <2>2, Zenon DEF ScanOK
  <2>3. CASE scans[s] # NoScan
    <3>1. scans[s] \in Paging \cup Saving /\ scans[s].cursor <= head
          /\ (scans[s].pc = "page" => Due \subseteq scans[s].watched) /\ Clear(scans[s].cursor, Owed, mined)
      BY <2>1, <2>3, Zenon DEF ScanOK
    <3>2. scans[s].cursor \in Cursors
      BY <3>1, Zenon DEF Paging, Saving
    <3>3. scans[s].cursor <= head'
      BY <1>1, <3>1, <3>2 DEF Cursors
    <3>4. Clear(scans[s].cursor, Owed', mined')
      BY <2>3, <3>1, Zenon DEF Clear
    <3>5. Due' \subseteq Due
      BY <2>3, Zenon
    <3> QED BY <3>1, <3>3, <3>4, <3>5, Zenon DEF ScanOK
  <2> QED BY <2>2, <2>3, Zenon
<1> QED BY <1>2, <1>3, Zenon DEF BlockInv, CursorShape

\* A scan under way has a cursor on the chain.
LEMMA CursorsOnChain ==
    ASSUME BlockInv
    PROVE  /\ checkpoint \in Cursors /\ checkpoint <= head
           /\ \A s \in Scanners : scans[s] # NoScan => scans[s].cursor \in Cursors /\ scans[s].cursor <= head
BY Zenon DEF BlockInv, CursorShape, ScanOK, Paging, Saving

\* A new block is above every cursor.
LEMMA MineKeeps ==
    ASSUME BlockInv, Mine
    PROVE  BlockInv'
<1>1. /\ UNCHANGED <<setup, view, watchList, checkpoint, scans, seen, late, replaced, blind, start>>
      /\ head' = head + 1
      /\ mined' = mined \/ \E d \in Deposits : Payee(d) \in Known /\ mined' = [mined EXCEPT ![d] = head + 1]
  BY Zenon DEF Mine, histories
<1>2. head \in Nat /\ mined \in [Deposits -> Nat]
  BY Zenon DEF BlockInv, ChainShape
<1>3. /\ mined' \in [Deposits -> Nat]
      /\ \A d \in Deposits : mined'[d] = mined[d] \/ (mined'[d] = head + 1 /\ Payee(d) \in Known)
  BY <1>1, <1>2
<1>4. ChainShape'
  <2>1. \A e \in Endpoints : view'[e] <= head'
    BY <1>1, <1>2 DEF BlockInv, ChainShape
  <2>2. \A d \in Deposits : Payee(d)' = Payee(d) /\ Known' = Known
    BY <1>1, Zenon DEF Payee, reader, Known
  <2>3. \A d \in Deposits : mined'[d] # 0 => Payee(d)' \in Known'
    BY <1>3, <2>2, Zenon DEF BlockInv, ChainShape
  <2> QED BY <1>1, <1>2, <1>3, <2>1, <2>3 DEF BlockInv, ChainShape, reader
<1>5. Due' = Due
  BY <1>1, Zenon DEF Due, Known
<1>6. \A d \in Owed' : (d \in Owed /\ mined'[d] = mined[d]) \/ mined'[d] = head + 1
  BY <1>1, <1>3, Zenon DEF Owed, Excused, IsSeen, Payee, reader
<1>7. \A c \in Cursors : c <= head => c < head + 1
  BY <1>2 DEF Cursors
<1> QED BY <1>1, <1>2, <1>4, <1>5, <1>6, <1>7, CursorsOnChain, ChainMoves

\* A block that is replaced is above every cursor, or its height is excused.
LEMMA ReorgKeeps ==
    ASSUME BlockInv, Reorg
    PROVE  BlockInv'
<1>1. /\ UNCHANGED <<setup, head, view, watchList, checkpoint, scans, seen, late, blind, start>>
      /\ replaced' = IF HasRead(head) THEN replaced \cup {head} ELSE replaced
      /\ \E S \in SUBSET {x \in Deposits : mined[x] = 0 /\ Payee(x) \in Known} :
           mined' = [d \in Deposits |-> IF d \in S THEN head ELSE IF mined[d] = head THEN 0 ELSE mined[d]]
  BY Zenon DEF Reorg
<1>2. head \in Nat /\ mined \in [Deposits -> Nat]
  BY Zenon DEF BlockInv, ChainShape
<1>3. /\ mined' \in [Deposits -> Nat]
      /\ \A d \in Deposits : mined'[d] \in {mined[d], 0} \/ (mined'[d] = head /\ Payee(d) \in Known)
  BY <1>1, <1>2
<1>4. ChainShape'
  <2>1. \A d \in Deposits : Payee(d)' = Payee(d) /\ Known' = Known
    BY <1>1, Zenon DEF Payee, reader, Known
  <2>2. \A d \in Deposits : mined'[d] # 0 => Payee(d)' \in Known'
    BY <1>3, <2>1, Zenon DEF BlockInv, ChainShape
  <2> QED BY <1>1, <1>3, <2>2, Zenon DEF BlockInv, ChainShape, reader
<1>5. Due' = Due
  BY <1>1, Zenon DEF Due, Known
<1>6. \A d \in Owed' : (d \in Owed /\ mined'[d] = mined[d]) \/ (mined'[d] = head /\ ~ HasRead(head))
  <2> TAKE d \in Owed'
  <2>1. d \in Deposits /\ mined'[d] # 0 /\ ~ Excused(d)' /\ ~ IsSeen(d)'
    BY Zenon DEF Owed
  <2>2. IsSeen(d)' = IsSeen(d)
    BY <1>1, Zenon DEF IsSeen
  <2>3. mined'[d] \notin replaced'
    BY <2>1, Zenon DEF Excused
  <2>4. CASE mined'[d] = mined[d]
    <3>1. Excused(d) => Excused(d)'
      BY <1>1, <2>4, Zenon DEF Excused, Payee, reader
    <3> QED BY <2>1, <2>2, <2>4, <3>1, Zenon DEF Owed
  <2>5. CASE mined'[d] = head
    BY <1>1, <2>3, <2>5, Zenon
  <2> QED BY <1>3, <2>1, <2>4, <2>5, Zenon
<1>7. ~ HasRead(head) => checkpoint < head /\ \A s \in Scanners : scans[s] # NoScan => scans[s].cursor < head
  BY <1>2, CursorsOnChain DEF HasRead, Cursors
<1>8. head <= head'
  BY <1>1, <1>2
<1> QED BY <1>1, <1>4, <1>5, <1>6, <1>7, <1>8, ChainMoves, Zenon

\* An address registered under a scan is excused; nobody has paid it yet.
LEMMA AddWatchKeeps ==
    ASSUME BlockInv, NEW a \in Addresses, AddWatch(a)
    PROVE  BlockInv'
<1>1. /\ UNCHANGED <<setup, mined, head, view, checkpoint, scans, seen, replaced, blind, start>>
      /\ watchList' = Append(watchList, a)
      /\ late' = IF \A s \in Scanners : scans[s] = NoScan THEN late ELSE late \cup {a}
  BY Zenon DEF AddWatch
<1>2. watchList \in Seq(Addresses) /\ watchList' \in Seq(Addresses)
  BY <1>1 DEF BlockInv, ChainShape
<1>3. /\ DOMAIN watchList = 1 .. Len(watchList) /\ DOMAIN watchList' = 1 .. (Len(watchList) + 1) /\ Len(watchList) \in Nat
      /\ \A i \in DOMAIN watchList : watchList'[i] = watchList[i]
      /\ watchList'[Len(watchList) + 1] = a
  BY <1>1, <1>2
<1>4. Known' = Known \cup {a}
  BY <1>3 DEF Known
<1>5. ChainShape'
  BY <1>1, <1>2, <1>4, Zenon DEF BlockInv, ChainShape, reader, Payee
<1>6. \A s \in Scanners : scans[s] # NoScan => Due' \subseteq Due
  BY <1>1, <1>3, <1>4 DEF Due
<1>7. \A d \in Owed' : d \in Owed /\ mined'[d] = mined[d]
  <2> SUFFICES ASSUME NEW d \in Deposits, Excused(d) PROVE Excused(d)'
    BY <1>1, Zenon DEF Owed, IsSeen
  <2> QED BY <1>1, <1>3 DEF Excused, Payee, reader
<1>8. head <= head'
  BY <1>1 DEF BlockInv, ChainShape
<1> QED BY <1>1, <1>5, <1>6, <1>7, <1>8, ChainMoves, Zenon

\* A page leaves no gap: up to its last block, a transfer is on the page, at or
\* below the cursor, or before the place where a scan without a cursor starts
\* (resolveFromBlock, ListIncomingTransfers).
LEMMA PageLeavesNoGap ==
    ASSUME ChainShape, NEW c \in Cursors, NEW latest \in Nat
    PROVE  /\ BlockPage(c, latest).next \in Nat
           /\ BlockPage(c, latest).next <= latest
           /\ ResolveFromBlock(-1, latest) \in Nat
           /\ BlockPage(c, latest).items \subseteq Deposits
           /\ \A d \in Deposits : mined[d] # 0 /\ mined[d] <= BlockPage(c, latest).next =>
                 \/ mined[d] <= c
                 \/ c = -1 /\ mined[d] < ResolveFromBlock(-1, latest)
                 \/ d \in BlockPage(c, latest).items
<1> DEFINE from == ResolveFromBlock(c, latest)
           to == Smaller(from + setup.pageSize - 1, latest)
<1>1. CursorLookback \in Nat \ {0} /\ setup.pageSize \in Nat \ {0} /\ mined \in [Deposits -> Nat]
  BY ScanAssumption, Zenon DEF ChainShape
<1>2. /\ from \in Nat
      /\ c # -1 => from = c + 1
      /\ c = -1 => from = ResolveFromBlock(-1, latest) /\ from <= latest
      /\ ResolveFromBlock(-1, latest) \in Nat
  BY <1>1 DEF ResolveFromBlock, Cursors
<1>3. to \in Nat /\ to <= latest
  <2> HIDE DEF from
  <2> QED BY <1>1, <1>2 DEF Smaller
<1>4. BlockPage(c, latest) = IF from > latest THEN [items |-> {}, next |-> latest]
                             ELSE [items |-> Between(from, to), next |-> to]
  BY Zenon DEF BlockPage
<1> HIDE DEF from, to
<1>5. CASE from > latest
  BY <1>1, <1>2, <1>4, <1>5 DEF Cursors
<1>6. CASE ~ (from > latest)
  <2>1. BlockPage(c, latest).items = Between(from, to) /\ BlockPage(c, latest).next = to
    BY <1>4, <1>6
  <2>2. Between(from, to) \subseteq Deposits
    BY Zenon DEF Between
  <2>3. ASSUME NEW d \in Deposits, mined[d] # 0, mined[d] <= to
        PROVE  \/ mined[d] <= c
               \/ c = -1 /\ mined[d] < ResolveFromBlock(-1, latest)
               \/ d \in Between(from, to)
    <3>1. CASE from <= mined[d]
      BY <2>3, <3>1, Zenon DEF Between
    <3>2. CASE mined[d] < from
      BY <1>1, <1>2, <3>2 DEF Cursors
    <3> QED BY <1>1, <1>2, <3>1, <3>2
  <2> QED BY <1>2, <1>3, <2>1, <2>2, <2>3, Zenon
<1> QED BY <1>2, <1>5, <1>6, Zenon

\* Reading a page and recording its transfers leaves the next cursor clear:
\* what the endpoint showed is recorded or belongs to no address that is due,
\* and what it left out is excused.
LEMMA ReadKeeps ==
    ASSUME BlockInv, NEW s \in Scanners, NEW e \in Endpoints, ReadPage(s, e)
    PROVE  BlockInv'
<1> DEFINE g == scans[s]
           page == BlockPage(g.cursor, view[e])
           from == ResolveFromBlock(-1, view[e])
<1>1. PICK left \in SUBSET page.items :
        /\ UNCHANGED <<setup, mined, head, view, watchList, checkpoint, late, replaced>>
        /\ blind \cup left \subseteq blind'
        /\ seen' = Recorded(page.items \ left, page.items, g.watched)
        /\ scans' = [scans EXCEPT ![s] = Observe(g, page.next, Cardinality(page.items \ left))]
        /\ start' = IF g.cursor = -1 /\ from > start THEN from ELSE start
        /\ g.pc = "page"
  <2>1. reader = "block"
    BY Zenon DEF BlockInv, ChainShape
  <2>2. Page(g.cursor, view[e]) = page /\ NoCursor(reader) = -1
    BY <2>1, Zenon DEF Page, NoCursor
  <2> HIDE DEF page
  <2>3. PICK left \in {{}} \cup {{d} : d \in page.items} :
          /\ blind \cup left \subseteq blind'
          /\ seen' = Recorded(page.items \ left, page.items, g.watched)
          /\ scans' = [scans EXCEPT ![s] = Observe(g, page.next, Cardinality(page.items \ left))]
    BY <2>2, Zenon DEF ReadPage
  <2>4. left \in SUBSET page.items
    BY Zenon
  <2>5. /\ UNCHANGED <<setup, mined, head, view, watchList, checkpoint, late, replaced>>
        /\ start' = IF g.cursor = -1 /\ from > start THEN from ELSE start
        /\ g.pc = "page"
    BY <2>1, <2>2, Zenon DEF ReadPage, chainState, histories
  <2> HIDE DEF g, from
  <2> QED BY <2>3, <2>4, <2>5, Zenon
<1> DEFINE count == Cardinality(page.items \ left)
<1>2. g \in Paging /\ g.cursor \in Cursors /\ g.cursor <= head /\ Due \subseteq g.watched /\ Clear(g.cursor, Owed, mined)
  <2>1. ScanOK(g, head, Due, Owed, mined)
    BY Zenon DEF BlockInv, CursorShape
  <2>2. g # NoScan /\ g \notin Saving
    BY <1>1 DEF NoScan, Saving
  <2>3. g \in Paging
    BY <2>1, <2>2, Zenon DEF ScanOK
  <2>4. g.cursor \in Cursors
    BY <2>3, Zenon DEF Paging
  <2> QED BY <1>1, <2>1, <2>2, <2>3, <2>4, Zenon DEF ScanOK
<1>3. view[e] \in Nat /\ view[e] <= head /\ head \in Nat /\ start \in Nat /\ mined \in [Deposits -> Nat]
  BY Zenon DEF BlockInv, ChainShape
<1>4. /\ page.next \in Nat /\ page.next <= view[e] /\ from \in Nat /\ page.items \subseteq Deposits
      /\ \A d \in Deposits : mined[d] # 0 /\ mined[d] <= page.next =>
            mined[d] <= g.cursor \/ (g.cursor = -1 /\ mined[d] < from) \/ d \in page.items
  BY <1>2, <1>3, PageLeavesNoGap, Zenon DEF BlockInv
<1>5. page.next \in Cursors /\ page.next <= head
  BY <1>3, <1>4 DEF Cursors
<1> HIDE DEF g, page, from, count
<1>6. start' \in Nat /\ start <= start' /\ (g.cursor = -1 => from <= start')
  BY <1>1, <1>3, <1>4
<1>7. seen \subseteq seen'
  BY <1>1, Zenon DEF Recorded
<1>8. Owed' \subseteq Owed
  BY <1>1, <1>6, <1>7, OwedShrinks, Zenon DEF BlockInv
<1>9. Due' = Due
  BY <1>1, Zenon DEF Due, Known
<1>10. Clear(page.next, Owed', mined')
  <2>0. mined' = mined /\ page.next \in Cursors /\ \A d \in Owed' : mined[d] \in Nat
    BY <1>1, <1>3, <1>4, <1>5, <1>8, Zenon DEF Owed
  <2> SUFFICES ASSUME NEW d \in Owed', mined[d] <= page.next PROVE FALSE
    BY <2>0 DEF Clear, Cursors
  <2>1. d \in Owed /\ d \in Deposits /\ mined[d] # 0 /\ ~ Excused(d)' /\ ~ IsSeen(d)'
    BY <1>1, <1>8, Zenon DEF Owed
  <2>2. ~ (mined[d] <= g.cursor)
    BY <1>2, <1>3, <2>1 DEF Clear, Cursors
  <2>3. ~ (g.cursor = -1 /\ mined[d] < from)
    <3>1. ~ (mined[d] < start')
      BY <1>1, <2>1, Zenon DEF Excused, BlockInv, ChainShape, reader
    <3> QED BY <1>3, <1>4, <1>6, <2>1, <3>1
  <2>4. d \in page.items
    BY <1>4, <2>1, <2>2, <2>3, Zenon
  <2>5. d \notin left
    BY <1>1, <2>1, Zenon DEF Excused
  <2>6. Payee(d) \in Due
    <3>1. Payee(d)' = Payee(d) /\ watchList' = watchList /\ late' = late
      BY <1>1, Zenon DEF Payee, reader
    <3>2. Payee(d) \in Known
      BY <2>1, Zenon DEF BlockInv, ChainShape
    <3> QED BY <2>1, <3>1, <3>2, Zenon DEF Due, Excused
  <2>7. Event(d, page.items) \in seen'
    BY <1>1, <1>2, <2>4, <2>5, <2>6, Zenon DEF Recorded
  <2>8. IsSeen(d)'
    BY <2>7, Zenon DEF IsSeen, Event
  <2> QED BY <2>1, <2>8, Zenon
<1>11. Clear(g.cursor, Owed', mined')
  BY <1>1, <1>2, <1>8, Zenon DEF Clear
<1>12. ScanOK(Observe(g, page.next, count), head', Due', Owed', mined')
  BY <1>1, <1>2, <1>5, <1>9, <1>10, <1>11, ObserveKeeps, Zenon DEF ScanOK
<1>13. ChainShape'
  BY <1>1, <1>6, Zenon DEF BlockInv, ChainShape, reader, Known, Payee
<1>14. checkpoint' \in Cursors /\ checkpoint' <= head' /\ Clear(checkpoint', Owed', mined')
  BY <1>1, <1>8, Zenon DEF BlockInv, CursorShape, Clear
<1>15. DOMAIN scans' = Scanners /\ \A x \in Scanners : ScanOK(scans'[x], head', Due', Owed', mined')
  <2>1. DOMAIN scans = Scanners /\ \A x \in Scanners : ScanOK(scans[x], head, Due, Owed, mined)
    BY Zenon DEF BlockInv, CursorShape
  <2>2. \A x \in Scanners : x # s => ScanOK(scans[x], head', Due', Owed', mined')
    BY <1>1, <1>8, <1>9, <2>1, Zenon DEF ScanOK, Clear
  <2>3. DOMAIN scans' = Scanners /\ \A x \in Scanners : scans'[x] = IF x = s THEN Observe(g, page.next, count) ELSE scans[x]
    BY <1>1, <2>1, Zenon DEF count
  <2> QED BY <1>12, <2>2, <2>3, Zenon
<1> QED BY <1>13, <1>14, <1>15, Zenon DEF BlockInv, CursorShape

\* The state a deployment on a chain of blocks starts from.
LEMMA BlockInvInit ==
    ASSUME ScanInit, reader = "block"
    PROVE  BlockInv
<1>1. mined = [d \in Deposits |-> 0] /\ head = 0 /\ view = [e \in Endpoints |-> 0] /\ start = 0
      /\ watchList = <<FirstWatch>> /\ scans = [s \in Scanners |-> NoScan] /\ checkpoint = -1 /\ setup \in Setups
  BY Zenon DEF ScanInit, NoCursor
<1>2. watchList \in Seq(Addresses)
  BY <1>1, ScanAssumption
<1>3. ChainShape
  BY <1>1, <1>2 DEF ChainShape
<1>4. Owed = {}
  BY <1>1, Zenon DEF Owed
<1> QED BY <1>1, <1>3, <1>4 DEF BlockInv, CursorShape, Clear, ScanOK, Cursors

\* Every step keeps the invariant.
LEMMA BlockInvStep ==
    ASSUME BlockInv, [ScanNext]_vars
    PROVE  BlockInv'
<1>1. CASE Mine
  BY <1>1, MineKeeps, Zenon
<1>2. CASE Reorg
  BY <1>2, ReorgKeeps, Zenon
<1>3. CASE \E a \in Addresses : AddWatch(a)
  BY <1>3, AddWatchKeeps, Zenon
<1>4. CASE \E s \in Scanners : BeginScan(s)
  BY <1>4, BeginKeeps, Zenon
<1>5. CASE \E s \in Scanners : Save(s)
  BY <1>5, SaveKeeps, Zenon
<1>6. CASE \E s \in Scanners, e \in Endpoints : ReadPage(s, e)
  BY <1>6, ReadKeeps, Zenon
<1>7. CASE \/ \E e \in Endpoints : Sync(e) \/ ProbePool(e)
           \/ RefreshPool \/ ElapsePool
           \/ \E s \in Scanners : SaveFails(s) \/ \E e \in Endpoints : ReadFails(s, e) \/ StoreFails(s, e)
  BY <1>7, QuietSteps, Zenon
<1>8. CASE UNCHANGED vars
  <2>1. UNCHANGED <<setup, mined, head, view, watchList, checkpoint, scans, seen, late, replaced, blind, start>>
    BY <1>8, Zenon DEF vars, scanVars
  <2>2. Owed' = Owed /\ Due' = Due
    BY <2>1, ZenonT(60) DEF Owed, Due, Excused, IsSeen, Known, Payee, reader
  <2> QED BY <2>1, <2>2, Zenon DEF BlockInv, ChainShape, CursorShape, reader, Known, Payee
<1> QED BY <1>1, <1>2, <1>3, <1>4, <1>5, <1>6, <1>7, <1>8, Zenon DEF ScanNext

\* The deployment does not change, so a chain of blocks stays one.
LEMMA ReaderStays ==
    ASSUME [ScanNext]_vars
    PROVE  setup' = setup
BY ZenonT(60)
   DEF ScanNext, vars, scanVars, chainState, Mine, Reorg, Sync, ProbePool, AddWatch, RefreshPool,
       ElapsePool, BeginScan, Save, SaveFails, ReadPage, ReadFails, StoreFails

\* Whatever the scanners, endpoints and faults, nothing that is owed is at or
\* below a cursor of a scan by blocks.
THEOREM CursorsStayClear == ScanSpec => [](reader = "block" => BlockInv)
<1> DEFINE Inv == reader = "block" => BlockInv
<1>1. ScanInit => Inv
  BY BlockInvInit, Zenon
<1>2. Inv /\ [ScanNext]_vars => Inv'
  BY BlockInvStep, ReaderStays, Zenon DEF reader
<1> QED BY <1>1, <1>2, PTL DEF ScanSpec

\* PassedIsSeen for a chain scanned by blocks (scanOneAccountGroup over the EVM
\* reader): a deposit the stored cursor has passed was recorded.
THEOREM NoDepositLeftBehind == ScanSpec => [](reader = "block" => PassedIsSeen)
<1>1. (reader = "block" => BlockInv) => (reader = "block" => PassedIsSeen)
  <2> SUFFICES ASSUME reader = "block", BlockInv, NEW d \in Deposits, mined[d] # 0, Passed(mined[d]), ~ Excused(d)
               PROVE  IsSeen(d)
    BY Zenon DEF PassedIsSeen
  <2>1. mined[d] <= checkpoint /\ mined[d] \in Nat /\ checkpoint \in Cursors
    BY Zenon DEF Passed, BlockInv, ChainShape, CursorShape
  <2>2. ~ IsSeen(d) => checkpoint < mined[d]
    BY Zenon DEF Owed, BlockInv, CursorShape, Clear
  <2> QED BY <2>1, <2>2 DEF Cursors
<1> QED BY <1>1, CursorsStayClear, PTL

-----------------------------------------------------------------------------
\* x holds the public key and the address of its account's index.
Owned(acc, x) ==
    /\ x.pub \in PublicKeys
    /\ x.addr = ConvertAddress(x.pub, x.place)
    /\ x.pub[3] = acc[x.account].index
    /\ acc[x.account].index # NoIndex

\* x's public key comes from the seed in the slot.
Signable(slots, turned, x) ==
    LET t == TenantOf[x.account] IN
    t \notin turned => slots[t] # NoSeed /\ x.pub = Derived(slots[t], x.key)

AccountRows == [id : Nat, index : Nat, status : {"NONE", "ACTIVE", "DISABLED"}]

\* Ids are drawn from the sequence and the index is the id.
Indices ==
    /\ accounts \in [Accounts -> AccountRows]
    /\ nextId \in Nat \ {0}
    /\ \A a \in Accounts : accounts[a].id < nextId
    /\ \A a \in Accounts : accounts[a].index # NoIndex => accounts[a].index = accounts[a].id
    /\ \A a, b \in Accounts : accounts[a].id = accounts[b].id /\ accounts[a].id # NoIndex => a = b

Slots ==
    /\ seeds \in [Tenants -> Seeds \cup {NoSeed}]
    /\ unused \subseteq Seeds

Rows == [account : Accounts, place : Places, coin : Coins, key : KeyIds,
         pub : PublicKeys, addr : PublicKeys \X {Format[p] : p \in Places}]

Registered ==
    /\ rows \subseteq Rows
    /\ \A r \in rows : Owned(accounts, r) /\ Signable(seeds, rotated, r)
    /\ \A r \in rows : <<TenantOf[r.account], r.key>> \in tenantKeys

KeyedHands ==
    [pc : {"derive", "provision", "bind", "update", "insert"}, account : Accounts, place : Places,
     coin : Coins, key : KeyIds, existing : BOOLEAN,
     pub : PublicKeys \cup {NoSeed}, addr : (PublicKeys \X {Format[p] : p \in Places}) \cup {NoSeed}]

\* The key of a new address carries its account's index, the address a
\* caller holds is its account's, and it is bound before it is stored.
HandOK(acc, slots, turned, keys, h) ==
    \/ h = NoHand
    \/ h \in [pc : {"index"}, account : Accounts]
    \/ h \in [pc : {"look", "allocate"}, account : Accounts, place : Places, coin : Coins]
    \/ /\ h \in KeyedHands
       /\ ~ h.existing => h.key[2] = acc[h.account].index /\ acc[h.account].index # NoIndex
       /\ h.existing \/ h.pc \in {"bind", "update", "insert"} =>
            Owned(acc, h) /\ Signable(slots, turned, h)
       /\ h.pc \in {"update", "insert"} => <<TenantOf[h.account], h.key>> \in keys

Hands ==
    /\ DOMAIN hands = Callers
    /\ hands = [c \in Callers |-> hands[c]]
    /\ \A c \in Callers : HandOK(accounts, seeds, rotated, tenantKeys, hands[c])

Created ==
    \A g \in given : g.account \in Accounts /\ g.addr[1][3] = accounts[g.account].index
                     /\ accounts[g.account].index # NoIndex

RegistryInv == Indices /\ Slots /\ Registered /\ Hands /\ Created

-----------------------------------------------------------------------------
\* What a step may do to the tables without disturbing what others hold: an
\* index that is set stays, a seed that is not rotated stays, keys stay bound.
Keeps ==
    /\ \A a \in Accounts : accounts[a].index # NoIndex => accounts'[a].index = accounts[a].index
    /\ \A t \in Tenants : t \notin rotated' =>
         t \notin rotated /\ (seeds[t] # NoSeed => seeds'[t] = seeds[t])
    /\ tenantKeys \subseteq tenantKeys'

\* buildHDKeyID puts the account's index into the key, and deriving keeps it.
LEMMA DerivedKeepsIndex ==
    ASSUME NEW s \in Seeds, NEW k \in KeyIds
    PROVE  Derived(s, k) \in PublicKeys /\ Derived(s, k)[3] = k[2]
BY RegistryAssumption, Zenon DEF Derived, PublicKeys, KeyIds

\* ConvertAddress writes the public key into the address.
LEMMA AddressNamesKey ==
    ASSUME NEW pub \in PublicKeys, NEW p \in Places
    PROVE  /\ ConvertAddress(pub, p) \in PublicKeys \X {Format[q] : q \in Places}
           /\ ConvertAddress(pub, p)[1] = pub
BY Zenon DEF ConvertAddress

\* What a row or a caller holds survives every step that keeps the tables.
LEMMA OwnedKept ==
    ASSUME Keeps, NEW x, x.account \in Accounts, Owned(accounts, x)
    PROVE  Owned(accounts', x)
BY Zenon DEF Keeps, Owned

\* The same for the seed behind it.
LEMMA SignableKept ==
    ASSUME Keeps, NEW x, x.account \in Accounts, Signable(seeds, rotated, x)
    PROVE  Signable(seeds', rotated', x)
BY Zenon DEF Keeps, Signable, Tenants

\* A caller that does nothing is as sound after another's step as before.
LEMMA HandKept ==
    ASSUME Keeps, NEW h, HandOK(accounts, seeds, rotated, tenantKeys, h)
    PROVE  HandOK(accounts', seeds', rotated', tenantKeys', h)
<1>1. CASE h \notin KeyedHands
  BY <1>1, Zenon DEF HandOK
<1>2. CASE h \in KeyedHands
  <2>1. h.account \in Accounts
    BY <1>2, Zenon DEF KeyedHands
  <2>2. CASE h = NoHand \/ h \in [pc : {"index"}, account : Accounts]
             \/ h \in [pc : {"look", "allocate"}, account : Accounts, place : Places, coin : Coins]
    BY <2>2, Zenon DEF HandOK
  <2>3. CASE /\ ~ h.existing => h.key[2] = accounts[h.account].index /\ accounts[h.account].index # NoIndex
             /\ h.existing \/ h.pc \in {"bind", "update", "insert"} =>
                  Owned(accounts, h) /\ Signable(seeds, rotated, h)
             /\ h.pc \in {"update", "insert"} => <<TenantOf[h.account], h.key>> \in tenantKeys
    <3>1. Owned(accounts, h) => Owned(accounts', h)
      BY <2>1, OwnedKept, Zenon
    <3>2. Signable(seeds, rotated, h) => Signable(seeds', rotated', h)
      BY <2>1, SignableKept, Zenon
    <3>3. accounts[h.account].index # NoIndex => accounts'[h.account].index = accounts[h.account].index
      BY <2>1, Zenon DEF Keeps
    <3>4. tenantKeys \subseteq tenantKeys'
      BY Zenon DEF Keeps
    <3> QED
      BY <1>2, <2>3, <3>1, <3>2, <3>3, <3>4, Zenon DEF HandOK
  <2> QED
    BY <2>2, <2>3, Zenon DEF HandOK
<1> QED
  BY <1>1, <1>2, Zenon

\* A caller's step leaves the others as they are and itself in a sound state.
LEMMA HandsStep ==
    ASSUME Hands, Keeps, NEW c \in Callers, NEW h, hands' = [hands EXCEPT ![c] = h],
           HandOK(accounts', seeds', rotated', tenantKeys', h)
    PROVE  Hands'
<1>1. \A d \in Callers : HandOK(accounts', seeds', rotated', tenantKeys', hands[d])
  BY HandKept, Zenon DEF Hands
<1>2. \A d \in Callers : hands'[d] = IF d = c THEN h ELSE hands[d]
  BY Zenon DEF Hands
<1>3. DOMAIN hands' = Callers /\ hands' = [d \in Callers |-> hands'[d]]
  BY Zenon DEF Hands
<1> QED
  BY <1>1, <1>2, <1>3, Zenon DEF Hands

\* Rows that a step does not touch stay in order.
LEMMA RowsKept ==
    ASSUME Registered, Keeps, rows' = rows
    PROVE  Registered'
<1>1. \A r \in rows : r.account \in Accounts
  BY Zenon DEF Registered, Rows
<1>2. \A r \in rows : Owned(accounts', r) /\ Signable(seeds', rotated', r)
  BY <1>1, OwnedKept, SignableKept, Zenon DEF Registered
<1>3. \A r \in rows : <<TenantOf[r.account], r.key>> \in tenantKeys'
  BY Zenon DEF Registered, Keeps
<1> QED
  BY <1>2, <1>3, Zenon DEF Registered

\* The index an address was created with stays its account's.
LEMMA GivenKept ==
    ASSUME Created, Keeps, given' = given
    PROVE  Created'
BY Zenon DEF Created, Keeps

\* Empty tables, empty slots and idle callers.
LEMMA RegistryInvInit == RegistryInit => RegistryInv
<1> SUFFICES ASSUME RegistryInit PROVE RegistryInv
  BY Zenon
<1>1. Indices
  BY DEF RegistryInit, Indices, AccountRows, NoIndex
<1>2. Slots
  BY Zenon DEF RegistryInit, Slots
<1>3. Registered /\ Created
  BY Zenon DEF RegistryInit, Registered, Created
<1>4. Hands
  BY Zenon DEF RegistryInit, Hands, HandOK
<1> QED
  BY <1>1, <1>2, <1>3, <1>4, Zenon DEF RegistryInv

\* UpsertAccount and the commit of an address set an index that is missing;
\* both take the row's id.
LEMMA IndexedStep ==
    ASSUME Indices, NEW a \in Accounts, accounts' = Indexed(a), nextId' = nextId,
           UNCHANGED <<seeds, rotated>>, tenantKeys \subseteq tenantKeys'
    PROVE  Indices' /\ Keeps
<1>1. Indices'
  BY ZenonT(60) DEF Indices, Indexed, AccountRows, NoIndex
<1>2. Keeps
  BY Zenon DEF Indices, Indexed, AccountRows, NoIndex, Keeps
<1> QED
  BY <1>1, <1>2, Zenon

\* A step that writes no table disturbs nothing.
LEMMA NothingWritten ==
    ASSUME RegistryInv, UNCHANGED <<registryTables, seeds, rotated>>
    PROVE  Keeps /\ Indices'
BY Zenon DEF RegistryInv, Keeps, Indices, registryTables

\* UpsertAccount's INSERT takes a fresh id and leaves the index NULL.
LEMMA AccountInsertStep ==
    ASSUME RegistryInv, NEW c \in Callers, UpsertAccountInsert(c)
    PROVE  RegistryInv'
<1>1. PICK a \in Accounts, st \in {"ACTIVE", "DISABLED"} :
        /\ IF accounts[a].id = NoIndex
           THEN /\ accounts' = [accounts EXCEPT ![a].id = nextId, ![a].status = st]
                /\ nextId' = nextId + 1
           ELSE /\ accounts' = [accounts EXCEPT ![a].status = st]
                /\ nextId' = nextId
        /\ hands' = [hands EXCEPT ![c] = [pc |-> "index", account |-> a]]
  BY Zenon DEF UpsertAccountInsert
<1>2. Indices /\ Slots /\ Registered /\ Hands /\ Created
  BY Zenon DEF RegistryInv
<1>3. UNCHANGED <<rows, tenantKeys, seeds, unused, rotated, given>>
  BY Zenon DEF UpsertAccountInsert, signer
<1>4. Indices'
  <2>1. CASE accounts[a].id = NoIndex
    BY <1>1, <1>2, <2>1 DEF Indices, AccountRows, NoIndex
  <2>2. CASE accounts[a].id # NoIndex
    BY <1>1, <1>2, <2>2 DEF Indices, AccountRows, NoIndex
  <2> QED
    BY <2>1, <2>2, Zenon
<1>5. Keeps
  <2>1. CASE accounts[a].id = NoIndex
    BY <1>1, <1>2, <1>3, <2>1, Zenon DEF Indices, AccountRows, NoIndex, Keeps
  <2>2. CASE accounts[a].id # NoIndex
    BY <1>1, <1>2, <1>3, <2>2, Zenon DEF Indices, AccountRows, NoIndex, Keeps
  <2> QED
    BY <2>1, <2>2, Zenon
<1>6. HandOK(accounts', seeds', rotated', tenantKeys', [pc |-> "index", account |-> a])
  BY Zenon DEF HandOK
<1>7. Hands'
  BY <1>1, <1>2, <1>5, <1>6, HandsStep, Zenon
<1>8. Registered' /\ Created'
  BY <1>2, <1>3, <1>5, RowsKept, GivenKept, Zenon
<1>9. Slots'
  BY <1>2, <1>3, Zenon DEF Slots
<1> QED
  BY <1>4, <1>7, <1>8, <1>9, Zenon DEF RegistryInv

\* A caller that becomes free holds nothing.
LEMMA IdleStep ==
    ASSUME RegistryInv, NEW c \in Callers, Idle(c), Keeps
    PROVE  Hands'
BY HandsStep, Zenon DEF RegistryInv, Idle, HandOK

\* UpsertAccount's second statement.
LEMMA AccountIndexStep ==
    ASSUME RegistryInv, NEW c \in Callers, UpsertAccountIndex(c)
    PROVE  RegistryInv'
<1>1. Indices /\ Slots /\ Registered /\ Hands /\ Created
  BY Zenon DEF RegistryInv
<1>2. UNCHANGED <<nextId, rows, tenantKeys, seeds, unused, rotated, given>>
  BY Zenon DEF UpsertAccountIndex, signer, history
<1>3. hands[c].account \in Accounts
  <2>1. HandOK(accounts, seeds, rotated, tenantKeys, hands[c])
    BY <1>1, Zenon DEF Hands
  <2>2. hands[c].pc = "index"
    BY Zenon DEF UpsertAccountIndex, At
  <2> QED
    BY <2>1, <2>2 DEF HandOK, NoHand, KeyedHands
<1>4. Indices' /\ Keeps
  BY <1>1, <1>2, <1>3, IndexedStep, Zenon DEF UpsertAccountIndex
<1>5. Hands'
  BY <1>4, IdleStep, Zenon DEF UpsertAccountIndex
<1>6. Registered' /\ Created' /\ Slots'
  BY <1>1, <1>2, <1>4, RowsKept, GivenKept, Zenon DEF Slots
<1> QED
  BY <1>4, <1>5, <1>6, Zenon DEF RegistryInv

\* A step that writes no table and leaves its caller sound.
LEMMA ReadStep ==
    ASSUME RegistryInv, NEW c \in Callers, NEW h, hands' = [hands EXCEPT ![c] = h],
           UNCHANGED <<registryTables, seeds, unused, rotated, given>>,
           HandOK(accounts, seeds, rotated, tenantKeys, h)
    PROVE  RegistryInv'
<1>1. Indices /\ Slots /\ Registered /\ Hands /\ Created
  BY Zenon DEF RegistryInv
<1>2. Keeps /\ Indices'
  BY NothingWritten, Zenon
<1>3. HandOK(accounts', seeds', rotated', tenantKeys', h)
  BY <1>2, HandKept, Zenon
<1>4. Hands'
  BY <1>1, <1>2, <1>3, HandsStep, Zenon
<1>5. Registered' /\ Created' /\ Slots'
  BY <1>1, <1>2, RowsKept, GivenKept, Zenon DEF Slots, registryTables
<1> QED
  BY <1>2, <1>4, <1>5, Zenon DEF RegistryInv

\* CreateAddress's checks.
LEMMA BeginStep ==
    ASSUME RegistryInv, NEW c \in Callers, Begin(c)
    PROVE  RegistryInv'
<1>1. PICK a \in Accounts, p \in Places, coin \in Coins :
        hands' = [hands EXCEPT ![c] = [pc |-> "look", account |-> a, place |-> p, coin |-> coin]]
  BY Zenon DEF Begin
<1>2. HandOK(accounts, seeds, rotated, tenantKeys,
             [pc |-> "look", account |-> a, place |-> p, coin |-> coin])
  BY Zenon DEF HandOK
<1>3. UNCHANGED <<registryTables, seeds, unused, rotated, given>>
  BY Zenon DEF Begin, signer
<1> QED
  BY <1>1, <1>2, <1>3, ReadStep, Zenon

\* A caller at "look" or "allocate" knows its account and place.
LEMMA AskingHand ==
    ASSUME RegistryInv, NEW c \in Callers, hands[c].pc \in {"look", "allocate"}
    PROVE  hands[c] \in [pc : {"look", "allocate"}, account : Accounts, place : Places, coin : Coins]
<1>1. HandOK(accounts, seeds, rotated, tenantKeys, hands[c])
  BY Zenon DEF RegistryInv, Hands
<1> QED
  BY <1>1 DEF HandOK, NoHand, KeyedHands

\* PrepareAddress: the row it finds belongs to the account and the place.
LEMMA LookStep ==
    ASSUME RegistryInv, NEW c \in Callers, Look(c)
    PROVE  RegistryInv'
<1>1. hands[c] \in [pc : {"look", "allocate"}, account : Accounts, place : Places, coin : Coins]
  BY AskingHand, Zenon DEF Look, At
<1>2. UNCHANGED <<registryTables, seeds, unused, rotated, given>>
  BY Zenon DEF Look, signer, history
<1>3. CASE Goto(c, "allocate")
  <2>1. hands' = [hands EXCEPT ![c] = [hands[c] EXCEPT !.pc = "allocate"]]
    BY <1>3, Zenon DEF Goto
  <2>2. HandOK(accounts, seeds, rotated, tenantKeys, [hands[c] EXCEPT !.pc = "allocate"])
    BY <1>1, Zenon DEF HandOK
  <2> QED
    BY <1>2, <2>1, <2>2, ReadStep, Zenon
<1>4. CASE \E r \in RowsAt(hands[c].account, hands[c].place) :
             hands' = [hands EXCEPT ![c] = Keyed(hands[c], r.key, TRUE, r.pub, r.addr)]
  <2>1. PICK r \in RowsAt(hands[c].account, hands[c].place) :
          hands' = [hands EXCEPT ![c] = Keyed(hands[c], r.key, TRUE, r.pub, r.addr)]
    BY <1>4, Zenon
  <2> DEFINE k == Keyed(hands[c], r.key, TRUE, r.pub, r.addr)
  <2>2. r \in rows /\ r \in Rows /\ r.account = hands[c].account /\ r.place = hands[c].place
    BY Zenon DEF RowsAt, RegistryInv, Registered
  <2>3. k \in KeyedHands /\ k.pc = "derive" /\ k.existing /\ k.account = r.account
        /\ k.place = r.place /\ k.key = r.key /\ k.pub = r.pub /\ k.addr = r.addr
    BY <1>1, <2>2, Zenon DEF Keyed, KeyedHands, Rows
  <2>4. Owned(accounts, r) /\ Signable(seeds, rotated, r)
    BY <2>2, Zenon DEF RegistryInv, Registered
  <2>5. Owned(accounts, k) /\ Signable(seeds, rotated, k)
    BY <2>3, <2>4, Zenon DEF Owned, Signable
  <2> HIDE DEF k
  <2>6. HandOK(accounts, seeds, rotated, tenantKeys, k)
    BY <2>3, <2>5, Zenon DEF HandOK
  <2> QED
    BY <1>2, <2>1, <2>6, ReadStep, Zenon DEF k
<1> QED
  BY <1>3, <1>4, Zenon DEF Look

\* PrepareAddress: a new key carries the index of the account.
LEMMA AllocateStep ==
    ASSUME RegistryInv, NEW c \in Callers, Allocate(c)
    PROVE  RegistryInv'
<1>1. hands[c] \in [pc : {"look", "allocate"}, account : Accounts, place : Places, coin : Coins]
  BY AskingHand, Zenon DEF Allocate, At
<1>2. UNCHANGED <<registryTables, seeds, unused, rotated, given>>
  BY Zenon DEF Allocate, signer, history
<1> DEFINE index == accounts[hands[c].account].index
<1>3. CASE Idle(c)
  BY <1>2, <1>3, ReadStep, Zenon DEF Idle, HandOK
<1>4. CASE /\ index # NoIndex
           /\ \E n \in NextAddressIndex(hands[c].account, hands[c].place) :
                hands' = [hands EXCEPT ![c] =
                    Keyed(hands[c], BuildHDKeyID(hands[c].place[1], index, n), FALSE, NoSeed, NoSeed)]
  <2>1. PICK n \in NextAddressIndex(hands[c].account, hands[c].place) :
          hands' = [hands EXCEPT ![c] =
              Keyed(hands[c], BuildHDKeyID(hands[c].place[1], index, n), FALSE, NoSeed, NoSeed)]
    BY <1>4, Zenon
  <2>2. n \in Nat
    <3>1. \A r \in rows : r.key \in KeyIds
      BY Zenon DEF RegistryInv, Registered, Rows
    <3>2. \A r \in rows : r.key[3] + 1 \in Nat
      BY <3>1 DEF KeyIds
    <3> QED
      BY <3>2 DEF NextAddressIndex, RowsAt
  <2>3. index \in Nat /\ hands[c].place[1] \in Chains
    BY <1>1, Zenon DEF RegistryInv, Indices, AccountRows, Chains
  <2> DEFINE key == BuildHDKeyID(hands[c].place[1], index, n)
             k == Keyed(hands[c], key, FALSE, NoSeed, NoSeed)
  <2>4. key \in KeyIds /\ key[2] = index
    BY <2>2, <2>3, Zenon DEF BuildHDKeyID, KeyIds
  <2> HIDE DEF key
  <2>5. k \in KeyedHands /\ k.pc = "derive" /\ ~ k.existing /\ k.account = hands[c].account /\ k.key = key
    BY <1>1, <2>4, Zenon DEF Keyed, KeyedHands
  <2> HIDE DEF k
  <2>6. HandOK(accounts, seeds, rotated, tenantKeys, k)
    BY <1>4, <2>4, <2>5, Zenon DEF HandOK
  <2> QED
    BY <1>2, <2>1, <2>6, ReadStep, Zenon DEF k, key
<1> QED
  BY <1>3, <1>4, Zenon DEF Allocate

\* What a caller with a key holds.
KeyedOK(h) ==
    /\ h \in KeyedHands
    /\ ~ h.existing => h.key[2] = accounts[h.account].index /\ accounts[h.account].index # NoIndex
    /\ h.existing \/ h.pc \in {"bind", "update", "insert"} =>
         Owned(accounts, h) /\ Signable(seeds, rotated, h)
    /\ h.pc \in {"update", "insert"} => <<TenantOf[h.account], h.key>> \in tenantKeys

\* From "derive" on a caller has a key.
LEMMA KeyedHand ==
    ASSUME RegistryInv, NEW c \in Callers,
           hands[c].pc \in {"derive", "provision", "bind", "update", "insert"}
    PROVE  KeyedOK(hands[c]) /\ hands[c].account \in Accounts /\ Tenant(c) \in Tenants
<1>1. HandOK(accounts, seeds, rotated, tenantKeys, hands[c])
  BY Zenon DEF RegistryInv, Hands
<1>2. KeyedOK(hands[c])
  BY <1>1 DEF HandOK, NoHand, KeyedOK
<1> QED
  BY <1>2, Zenon DEF KeyedOK, KeyedHands, Tenant, Tenants

\* A derivation that failed: the request ends or the stored address serves.
LEMMA WithoutKeyOK ==
    ASSUME RegistryInv, NEW c \in Callers, hands[c].pc \in {"derive", "provision"}
    PROVE  HandOK(accounts, seeds, rotated, tenantKeys, WithoutKey(c))
<1>1. KeyedOK(hands[c])
  BY KeyedHand, Zenon
<1> DEFINE k == [hands[c] EXCEPT !.pc = "bind"]
<1>2. CASE hands[c].existing
  <2>1. k \in KeyedHands /\ k.pc = "bind" /\ k.existing = hands[c].existing /\ k.account = hands[c].account
        /\ k.place = hands[c].place /\ k.key = hands[c].key /\ k.pub = hands[c].pub /\ k.addr = hands[c].addr
    BY <1>1, Zenon DEF KeyedOK, KeyedHands
  <2>2. Owned(accounts, hands[c]) /\ Signable(seeds, rotated, hands[c])
    BY <1>1, <1>2, Zenon DEF KeyedOK
  <2>3. Owned(accounts, k) /\ Signable(seeds, rotated, k)
    BY <2>1, <2>2, Zenon DEF Owned, Signable
  <2>4. WithoutKey(c) = k
    BY <1>2, Zenon DEF WithoutKey
  <2> HIDE DEF k
  <2> QED
    BY <1>2, <2>1, <2>3, <2>4, Zenon DEF HandOK
<1>3. CASE ~ hands[c].existing
  BY <1>3, Zenon DEF WithoutKey, HandOK
<1> QED
  BY <1>2, <1>3, Zenon

\* A derivation from the seed of the slot.
LEMMA WithKeyOK ==
    ASSUME RegistryInv, NEW c \in Callers, hands[c].pc \in {"derive", "provision"},
           NEW s \in Seeds, NEW slots, slots[Tenant(c)] = s,
           Signable(seeds, rotated, hands[c]) => Signable(slots, rotated, hands[c])
    PROVE  HandOK(accounts, slots, rotated, tenantKeys, WithKey(c, s))
<1>1. KeyedOK(hands[c])
  BY KeyedHand, Zenon
<1>2. CASE hands[c].existing
  <2> DEFINE k == [hands[c] EXCEPT !.pc = "bind"]
  <2>1. k \in KeyedHands /\ k.pc = "bind" /\ k.existing = hands[c].existing /\ k.account = hands[c].account
        /\ k.place = hands[c].place /\ k.key = hands[c].key /\ k.pub = hands[c].pub /\ k.addr = hands[c].addr
    BY <1>1, Zenon DEF KeyedOK, KeyedHands
  <2>2. Owned(accounts, hands[c]) /\ Signable(slots, rotated, hands[c])
    BY <1>1, <1>2, Zenon DEF KeyedOK
  <2>3. Owned(accounts, k) /\ Signable(slots, rotated, k)
    BY <2>1, <2>2, Zenon DEF Owned, Signable
  <2>4. WithKey(c, s) = k
    BY <1>2, Zenon DEF WithKey
  <2> HIDE DEF k
  <2> QED
    BY <1>2, <2>1, <2>3, <2>4, Zenon DEF HandOK
<1>3. CASE ~ hands[c].existing
  <2> DEFINE pub == Derived(s, hands[c].key)
             adr == ConvertAddress(pub, hands[c].place)
             k == [hands[c] EXCEPT !.pc = "bind", !.pub = pub, !.addr = adr]
  <2>1. hands[c].key \in KeyIds /\ hands[c].place \in Places
    BY <1>1, Zenon DEF KeyedOK, KeyedHands
  <2>2. pub \in PublicKeys /\ pub[3] = hands[c].key[2]
    BY <2>1, DerivedKeepsIndex, Zenon
  <2>3. adr \in PublicKeys \X {Format[q] : q \in Places}
    BY <2>1, <2>2, AddressNamesKey, Zenon
  <2>4. WithKey(c, s) = k
    BY <1>3, Zenon DEF WithKey
  <2> HIDE DEF pub, adr
  <2>5. k \in KeyedHands /\ k.pc = "bind" /\ ~ k.existing /\ k.account = hands[c].account
        /\ k.place = hands[c].place /\ k.key = hands[c].key /\ k.pub = pub /\ k.addr = adr
    BY <1>1, <1>3, <2>2, <2>3, Zenon DEF KeyedOK, KeyedHands
  <2> HIDE DEF k
  <2>6. Owned(accounts, k)
    BY <1>1, <1>3, <2>2, <2>5, Zenon DEF Owned, KeyedOK, adr
  <2>7. Signable(slots, rotated, k)
    BY <2>5, RegistryAssumption, Zenon DEF Signable, Tenant, pub
  <2> QED
    BY <1>1, <1>3, <2>4, <2>5, <2>6, <2>7, Zenon DEF HandOK, KeyedOK
<1> QED
  BY <1>2, <1>3, Zenon

\* DeriveKey: rate limit and seed.
LEMMA DeriveStep ==
    ASSUME RegistryInv, NEW c \in Callers, Derive(c)
    PROVE  RegistryInv'
<1>1. hands[c].pc = "derive"
  BY Zenon DEF Derive, At
<1>2. UNCHANGED <<registryTables, seeds, unused, rotated, given>>
  BY Zenon DEF Derive, history
<1>3. KeyedOK(hands[c]) /\ Tenant(c) \in Tenants
  BY <1>1, KeyedHand, Zenon
<1>4. CASE hands' = [hands EXCEPT ![c] = WithoutKey(c)]
  BY <1>1, <1>2, <1>4, WithoutKeyOK, ReadStep, Zenon
<1>5. CASE /\ seeds[Tenant(c)] # NoSeed
           /\ hands' = [hands EXCEPT ![c] = WithKey(c, seeds[Tenant(c)])]
  <2>1. seeds[Tenant(c)] \in Seeds
    BY <1>3, <1>5, Zenon DEF RegistryInv, Slots
  <2>2. HandOK(accounts, seeds, rotated, tenantKeys, WithKey(c, seeds[Tenant(c)]))
    BY <1>1, <2>1, WithKeyOK, Zenon
  <2> QED
    BY <1>2, <1>5, <2>2, ReadStep, Zenon
<1>6. CASE hands' = [hands EXCEPT ![c] = [hands[c] EXCEPT !.pc = "provision"]]
  <2> DEFINE k == [hands[c] EXCEPT !.pc = "provision"]
  <2>1. k \in KeyedHands /\ k.pc = "provision" /\ k.existing = hands[c].existing
        /\ k.account = hands[c].account /\ k.place = hands[c].place /\ k.key = hands[c].key
        /\ k.pub = hands[c].pub /\ k.addr = hands[c].addr
    BY <1>3, Zenon DEF KeyedOK, KeyedHands
  <2> HIDE DEF k
  <2>2. k.existing => Owned(accounts, k) /\ Signable(seeds, rotated, k)
    BY <1>3, <2>1, Zenon DEF KeyedOK, Owned, Signable
  <2>3. HandOK(accounts, seeds, rotated, tenantKeys, k)
    BY <1>3, <2>1, <2>2, Zenon DEF HandOK, KeyedOK
  <2> QED
    BY <1>2, <1>6, <2>3, ReadStep, Zenon DEF k
<1>7. \/ hands' = [hands EXCEPT ![c] = WithoutKey(c)]
      \/ /\ seeds[Tenant(c)] # NoSeed
         /\ hands' = [hands EXCEPT ![c] = WithKey(c, seeds[Tenant(c)])]
      \/ hands' = [hands EXCEPT ![c] = [hands[c] EXCEPT !.pc = "provision"]]
  <2>1. CASE seeds[Tenant(c)] # NoSeed
    BY <2>1, Zenon DEF Derive
  <2>2. CASE seeds[Tenant(c)] = NoSeed /\ AutoCreate
    BY <2>2, Zenon DEF Derive
  <2>3. CASE seeds[Tenant(c)] = NoSeed /\ ~ AutoCreate
    BY <2>3, Zenon DEF Derive
  <2> QED
    BY <2>1, <2>2, <2>3, Zenon
<1> QED
  BY <1>4, <1>5, <1>6, <1>7, Zenon

\* LoadOrCreateSeed: a slot is filled once, so nobody's key is orphaned.
LEMMA ProvisionStep ==
    ASSUME RegistryInv, NEW c \in Callers, Provision(c)
    PROVE  RegistryInv'
<1>1. hands[c].pc = "provision"
  BY Zenon DEF Provision, At
<1>2. UNCHANGED <<registryTables, rotated, given>>
  BY Zenon DEF Provision, history
<1>3. PICK s \in unused :
        /\ unused' = unused \ {s}
        /\ ProvisionSeed(Tenant(c), s)
        /\ hands' = [hands EXCEPT ![c] = IF seeds'[Tenant(c)] = s THEN WithKey(c, s) ELSE WithoutKey(c)]
  BY Zenon DEF Provision
<1>4. Tenant(c) \in Tenants
  BY <1>1, KeyedHand, Zenon
<1>5. Indices /\ Slots /\ Registered /\ Hands /\ Created
  BY Zenon DEF RegistryInv
<1>6. s \in Seeds /\ s # NoSeed
  BY <1>5, RegistryAssumption, Zenon DEF Slots
<1>7. Slots'
  BY <1>3, <1>4, <1>5, <1>6, Zenon DEF Slots, ProvisionSeed
<1>8. Keeps
  BY <1>2, <1>3, <1>4, <1>5, <1>6, Zenon DEF Slots, ProvisionSeed, Keeps, registryTables
<1>9. HandOK(accounts', seeds', rotated', tenantKeys',
             IF seeds'[Tenant(c)] = s THEN WithKey(c, s) ELSE WithoutKey(c))
  <2>1. CASE seeds'[Tenant(c)] = s
    <3>1. Signable(seeds, rotated, hands[c]) => Signable(seeds', rotated, hands[c])
      BY <1>1, <1>2, <1>8, KeyedHand, SignableKept, Zenon
    <3>2. HandOK(accounts, seeds', rotated, tenantKeys, WithKey(c, s))
      BY <1>1, <1>6, <2>1, <3>1, WithKeyOK, Zenon
    <3> QED
      BY <1>2, <2>1, <3>2, Zenon DEF registryTables
  <2>2. CASE seeds'[Tenant(c)] # s
    BY <1>1, <1>8, <2>2, WithoutKeyOK, HandKept, Zenon
  <2> QED
    BY <2>1, <2>2, Zenon
<1>10. Hands'
  BY <1>3, <1>5, <1>8, <1>9, HandsStep, Zenon
<1>11. Registered' /\ Created' /\ Indices'
  BY <1>2, <1>5, <1>8, RowsKept, GivenKept, Zenon DEF Indices, registryTables
<1> QED
  BY <1>7, <1>10, <1>11, Zenon DEF RegistryInv

\* The operator's commands: a replaced seed is in the history.
LEMMA OperatorStep ==
    ASSUME RegistryInv, Operator
    PROVE  RegistryInv'
<1>1. Indices /\ Slots /\ Registered /\ Hands /\ Created
  BY Zenon DEF RegistryInv
<1>2. UNCHANGED <<registryTables, hands, given>>
  BY Zenon DEF Operator, history
<1>3. PICK t \in Tenants, s \in unused :
        /\ unused' = unused \ {s}
        /\ \/ seeds[t] = NoSeed /\ rotated' = rotated
           \/ seeds[t] # NoSeed /\ rotated' = rotated \cup {t}
        /\ seeds' = [seeds EXCEPT ![t] = s]
  BY Zenon DEF Operator
<1>4. Slots'
  BY <1>1, <1>3, Zenon DEF Slots
<1>5. Keeps
  BY <1>1, <1>2, <1>3, Zenon DEF Slots, Keeps, registryTables
<1>6. Registered' /\ Created' /\ Indices'
  BY <1>1, <1>2, <1>5, RowsKept, GivenKept, Zenon DEF Indices, registryTables
<1>7. \A c \in Callers : HandOK(accounts', seeds', rotated', tenantKeys', hands[c])
  BY <1>1, <1>5, HandKept, Zenon DEF Hands
<1>8. Hands'
  BY <1>1, <1>2, <1>7, Zenon DEF Hands
<1> QED
  BY <1>4, <1>6, <1>8, Zenon DEF RegistryInv

\* BindTenantKey comes before the address is stored.
LEMMA BindStep ==
    ASSUME RegistryInv, NEW c \in Callers, BindTenantKey(c)
    PROVE  RegistryInv'
<1>1. hands[c].pc = "bind"
  BY Zenon DEF BindTenantKey, At
<1>2. UNCHANGED <<accounts, nextId, rows, seeds, unused, rotated, given>>
  BY Zenon DEF BindTenantKey, signer, history
<1>3. tenantKeys' = tenantKeys \cup {<<Tenant(c), hands[c].key>>}
  BY Zenon DEF BindTenantKey
<1>4. Indices /\ Slots /\ Registered /\ Hands /\ Created
  BY Zenon DEF RegistryInv
<1>5. Keeps
  BY <1>2, <1>3, Zenon DEF Keeps
<1> DEFINE k == [hands[c] EXCEPT !.pc = "update"]
<1>6. hands' = [hands EXCEPT ![c] = k]
  BY Zenon DEF BindTenantKey, Goto
<1>7. KeyedOK(hands[c])
  BY <1>1, KeyedHand, Zenon
<1>8. k \in KeyedHands /\ k.pc = "update" /\ k.existing = hands[c].existing /\ k.account = hands[c].account
      /\ k.place = hands[c].place /\ k.key = hands[c].key /\ k.pub = hands[c].pub /\ k.addr = hands[c].addr
  BY <1>7, Zenon DEF KeyedOK, KeyedHands
<1> HIDE DEF k
<1>9. Owned(accounts, k) /\ Signable(seeds, rotated, k)
  BY <1>1, <1>7, <1>8, Zenon DEF KeyedOK, Owned, Signable
<1>10. <<TenantOf[k.account], k.key>> \in tenantKeys'
  BY <1>3, <1>8, Zenon DEF Tenant
<1>11. HandOK(accounts', seeds', rotated', tenantKeys', k)
  BY <1>2, <1>7, <1>8, <1>9, <1>10, Zenon DEF HandOK, KeyedOK
<1>12. Hands'
  BY <1>4, <1>5, <1>6, <1>11, HandsStep, Zenon
<1>13. Registered' /\ Created' /\ Indices' /\ Slots'
  BY <1>2, <1>4, <1>5, RowsKept, GivenKept, Zenon DEF Indices, Slots
<1> QED
  BY <1>12, <1>13, Zenon DEF RegistryInv

\* The commit of UpsertWatchAddress, given rows that are all in order.
LEMMA WatchStep ==
    ASSUME RegistryInv, NEW c \in Callers, hands[c].pc \in {"update", "insert"}, Watch(c),
           UNCHANGED <<nextId, tenantKeys, seeds, unused, rotated>>,
           rows' \subseteq Rows,
           \A r \in rows' : Owned(accounts, r) /\ Signable(seeds, rotated, r)
                            /\ <<TenantOf[r.account], r.key>> \in tenantKeys
    PROVE  RegistryInv'
<1>1. Indices /\ Slots /\ Registered /\ Hands /\ Created
  BY Zenon DEF RegistryInv
<1>2. KeyedOK(hands[c]) /\ hands[c].account \in Accounts
  BY KeyedHand, Zenon
<1>3. Indices' /\ Keeps
  BY <1>1, <1>2, IndexedStep, Zenon DEF Watch
<1>4. Hands'
  BY <1>3, IdleStep, Zenon DEF Watch
<1>5. Registered'
  <2>1. \A r \in rows' : r.account \in Accounts
    BY Zenon DEF Rows
  <2>2. \A r \in rows' : Owned(accounts', r) /\ Signable(seeds', rotated', r)
    BY <1>3, <2>1, OwnedKept, SignableKept, ZenonT(60)
  <2> QED
    BY <2>2, Zenon DEF Registered
<1>6. Created'
  <2>1. Owned(accounts, hands[c])
    BY <1>2, Zenon DEF KeyedOK
  <2>2. hands[c].addr[1][3] = accounts[hands[c].account].index /\ accounts[hands[c].account].index # NoIndex
    BY <2>1 DEF Owned, ConvertAddress
  <2>3. \A a \in Accounts : accounts[a].index # NoIndex => accounts'[a].index = accounts[a].index
    BY <1>3, Zenon DEF Keeps
  <2>4. given' = given \cup {[account |-> hands[c].account, place |-> hands[c].place,
                              coin |-> hands[c].coin, addr |-> hands[c].addr]}
    BY Zenon DEF Watch
  <2> QED
    BY <1>1, <1>2, <2>2, <2>3, <2>4, SMTT(60) DEF Created
<1>7. Slots'
  BY <1>1, Zenon DEF Slots
<1> QED
  BY <1>3, <1>4, <1>5, <1>6, <1>7, Zenon DEF RegistryInv

\* upsertWalletAddressTx, the UPDATEs: a row found by the key takes the
\* address derived from that key; a row found by the address had it already.
LEMMA UpdateStep ==
    ASSUME RegistryInv, NEW c \in Callers, UpdateAddress(c)
    PROVE  RegistryInv'
<1>1. hands[c].pc = "update"
  BY Zenon DEF UpdateAddress, At
<1>2. KeyedOK(hands[c])
  BY <1>1, KeyedHand, Zenon
<1>3. UNCHANGED <<nextId, tenantKeys, seeds, unused, rotated>>
  BY Zenon DEF UpdateAddress, signer
<1>4. CASE Goto(c, "insert") /\ UNCHANGED <<accounts, rows, watches, given>>
  <2> DEFINE k == [hands[c] EXCEPT !.pc = "insert"]
  <2>1. k \in KeyedHands /\ k.pc = "insert" /\ k.existing = hands[c].existing /\ k.account = hands[c].account
        /\ k.place = hands[c].place /\ k.key = hands[c].key /\ k.pub = hands[c].pub /\ k.addr = hands[c].addr
    BY <1>2, Zenon DEF KeyedOK, KeyedHands
  <2>2. hands' = [hands EXCEPT ![c] = k]
    BY <1>4, Zenon DEF Goto
  <2> HIDE DEF k
  <2>3. Owned(accounts, k) /\ Signable(seeds, rotated, k)
    BY <1>1, <1>2, <2>1, Zenon DEF KeyedOK, Owned, Signable
  <2>4. HandOK(accounts, seeds, rotated, tenantKeys, k)
    BY <1>1, <1>2, <2>1, <2>3, Zenon DEF HandOK, KeyedOK
  <2> QED
    BY <1>3, <1>4, <2>2, <2>4, ReadStep, Zenon DEF registryTables
<1>5. CASE /\ rows' = (rows \ UpdatedRows(c)) \cup {Rewritten(r, hands[c]) : r \in UpdatedRows(c)}
           /\ Watch(c)
  <2>1. rows \subseteq Rows
        /\ \A r \in rows : Owned(accounts, r) /\ Signable(seeds, rotated, r)
                           /\ <<TenantOf[r.account], r.key>> \in tenantKeys
    BY Zenon DEF RegistryInv, Registered
  <2>2. Owned(accounts, hands[c]) /\ Signable(seeds, rotated, hands[c])
        /\ <<TenantOf[hands[c].account], hands[c].key>> \in tenantKeys
    BY <1>1, <1>2, Zenon DEF KeyedOK
  <2>3. ASSUME NEW r \in UpdatedRows(c)
        PROVE  /\ Rewritten(r, hands[c]) \in Rows
               /\ Owned(accounts, Rewritten(r, hands[c]))
               /\ Signable(seeds, rotated, Rewritten(r, hands[c]))
               /\ <<TenantOf[Rewritten(r, hands[c]).account], Rewritten(r, hands[c]).key>> \in tenantKeys
    <3> DEFINE w == Rewritten(r, hands[c])
    <3>1. r \in rows /\ r \in Rows
      BY <2>1, ZenonT(60) DEF UpdatedRows, SameKeyRows, SameAddressRows, RowsAt
    <3>2. hands[c].addr \in PublicKeys \X {Format[p] : p \in Places}
      BY <1>2, <2>2, AddressNamesKey DEF KeyedOK, KeyedHands, Owned
    <3>3. w \in Rows /\ w.account = hands[c].account /\ w.place = hands[c].place
          /\ w.addr = hands[c].addr /\ w.pub = hands[c].pub /\ w.key = r.key
      BY <1>2, <2>2, <3>1, <3>2, Zenon DEF Rewritten, Rows, KeyedOK, KeyedHands, Owned
    <3> HIDE DEF w
    <3>4. Owned(accounts, w)
      BY <2>2, <3>3, Zenon DEF Owned
    <3>5. CASE r.key = hands[c].key
      BY <2>2, <3>3, <3>4, <3>5, Zenon DEF Signable, w
    <3>6. CASE r.account = hands[c].account /\ r.place = hands[c].place /\ r.addr = hands[c].addr
      <4>1. r.pub = hands[c].pub
        <5>1. r.addr = ConvertAddress(r.pub, r.place) /\ r.pub \in PublicKeys /\ r.place \in Places
          BY <2>1, <3>1, Zenon DEF Owned, Rows
        <5>2. hands[c].addr = ConvertAddress(hands[c].pub, hands[c].place)
              /\ hands[c].pub \in PublicKeys /\ hands[c].place \in Places
          BY <1>2, <2>2, Zenon DEF Owned, KeyedOK, KeyedHands
        <5>3. ConvertAddress(r.pub, r.place)[1] = r.pub
          BY <5>1, AddressNamesKey, Zenon
        <5>4. ConvertAddress(hands[c].pub, hands[c].place)[1] = hands[c].pub
          BY <5>2, AddressNamesKey, Zenon
        <5> QED
          BY <3>6, <5>1, <5>2, <5>3, <5>4, Zenon
      <4>2. Signable(seeds, rotated, w)
        BY <2>1, <3>1, <3>3, <3>6, <4>1, Zenon DEF Signable
      <4>3. <<TenantOf[w.account], w.key>> \in tenantKeys
        BY <2>1, <3>1, <3>3, <3>6, Zenon
      <4> QED
        BY <3>3, <3>4, <4>2, <4>3, Zenon DEF w
    <3>7. r.key = hands[c].key
          \/ (r.account = hands[c].account /\ r.place = hands[c].place /\ r.addr = hands[c].addr)
      BY Zenon DEF UpdatedRows, SameKeyRows, SameAddressRows, RowsAt
    <3> QED
      BY <3>5, <3>6, <3>7, Zenon
  <2>4. rows' \subseteq Rows
    BY <1>5, <2>1, <2>3, Zenon
  <2>5. \A r \in rows' : Owned(accounts, r) /\ Signable(seeds, rotated, r)
                         /\ <<TenantOf[r.account], r.key>> \in tenantKeys
    BY <1>5, <2>1, <2>3, Zenon
  <2> QED
    BY <1>1, <1>3, <1>5, <2>4, <2>5, WatchStep, Zenon
<1> QED
  BY <1>4, <1>5, Zenon DEF UpdateAddress

\* The INSERT: the new row is what the caller holds.
LEMMA InsertStep ==
    ASSUME RegistryInv, NEW c \in Callers, InsertAddress(c)
    PROVE  RegistryInv'
<1>1. hands[c].pc = "insert"
  BY Zenon DEF InsertAddress, At
<1>2. KeyedOK(hands[c])
  BY <1>1, KeyedHand, Zenon
<1>3. UNCHANGED <<nextId, tenantKeys, seeds, unused, rotated>>
  BY Zenon DEF InsertAddress, signer
<1>4. CASE Idle(c) /\ UNCHANGED <<accounts, rows, watches, given>>
  BY <1>3, <1>4, ReadStep, Zenon DEF Idle, HandOK, registryTables
<1> DEFINE w == [account |-> hands[c].account, place |-> hands[c].place, coin |-> hands[c].coin,
                 key |-> hands[c].key, pub |-> hands[c].pub, addr |-> hands[c].addr]
<1>5. CASE rows' = rows \cup {w} /\ Watch(c)
  <2>1. rows \subseteq Rows
        /\ \A r \in rows : Owned(accounts, r) /\ Signable(seeds, rotated, r)
                           /\ <<TenantOf[r.account], r.key>> \in tenantKeys
    BY Zenon DEF RegistryInv, Registered
  <2>2. Owned(accounts, hands[c]) /\ Signable(seeds, rotated, hands[c])
        /\ <<TenantOf[hands[c].account], hands[c].key>> \in tenantKeys
    BY <1>1, <1>2, ZenonT(60) DEF KeyedOK
  <2>3. hands[c].addr \in PublicKeys \X {Format[p] : p \in Places}
    BY <1>2, <2>2, AddressNamesKey DEF KeyedOK, KeyedHands, Owned
  <2>4. w \in Rows
    BY <1>2, <2>2, <2>3, Zenon DEF Rows, KeyedOK, KeyedHands, Owned
  <2>5. Owned(accounts, w) /\ Signable(seeds, rotated, w) /\ <<TenantOf[w.account], w.key>> \in tenantKeys
    BY <2>2, Zenon DEF Owned, Signable
  <2> HIDE DEF w
  <2>6. rows' \subseteq Rows
        /\ \A r \in rows' : Owned(accounts, r) /\ Signable(seeds, rotated, r)
                            /\ <<TenantOf[r.account], r.key>> \in tenantKeys
    BY <1>5, <2>1, <2>4, <2>5, Zenon
  <2> QED
    BY <1>1, <1>3, <1>5, <2>6, WatchStep, Zenon
<1> QED
  BY <1>4, <1>5, Zenon DEF InsertAddress

\* A request that ends early leaves the tables alone.
LEMMA AbortStep ==
    ASSUME RegistryInv, NEW c \in Callers, Abort(c)
    PROVE  RegistryInv'
<1>1. UNCHANGED <<registryTables, seeds, unused, rotated, given>>
  BY Zenon DEF Abort, signer, history
<1> QED
  BY <1>1, ReadStep, Zenon DEF Abort, Idle, HandOK

\* Nothing a theorem is about changes.
LEMMA StutterStep ==
    ASSUME RegistryInv, UNCHANGED <<registryTables, seeds, unused, rotated, hands, given>>
    PROVE  RegistryInv'
BY Zenon DEF RegistryInv, Indices, Slots, Registered, Hands, Created, registryTables

\* Every step of the handlers keeps the invariant.
LEMMA RegistryInvNext == RegistryInv /\ [RegistryNext]_registryVars => RegistryInv'
<1> SUFFICES ASSUME RegistryInv, [RegistryNext]_registryVars PROVE RegistryInv'
  BY Zenon
<1>1. ASSUME NEW c \in Callers,
             \/ UpsertAccountInsert(c) \/ UpsertAccountIndex(c)
             \/ Begin(c) \/ Look(c) \/ Allocate(c) \/ Derive(c) \/ Provision(c)
             \/ BindTenantKey(c) \/ UpdateAddress(c) \/ InsertAddress(c)
             \/ Abort(c)
      PROVE  RegistryInv'
  BY <1>1, AccountInsertStep, AccountIndexStep, BeginStep, LookStep, AllocateStep, DeriveStep,
     ProvisionStep, BindStep, UpdateStep, InsertStep, AbortStep, Zenon
<1>2. CASE WindowOver
  BY <1>2, StutterStep, Zenon DEF WindowOver, history
<1>3. CASE Operator
  BY <1>3, OperatorStep, Zenon
<1>4. CASE UNCHANGED registryVars
  BY <1>4, StutterStep, Zenon DEF registryVars, registryTables
<1> QED
  BY <1>1, <1>2, <1>3, <1>4, Zenon DEF RegistryNext

\* The invariant of the registry, the callers and the seeds.
THEOREM RegistryInvHolds == RegistrySpec => []RegistryInv
<1> QED
  BY RegistryInvInit, RegistryInvNext, PTL DEF RegistrySpec

\* CreateAddress never gives two accounts the same address.
THEOREM AddressesHaveOneOwner == RegistrySpec => []AddressHasOneOwner
<1>1. RegistryInv => AddressHasOneOwner
  BY DEF RegistryInv, Indices, Created, AddressHasOneOwner
<1> QED
  BY <1>1, RegistryInvHolds, PTL

\* Whatever UpsertWatchAddress stored, sign-service derives again, unless an
\* operator replaced the seed; and the tenant may use the key.
THEOREM RegisteredAddressesAreSpendable == RegistrySpec => []RegisteredIsSpendable
<1>1. RegistryInv => RegisteredIsSpendable
  BY Zenon DEF RegistryInv, Registered, Signable, RegisteredIsSpendable
<1> QED
  BY <1>1, RegistryInvHolds, PTL

-----------------------------------------------------------------------------
(* One address per place, and an address that was given out stays watched.  *)
(*                                                                          *)
(* The argument: a key names the chain and the account of whatever holds    *)
(* it; at a place nobody asked for twice at a time the only key is the      *)
(* account's first; and a row leaves its place only for one on the same     *)
(* chain that its account is given in the same transaction.                 *)

KeyedStates == {"derive", "provision", "bind", "update", "insert"}

Asking(h) == h.pc \notin {"idle", "index"}

SamePlace(x, y) == x.account = y.account /\ x.place = y.place

Place(x) == <<x.account, x.place>>

\* The key x holds is of the chain of its place and of its account.
KeyNamesHolder(acc, x) == x.key[1] = x.place[1] /\ x.key[2] = acc[x.account].index

\* A caller about to allocate at a place nobody else asks for still finds no
\* row there; a key it has is the first, and names the caller's account.
Fits(acc, table, cross, h) ==
    /\ h.pc = "allocate" /\ Place(h) \notin cross => \A r \in table : ~ SamePlace(r, h)
    /\ h.pc \in KeyedStates => KeyNamesHolder(acc, h) /\ (Place(h) \notin cross => h.key[3] = 0)

CallersFit == \A c \in Callers : Fits(accounts, rows, crossed, hands[c])

AskedAlone ==
    \A c, d \in Callers :
        c # d /\ Asking(hands[c]) /\ Asking(hands[d]) /\ SamePlace(hands[c], hands[d])
        => Place(hands[c]) \in crossed

RowsFit ==
    \A r \in rows : KeyNamesHolder(accounts, r) /\ (Place(r) \notin crossed => r.key[3] = 0)

\* The address the account's first key has at the place.
FirstAddress(acc, slots, g) ==
    ConvertAddress(Derived(slots[TenantOf[g.account]], <<g.place[1], acc[g.account].index, 0>>), g.place)

GivenIsFirst ==
    \A g \in given :
        Place(g) \notin crossed /\ TenantOf[g.account] \notin rotated
        => /\ seeds[TenantOf[g.account]] # NoSeed
           /\ g.addr = FirstAddress(accounts, seeds, g)

GivenWatched == given \subseteq watches /\ GivenStaysWatched

PlaceInv == CallersFit /\ AskedAlone /\ RowsFit /\ GivenIsFirst /\ GivenWatched

\* From "derive" on a caller's account has its index.
LEMMA KeyedHasIndex ==
    ASSUME RegistryInv, NEW c \in Callers, hands[c].pc \in KeyedStates
    PROVE  /\ KeyedOK(hands[c]) /\ hands[c] \in KeyedHands
           /\ hands[c].account \in Accounts /\ accounts[hands[c].account].index # NoIndex
<1>1. KeyedOK(hands[c]) /\ hands[c].account \in Accounts
  BY KeyedHand, Zenon DEF KeyedStates
<1> QED
  BY <1>1, Zenon DEF KeyedOK, Owned

\* What a caller knows of its place survives the steps of others that leave
\* the address rows alone.
LEMMA FitsKept ==
    ASSUME RegistryInv, Keeps, rows' = rows, crossed \subseteq crossed', NEW c \in Callers,
           Fits(accounts, rows, crossed, hands[c])
    PROVE  Fits(accounts', rows', crossed', hands[c])
<1>1. ASSUME hands[c].pc \in KeyedStates
      PROVE  accounts'[hands[c].account].index = accounts[hands[c].account].index
  BY <1>1, KeyedHasIndex, Zenon DEF Keeps
<1> QED
  BY <1>1, Zenon DEF Fits, KeyNamesHolder

\* A caller moves on without writing an address row.
LEMMA CallerFits ==
    ASSUME RegistryInv, PlaceInv, Keeps, rows' = rows, crossed \subseteq crossed',
           NEW c \in Callers, NEW h, hands' = [hands EXCEPT ![c] = h],
           Fits(accounts', rows', crossed', h),
           Asking(h) =>
             \/ Asking(hands[c]) /\ SamePlace(h, hands[c])
             \/ \A d \in Callers : Asking(hands[d]) /\ SamePlace(h, hands[d]) => Place(h) \in crossed'
    PROVE  CallersFit' /\ AskedAlone'
<1>1. \A d \in Callers : hands'[d] = IF d = c THEN h ELSE hands[d]
  BY Zenon DEF RegistryInv, Hands
<1>2. CallersFit'
  BY <1>1, FitsKept, Zenon DEF PlaceInv, CallersFit
<1>3. ASSUME NEW d \in Callers, d # c, Asking(h), Asking(hands[d]), SamePlace(h, hands[d])
      PROVE  Place(h) \in crossed'
  <2>1. CASE Asking(hands[c]) /\ SamePlace(h, hands[c])
    BY <1>3, <2>1, Zenon DEF PlaceInv, AskedAlone, SamePlace, Place
  <2> QED
    BY <1>3, <2>1, Zenon
<1>4. ASSUME NEW d \in Callers, NEW e \in Callers, d # e, Asking(hands'[d]), Asking(hands'[e]),
             SamePlace(hands'[d], hands'[e])
      PROVE  Place(hands'[d]) \in crossed'
  <2>1. CASE d = c
    BY <1>1, <1>3, <1>4, <2>1, Zenon
  <2>2. CASE e = c
    BY <1>1, <1>3, <1>4, <2>2, Zenon DEF SamePlace, Place
  <2>3. CASE d # c /\ e # c
    BY <1>1, <1>4, <2>3, Zenon DEF PlaceInv, AskedAlone
  <2> QED
    BY <2>1, <2>2, <2>3, Zenon
<1> QED
  BY <1>2, <1>4, Zenon DEF AskedAlone

\* Rows and created addresses that a step does not touch.
LEMMA TablesFit ==
    ASSUME RegistryInv, PlaceInv, Keeps, UNCHANGED <<rows, given, watches>>, crossed \subseteq crossed'
    PROVE  RowsFit' /\ GivenIsFirst' /\ GivenWatched'
<1>1. RowsFit'
  <2>1. \A r \in rows : r.account \in Accounts /\ accounts[r.account].index # NoIndex
    BY Zenon DEF RegistryInv, Registered, Rows, Owned
  <2> QED
    BY <2>1, Zenon DEF PlaceInv, RowsFit, KeyNamesHolder, Keeps
<1>2. \A g \in given : /\ TenantOf[g.account] \in Tenants
                       /\ accounts'[g.account].index = accounts[g.account].index
  BY Zenon DEF RegistryInv, Created, Keeps, Tenants
<1>3. GivenIsFirst'
  BY <1>2, Zenon DEF PlaceInv, GivenIsFirst, FirstAddress, Keeps
<1>4. GivenWatched'
  BY <1>2, Zenon DEF PlaceInv, GivenWatched, GivenStaysWatched, Watched, Keeps
<1> QED
  BY <1>1, <1>3, <1>4, Zenon

\* A step of a caller that leaves the address rows alone.
LEMMA CallerMoves ==
    ASSUME RegistryInv, PlaceInv, Keeps, UNCHANGED <<rows, given, watches>>, crossed \subseteq crossed',
           NEW c \in Callers, NEW h, hands' = [hands EXCEPT ![c] = h],
           Fits(accounts', rows', crossed', h),
           Asking(h) =>
             \/ Asking(hands[c]) /\ SamePlace(h, hands[c])
             \/ \A d \in Callers : Asking(hands[d]) /\ SamePlace(h, hands[d]) => Place(h) \in crossed'
    PROVE  PlaceInv'
BY CallerFits, TablesFit, Zenon DEF PlaceInv

\* A caller that is free, or at an account, holds no place.
LEMMA FreeFits ==
    ASSUME NEW acc, NEW table, NEW cross, NEW h, h.pc \in {"idle", "index"}
    PROVE  Fits(acc, table, cross, h) /\ ~ Asking(h)
BY Zenon DEF Fits, KeyedStates, Asking

\* A step after which its caller is free.
LEMMA CallerLeaves ==
    ASSUME RegistryInv, PlaceInv, Keeps, UNCHANGED <<rows, given, watches>>, crossed \subseteq crossed',
           NEW c \in Callers, Idle(c)
    PROVE  PlaceInv'
<1>1. NoHand.pc \in {"idle", "index"}
  BY Zenon DEF NoHand
<1>2. Fits(accounts', rows', crossed', NoHand) /\ ~ Asking(NoHand)
  BY <1>1, FreeFits
<1>3. hands' = [hands EXCEPT ![c] = NoHand]
  BY Zenon DEF Idle
<1> QED
  BY <1>2, <1>3, CallerMoves, Zenon

\* A caller goes on with the key it has.
LEMMA KeyedMoves ==
    ASSUME RegistryInv, PlaceInv, Keeps, UNCHANGED <<rows, given, watches, crossed>>,
           NEW c \in Callers, hands[c].pc \in KeyedStates,
           NEW h, hands' = [hands EXCEPT ![c] = h],
           h.pc \in KeyedStates, SamePlace(h, hands[c]), h.key = hands[c].key
    PROVE  PlaceInv'
<1>1. Asking(hands[c])
  BY Zenon DEF Asking, KeyedStates
<1>2. Fits(accounts', rows', crossed', hands[c])
  BY FitsKept, Zenon DEF PlaceInv, CallersFit
<1>3. Fits(accounts', rows', crossed', h)
  BY <1>2, Zenon DEF Fits, KeyedStates, SamePlace, Place, KeyNamesHolder
<1> QED
  BY <1>1, <1>3, CallerMoves, Zenon

\* UpsertAccount's statements do not concern addresses.
LEMMA AccountPlaces ==
    ASSUME RegistryInv, PlaceInv, NEW c \in Callers, UpsertAccountInsert(c) \/ UpsertAccountIndex(c)
    PROVE  PlaceInv'
<1>1. UNCHANGED <<rows, given, watches, crossed, seeds, rotated, tenantKeys>>
  BY Zenon DEF UpsertAccountInsert, UpsertAccountIndex, signer, history
<1>2. Indices
  BY Zenon DEF RegistryInv
<1>3. CASE UpsertAccountInsert(c)
  <2>1. PICK a \in Accounts, st \in {"ACTIVE", "DISABLED"} :
          /\ \/ accounts' = [accounts EXCEPT ![a].id = nextId, ![a].status = st]
             \/ accounts' = [accounts EXCEPT ![a].status = st]
          /\ hands' = [hands EXCEPT ![c] = [pc |-> "index", account |-> a]]
    BY <1>3, Zenon DEF UpsertAccountInsert
  <2>2. Keeps
    BY <1>1, <1>2, <2>1, ZenonT(60) DEF Keeps, Indices, AccountRows
  <2> DEFINE h == [pc |-> "index", account |-> a]
  <2>3. h.pc \in {"idle", "index"}
    BY Zenon
  <2> HIDE DEF h
  <2>4. Fits(accounts', rows', crossed', h) /\ ~ Asking(h)
    BY <2>3, FreeFits
  <2>5. hands' = [hands EXCEPT ![c] = h]
    BY <2>1, Zenon DEF h
  <2> QED
    BY <1>1, <2>2, <2>4, <2>5, CallerMoves, Zenon
<1>4. CASE UpsertAccountIndex(c)
  <2>1. Keeps
    BY <1>1, <1>2, <1>4, Zenon DEF Keeps, Indices, AccountRows, UpsertAccountIndex, Indexed
  <2> QED
    BY <1>1, <1>4, <2>1, CallerLeaves, Zenon DEF UpsertAccountIndex
<1> QED
  BY <1>3, <1>4, Zenon

\* CreateAddress takes up a place; if another request is at it, it is crossed.
LEMMA BeginPlaces ==
    ASSUME RegistryInv, PlaceInv, NEW c \in Callers, Begin(c)
    PROVE  PlaceInv'
<1>1. PICK a \in Accounts, p \in Places, coin \in Coins :
        /\ hands' = [hands EXCEPT ![c] = [pc |-> "look", account |-> a, place |-> p, coin |-> coin]]
        /\ crossed' = crossed \cup {w \in {<<a, p>>} : \E d \in Callers : AsksFor(d, w)}
  BY Zenon DEF Begin
<1> DEFINE h == [pc |-> "look", account |-> a, place |-> p, coin |-> coin]
<1>2. h.pc = "look" /\ h.account = a /\ h.place = p
  BY Zenon
<1>3. hands' = [hands EXCEPT ![c] = h]
  BY <1>1, Zenon
<1> HIDE DEF h
<1>4. UNCHANGED <<registryTables, seeds, rotated, given>>
  BY Zenon DEF Begin, signer
<1>5. Keeps
  BY <1>4, NothingWritten, Zenon
<1>6. Fits(accounts', rows', crossed', h)
  BY <1>2, Zenon DEF Fits, KeyedStates
<1>7. ASSUME NEW d \in Callers, Asking(hands[d]), SamePlace(h, hands[d]) PROVE Place(h) \in crossed'
  BY <1>1, <1>2, <1>7, Zenon DEF Asking, AsksFor, SamePlace, Place
<1> QED
  BY <1>1, <1>3, <1>4, <1>5, <1>6, <1>7, CallerMoves, Zenon DEF registryTables

\* PrepareAddress: nothing found means no row, a row found has the first key.
LEMMA LookPlaces ==
    ASSUME RegistryInv, PlaceInv, NEW c \in Callers, Look(c)
    PROVE  PlaceInv'
<1>1. hands[c] \in [pc : {"look", "allocate"}, account : Accounts, place : Places, coin : Coins]
  BY AskingHand, Zenon DEF Look, At
<1>2. UNCHANGED <<registryTables, seeds, rotated, given, crossed>>
  BY Zenon DEF Look, signer, history
<1>3. Keeps /\ Asking(hands[c])
  BY <1>1, <1>2, NothingWritten, Zenon DEF Asking
<1>4. CASE RowsAt(hands[c].account, hands[c].place) = {} /\ Goto(c, "allocate")
  <2> DEFINE h == [hands[c] EXCEPT !.pc = "allocate"]
  <2>1. h.pc = "allocate" /\ h.account = hands[c].account /\ h.place = hands[c].place
    BY <1>1, Zenon
  <2>2. hands' = [hands EXCEPT ![c] = h]
    BY <1>4, Zenon DEF Goto
  <2> HIDE DEF h
  <2>3. \A r \in rows : ~ SamePlace(r, h)
    BY <1>4, <2>1, Zenon DEF RowsAt, SamePlace
  <2>4. Fits(accounts', rows', crossed', h)
    BY <1>2, <2>1, <2>3, Zenon DEF Fits, KeyedStates, registryTables
  <2> QED
    BY <1>2, <1>3, <2>1, <2>2, <2>4, CallerMoves, Zenon DEF SamePlace, registryTables
<1>5. CASE \E r \in RowsAt(hands[c].account, hands[c].place) :
             hands' = [hands EXCEPT ![c] = Keyed(hands[c], r.key, TRUE, r.pub, r.addr)]
  <2>1. PICK r \in RowsAt(hands[c].account, hands[c].place) :
          hands' = [hands EXCEPT ![c] = Keyed(hands[c], r.key, TRUE, r.pub, r.addr)]
    BY <1>5, Zenon
  <2> DEFINE h == Keyed(hands[c], r.key, TRUE, r.pub, r.addr)
  <2>2. h.pc = "derive" /\ h.account = hands[c].account /\ h.place = hands[c].place /\ h.key = r.key
    BY Zenon DEF Keyed
  <2>3. hands' = [hands EXCEPT ![c] = h]
    BY <2>1, Zenon
  <2> HIDE DEF h
  <2>4. r \in rows /\ r.account = h.account /\ r.place = h.place
    BY <2>2, Zenon DEF RowsAt
  <2>5. Fits(accounts', rows', crossed', h)
    BY <1>2, <2>2, <2>4, SMTT(60)
       DEF Fits, KeyedStates, registryTables, PlaceInv, RowsFit, KeyNamesHolder, Place
  <2> QED
    BY <1>2, <1>3, <2>2, <2>3, <2>5, CallerMoves, Zenon DEF SamePlace, registryTables
<1> QED
  BY <1>4, <1>5, Zenon DEF Look

\* PrepareAddress: with no row at the place the index is 0.
LEMMA AllocatePlaces ==
    ASSUME RegistryInv, PlaceInv, NEW c \in Callers, Allocate(c)
    PROVE  PlaceInv'
<1>1. hands[c] \in [pc : {"look", "allocate"}, account : Accounts, place : Places, coin : Coins]
      /\ hands[c].pc = "allocate"
  BY AskingHand, Zenon DEF Allocate, At
<1>2. UNCHANGED <<registryTables, seeds, rotated, given, crossed>>
  BY Zenon DEF Allocate, signer, history
<1>3. Keeps /\ Asking(hands[c])
  BY <1>1, <1>2, NothingWritten, Zenon DEF Asking
<1> DEFINE index == accounts[hands[c].account].index
<1>4. CASE Idle(c)
  BY <1>2, <1>3, <1>4, CallerLeaves, Zenon DEF registryTables
<1>5. CASE \E n \in NextAddressIndex(hands[c].account, hands[c].place) :
             hands' = [hands EXCEPT ![c] =
                 Keyed(hands[c], BuildHDKeyID(hands[c].place[1], index, n), FALSE, NoSeed, NoSeed)]
  <2>1. PICK n \in NextAddressIndex(hands[c].account, hands[c].place) :
          hands' = [hands EXCEPT ![c] =
              Keyed(hands[c], BuildHDKeyID(hands[c].place[1], index, n), FALSE, NoSeed, NoSeed)]
    BY <1>5, Zenon
  <2> DEFINE key == BuildHDKeyID(hands[c].place[1], index, n)
             h == Keyed(hands[c], key, FALSE, NoSeed, NoSeed)
  <2>2. key[1] = hands[c].place[1] /\ key[2] = index /\ key[3] = n
    BY Zenon DEF BuildHDKeyID
  <2> HIDE DEF key
  <2>3. h.pc = "derive" /\ h.account = hands[c].account /\ h.place = hands[c].place /\ h.key = key
    BY Zenon DEF Keyed
  <2>4. hands' = [hands EXCEPT ![c] = h]
    BY <2>1, Zenon DEF key
  <2> HIDE DEF h
  <2>5. Place(hands[c]) \notin crossed => n = 0
    <3>1. Place(hands[c]) \notin crossed => RowsAt(hands[c].account, hands[c].place) = {}
      BY <1>1, Zenon DEF PlaceInv, CallersFit, Fits, RowsAt, SamePlace
    <3> QED
      BY <3>1, Zenon DEF NextAddressIndex
  <2>6. Fits(accounts', rows', crossed', h)
    BY <1>2, <2>2, <2>3, <2>5, Zenon DEF Fits, KeyedStates, registryTables, KeyNamesHolder, Place
  <2> QED
    BY <1>2, <1>3, <2>3, <2>4, <2>6, CallerMoves, Zenon DEF SamePlace, registryTables
<1> QED
  BY <1>4, <1>5, Zenon DEF Allocate

\* With or without the seed, the caller goes on with its key or is free.
LEMMA AfterDerive ==
    ASSUME RegistryInv, NEW c \in Callers, hands[c].pc \in {"derive", "provision"},
           NEW h, h \in {WithoutKey(c), [hands[c] EXCEPT !.pc = "provision"]} \/ \E s : h = WithKey(c, s)
    PROVE  h = NoHand \/ (h.pc \in KeyedStates /\ SamePlace(h, hands[c]) /\ h.key = hands[c].key)
<1>1. hands[c] \in KeyedHands
  BY KeyedHasIndex, Zenon DEF KeyedStates
<1>2. CASE h = WithoutKey(c)
  BY <1>1, <1>2, Zenon DEF WithoutKey, KeyedHands, KeyedStates, SamePlace
<1>3. CASE h = [hands[c] EXCEPT !.pc = "provision"]
  BY <1>1, <1>3, Zenon DEF KeyedHands, KeyedStates, SamePlace
<1>4. CASE \E s : h = WithKey(c, s)
  <2>1. PICK s : h = WithKey(c, s)
    BY <1>4, Zenon
  <2> QED
    BY <1>1, <2>1, Zenon DEF WithKey, KeyedHands, KeyedStates, SamePlace
<1> QED
  BY <1>2, <1>3, <1>4, Zenon

\* DeriveKey, both halves.
LEMMA DerivePlaces ==
    ASSUME RegistryInv, PlaceInv, NEW c \in Callers, Derive(c) \/ Provision(c)
    PROVE  PlaceInv'
<1>1. hands[c].pc \in {"derive", "provision"} /\ hands[c].pc \in KeyedStates
  BY Zenon DEF Derive, Provision, At, KeyedStates
<1>2. UNCHANGED <<registryTables, rotated, given, crossed>>
  BY Zenon DEF Derive, Provision, history
<1>3. Keeps
  <2>1. CASE Derive(c)
    BY <1>2, <2>1, NothingWritten, Zenon DEF Derive
  <2>2. CASE Provision(c)
    <3>1. PICK s \in unused : ProvisionSeed(Tenant(c), s)
      BY <2>2, Zenon DEF Provision
    <3> QED
      BY <1>2, <3>1, Zenon DEF ProvisionSeed, Keeps, registryTables, RegistryInv, Slots
  <2> QED
    BY <2>1, <2>2, Zenon
<1>4. PICK h : /\ h \in {WithoutKey(c), [hands[c] EXCEPT !.pc = "provision"]} \/ \E s : h = WithKey(c, s)
               /\ hands' = [hands EXCEPT ![c] = h]
  <2>1. CASE Derive(c)
    <3>1. CASE seeds[Tenant(c)] # NoSeed
      BY <2>1, <3>1, Zenon DEF Derive
    <3>2. CASE seeds[Tenant(c)] = NoSeed /\ AutoCreate
      BY <2>1, <3>2, Zenon DEF Derive
    <3>3. CASE seeds[Tenant(c)] = NoSeed /\ ~ AutoCreate
      BY <2>1, <3>3, Zenon DEF Derive
    <3> QED
      BY <3>1, <3>2, <3>3, Zenon
  <2>2. CASE Provision(c)
    BY <2>2, Zenon DEF Provision
  <2> QED
    BY <2>1, <2>2, Zenon
<1>5. h = NoHand \/ (h.pc \in KeyedStates /\ SamePlace(h, hands[c]) /\ h.key = hands[c].key)
  BY <1>1, <1>4, AfterDerive, Zenon
<1>6. CASE h = NoHand
  BY <1>2, <1>3, <1>4, <1>6, CallerLeaves, Zenon DEF Idle, registryTables
<1>7. CASE h.pc \in KeyedStates /\ SamePlace(h, hands[c]) /\ h.key = hands[c].key
  BY <1>1, <1>2, <1>3, <1>4, <1>7, KeyedMoves, Zenon DEF registryTables
<1> QED
  BY <1>5, <1>6, <1>7, Zenon

\* BindTenantKey, and a caller whose UPDATEs matched nothing.
LEMMA BindPlaces ==
    ASSUME RegistryInv, PlaceInv, NEW c \in Callers, hands[c].pc \in {"bind", "update"},
           NEW pc \in KeyedStates, Goto(c, pc), tenantKeys \subseteq tenantKeys',
           UNCHANGED <<accounts, rows, watches, given, crossed, seeds, rotated>>
    PROVE  PlaceInv'
<1>1. Keeps /\ hands[c].pc \in KeyedStates
  BY Zenon DEF Keeps, KeyedStates
<1>2. hands[c] \in KeyedHands
  BY <1>1, KeyedHasIndex, Zenon
<1> DEFINE h == [hands[c] EXCEPT !.pc = pc]
<1>3. h.pc = pc /\ SamePlace(h, hands[c]) /\ h.key = hands[c].key
  BY <1>2, Zenon DEF KeyedHands, SamePlace
<1>4. hands' = [hands EXCEPT ![c] = h]
  BY Zenon DEF Goto
<1> HIDE DEF h
<1> QED
  BY <1>1, <1>3, <1>4, KeyedMoves, Zenon

\* The commit of UpsertWatchAddress: the rows it writes are at the caller's
\* place, one of them with its address, and the rows it takes away were of the
\* same account and chain.
LEMMA CommitPlaces ==
    ASSUME RegistryInv, PlaceInv, NEW c \in Callers, hands[c].pc \in {"update", "insert"}, Watch(c),
           UNCHANGED <<nextId, tenantKeys, seeds, rotated, crossed>>,
           \A r \in rows' :
             r \in rows \/ (SamePlace(r, hands[c]) /\ r.key[1] = hands[c].key[1] /\ r.key[2] = hands[c].key[2]
                            /\ (Place(r) \notin crossed => r.key[3] = 0)),
           \E r \in rows' : SamePlace(r, hands[c]) /\ r.addr = hands[c].addr,
           \A r \in rows :
             r \in rows' \/ (r.account = hands[c].account /\ r.place[1] = hands[c].place[1]
                             /\ (r.place = hands[c].place /\ Tenant(c) \notin rotated
                                 => r.addr = hands[c].addr))
    PROVE  PlaceInv'
<1> DEFINE h == hands[c]
<1>1. /\ KeyedOK(h) /\ h \in KeyedHands /\ h.account \in Accounts
      /\ accounts[h.account].index # NoIndex /\ h.pc \in KeyedStates
  BY KeyedHasIndex, Zenon DEF KeyedStates
<1>2. Keeps
  BY <1>1, IndexedStep, Zenon DEF RegistryInv, Watch
<1>3. Owned(accounts, h) /\ Signable(seeds, rotated, h)
  BY <1>1, Zenon DEF KeyedOK
<1>4. KeyNamesHolder(accounts, h) /\ (Place(h) \notin crossed => h.key[3] = 0)
  BY <1>1, Zenon DEF PlaceInv, CallersFit, Fits
<1>5. \A d \in Callers : hands'[d] = IF d = c THEN NoHand ELSE hands[d]
  BY Zenon DEF RegistryInv, Hands, Watch, Idle
<1>6. accounts'[h.account].index = accounts[h.account].index
  BY <1>1, <1>2, Zenon DEF Keeps
<1>7. RowsFit'
  <2> SUFFICES ASSUME NEW r \in rows'
               PROVE  KeyNamesHolder(accounts', r) /\ (Place(r) \notin crossed => r.key[3] = 0)
    BY Zenon DEF RowsFit
  <2>1. CASE r \in rows
    <3>1. r.account \in Accounts /\ accounts[r.account].index # NoIndex
      BY <2>1, Zenon DEF RegistryInv, Registered, Rows, Owned
    <3>2. accounts'[r.account].index = accounts[r.account].index
      BY <1>2, <3>1, Zenon DEF Keeps
    <3> QED
      BY <2>1, <3>2, Zenon DEF PlaceInv, RowsFit, KeyNamesHolder
  <2>2. CASE r \notin rows
    BY <1>4, <1>6, <2>2, Zenon DEF KeyNamesHolder, SamePlace
  <2> QED
    BY <2>1, <2>2, Zenon
<1>8. CallersFit'
  <2> SUFFICES ASSUME NEW d \in Callers PROVE Fits(accounts', rows', crossed', hands'[d])
    BY ZenonT(60) DEF CallersFit
  <2>1. CASE d = c
    BY <1>5, <2>1, SMTT(60) DEF NoHand, Fits, KeyedStates
  <2>2. CASE d # c
    <3>1. Fits(accounts, rows, crossed, hands[d])
      BY Zenon DEF PlaceInv, CallersFit
    <3>2. ASSUME hands[d].pc = "allocate", Place(hands[d]) \notin crossed, NEW r \in rows',
                 SamePlace(r, hands[d])
          PROVE  FALSE
      <4>1. r \notin rows
        BY <3>1, <3>2, Zenon DEF Fits
      <4>2. SamePlace(h, hands[d]) /\ Asking(h) /\ Asking(hands[d])
        BY <3>2, <4>1, Zenon DEF SamePlace, Asking
      <4> QED
        BY <2>2, <3>2, <4>2, Zenon DEF PlaceInv, AskedAlone, Place, SamePlace
    <3>3. ASSUME hands[d].pc \in KeyedStates
          PROVE  accounts'[hands[d].account].index = accounts[hands[d].account].index
      BY <1>2, <3>3, KeyedHasIndex, ZenonT(60) DEF Keeps
    <3> QED
      BY <1>5, <2>2, <3>1, <3>2, <3>3, Zenon DEF Fits, KeyNamesHolder
  <2> QED
    BY <2>1, <2>2, Zenon
<1>9. AskedAlone'
  BY <1>5, SMTT(60) DEF PlaceInv, AskedAlone, NoHand, Asking
<1> DEFINE w == [account |-> h.account, place |-> h.place, coin |-> h.coin, addr |-> h.addr]
<1>10. given' = given \cup {w} /\ watches' = watches \cup {w}
  BY Zenon DEF Watch
<1>11. w.account = h.account /\ w.place = h.place /\ w.addr = h.addr
  BY Zenon
<1> HIDE DEF w
<1>12. GivenIsFirst'
  <2>1. ASSUME NEW g \in given, Place(g) \notin crossed, TenantOf[g.account] \notin rotated
        PROVE  seeds[TenantOf[g.account]] # NoSeed /\ g.addr = FirstAddress(accounts', seeds, g)
    <3>1. accounts'[g.account].index = accounts[g.account].index
      BY <1>2, Zenon DEF RegistryInv, Created, Keeps
    <3> QED
      BY <2>1, <3>1, Zenon DEF PlaceInv, GivenIsFirst, FirstAddress
  <2>2. ASSUME Place(w) \notin crossed, TenantOf[w.account] \notin rotated
        PROVE  seeds[TenantOf[w.account]] # NoSeed /\ w.addr = FirstAddress(accounts', seeds, w)
    <3>1. h.key \in KeyIds /\ h.key[3] = 0
      BY <1>1, <1>4, <1>11, <2>2, ZenonT(60) DEF KeyedHands, Place
    <3>2. h.key = <<h.place[1], accounts'[h.account].index, 0>>
      BY <1>4, <1>6, <3>1, SMTT(60) DEF KeyNamesHolder, KeyIds
    <3>3. seeds[TenantOf[h.account]] # NoSeed /\ h.pub = Derived(seeds[TenantOf[h.account]], h.key)
      BY <1>3, <1>11, <2>2, Zenon DEF Signable
    <3>4. h.addr = ConvertAddress(h.pub, h.place)
      BY <1>3, Zenon DEF Owned
    <3> QED
      BY <1>11, <3>2, <3>3, <3>4, Zenon DEF FirstAddress
  <2> QED
    BY <1>10, <2>1, <2>2, Zenon DEF GivenIsFirst
<1>13. GivenWatched'
  <2>1. given' \subseteq watches'
    BY <1>10, Zenon DEF PlaceInv, GivenWatched
  <2>2. ASSUME NEW g \in given',
               \A k \in given' : k.account = g.account /\ k.place[1] = g.place[1] => k.place = g.place,
               TenantOf[g.account] \notin rotated
        PROVE  \E r \in rows' : r.account = g.account /\ r.place = g.place /\ r.addr = g.addr
    <3>1. CASE g = w
      BY <1>11, <3>1, Zenon DEF SamePlace
    <3>2. CASE g \in given
      <4>1. PICK r \in rows : r.account = g.account /\ r.place = g.place /\ r.addr = g.addr
        BY <1>10, <2>2, <3>2, Zenon DEF PlaceInv, GivenWatched, GivenStaysWatched, Watched
      <4>2. CASE r \in rows'
        BY <4>1, <4>2, Zenon
      <4>3. CASE r \notin rows'
        <5>1. r.account = h.account /\ r.place[1] = h.place[1]
          BY <4>3, Zenon
        <5>2. h.place = g.place
          BY <1>10, <1>11, <2>2, <4>1, <5>1, ZenonT(60)
        <5>3. r.addr = h.addr
          BY <2>2, <4>1, <4>3, <5>1, <5>2, Zenon DEF Tenant
        <5> QED
          BY <4>1, <5>1, <5>2, <5>3, Zenon DEF SamePlace
      <4> QED
        BY <4>2, <4>3, Zenon
    <3> QED
      BY <1>10, <2>2, <3>1, <3>2, Zenon
  <2> QED
    BY <2>1, <2>2, Zenon DEF GivenWatched, GivenStaysWatched, Watched
<1> QED
  BY <1>7, <1>8, <1>9, <1>12, <1>13, Zenon DEF PlaceInv

\* upsertWalletAddressTx, the UPDATEs: a row found by its key is of the
\* caller's account and chain.
LEMMA UpdatePlaces ==
    ASSUME RegistryInv, PlaceInv, NEW c \in Callers, UpdateAddress(c)
    PROVE  PlaceInv'
<1>1. hands[c].pc = "update"
  BY Zenon DEF UpdateAddress, At
<1>2. UNCHANGED <<nextId, tenantKeys, seeds, rotated, crossed>>
  BY Zenon DEF UpdateAddress, signer
<1>3. CASE Goto(c, "insert") /\ UNCHANGED <<accounts, rows, watches, given>>
  BY <1>1, <1>2, <1>3, BindPlaces, Zenon DEF KeyedStates
<1>4. CASE /\ UpdatedRows(c) # {}
           /\ rows' = (rows \ UpdatedRows(c)) \cup {Rewritten(r, hands[c]) : r \in UpdatedRows(c)}
           /\ Watch(c)
  <2> DEFINE h == hands[c]
  <2>1. /\ KeyedOK(h) /\ h \in KeyedHands /\ h.account \in Accounts
        /\ accounts[h.account].index # NoIndex /\ h.pc \in KeyedStates
    BY <1>1, KeyedHasIndex, Zenon DEF KeyedStates
  <2>2. Owned(accounts, h) /\ Signable(seeds, rotated, h)
    BY <1>1, <2>1, Zenon DEF KeyedOK
  <2>3. KeyNamesHolder(accounts, h) /\ (Place(h) \notin crossed => h.key[3] = 0)
    BY <2>1, Zenon DEF PlaceInv, CallersFit, Fits
  <2>4. ASSUME NEW r \in UpdatedRows(c)
        PROVE  /\ r \in rows /\ r \in Rows
               /\ Owned(accounts, r) /\ Signable(seeds, rotated, r) /\ KeyNamesHolder(accounts, r)
               /\ Place(r) \notin crossed => r.key[3] = 0
               /\ r.key = h.key \/ (r.account = h.account /\ r.place = h.place /\ r.addr = h.addr)
    BY Zenon
       DEF RegistryInv, Registered, PlaceInv, RowsFit, UpdatedRows, SameKeyRows, SameAddressRows,
           RowsAt
  <2>5. ASSUME NEW r \in UpdatedRows(c)
        PROVE  r.account = h.account /\ r.place[1] = h.place[1]
               /\ r.key[1] = h.key[1] /\ r.key[2] = h.key[2]
    <3>1. CASE r.key = h.key
      <4>1. r.account \in Accounts /\ accounts[r.account].index = accounts[h.account].index
        BY <2>3, <2>4, <3>1, Zenon DEF KeyNamesHolder, Rows
      <4>2. r.account = h.account
        BY <2>1, <4>1, Zenon DEF RegistryInv, Indices
      <4> QED
        BY <2>3, <2>4, <3>1, <4>2, Zenon DEF KeyNamesHolder
    <3>2. CASE r.account = h.account /\ r.place = h.place /\ r.addr = h.addr
      BY <2>3, <2>4, <3>2, ZenonT(60) DEF KeyNamesHolder
    <3> QED
      BY <2>4, <3>1, <3>2, Zenon
  <2>6. ASSUME NEW r \in UpdatedRows(c), r.place = h.place, Tenant(c) \notin rotated
        PROVE  r.addr = h.addr
    BY <2>2, <2>4, <2>5, <2>6, SMTT(60) DEF Owned, Signable, Tenant
  <2>7. ASSUME NEW r \in UpdatedRows(c)
        PROVE  /\ SamePlace(Rewritten(r, h), h) /\ Rewritten(r, h).addr = h.addr
               /\ Rewritten(r, h).key = r.key
    BY <2>4, ZenonT(60) DEF Rewritten, Rows, SamePlace
  <2>8. ASSUME NEW q \in rows', q \notin rows
        PROVE  SamePlace(q, h) /\ q.key[1] = h.key[1] /\ q.key[2] = h.key[2]
               /\ (Place(q) \notin crossed => q.key[3] = 0)
    <3>1. PICK r \in UpdatedRows(c) : q = Rewritten(r, h)
      BY <1>4, <2>8, Zenon
    <3>2. SamePlace(q, h) /\ q.key = r.key
      BY <2>7, <3>1, Zenon
    <3>3. Place(q) \notin crossed => r.key[3] = 0
      BY <2>3, <2>4, <3>2, Zenon DEF SamePlace, Place
    <3> QED
      BY <2>5, <3>2, <3>3, SMTT(60)
  <2>9. \E r \in rows' : SamePlace(r, h) /\ r.addr = h.addr
    <3>1. PICK r \in UpdatedRows(c) : TRUE
      BY <1>4, Zenon
    <3>2. Rewritten(r, h) \in rows'
      BY <1>4, Zenon
    <3> QED
      BY <2>7, <3>2, Zenon
  <2>10. \A r \in rows :
           r \in rows' \/ (r.account = h.account /\ r.place[1] = h.place[1]
                           /\ (r.place = h.place /\ Tenant(c) \notin rotated => r.addr = h.addr))
    BY <1>4, <2>5, <2>6, Zenon
  <2> QED
    BY <1>1, <1>2, <1>4, <2>8, <2>9, <2>10, CommitPlaces, Zenon
<1> QED
  BY <1>3, <1>4, Zenon DEF UpdateAddress

\* The INSERT.
LEMMA InsertPlaces ==
    ASSUME RegistryInv, PlaceInv, NEW c \in Callers, InsertAddress(c)
    PROVE  PlaceInv'
<1>1. hands[c].pc = "insert" /\ hands[c].pc \in KeyedStates
  BY Zenon DEF InsertAddress, At, KeyedStates
<1>2. UNCHANGED <<nextId, tenantKeys, seeds, rotated, crossed>>
  BY Zenon DEF InsertAddress, signer
<1>3. CASE Idle(c) /\ UNCHANGED <<accounts, rows, watches, given>>
  <2>1. Keeps
    BY <1>2, <1>3, Zenon DEF Keeps
  <2> QED
    BY <1>2, <1>3, <2>1, CallerLeaves, Zenon
<1> DEFINE w == [account |-> hands[c].account, place |-> hands[c].place, coin |-> hands[c].coin,
                 key |-> hands[c].key, pub |-> hands[c].pub, addr |-> hands[c].addr]
<1>4. CASE rows' = rows \cup {w} /\ Watch(c)
  <2>1. SamePlace(w, hands[c]) /\ w.key = hands[c].key /\ w.addr = hands[c].addr
    BY Zenon DEF SamePlace
  <2> HIDE DEF w
  <2>2. Place(w) \notin crossed => w.key[3] = 0
    BY <1>1, <2>1, Zenon DEF PlaceInv, CallersFit, Fits, SamePlace, Place
  <2> QED
    BY <1>1, <1>2, <1>4, <2>1, <2>2, CommitPlaces, Zenon
<1> QED
  BY <1>3, <1>4, Zenon DEF InsertAddress

\* The operator, the window of the rate limit, and a step of no caller.
LEMMA OthersPlaces ==
    ASSUME RegistryInv, PlaceInv, Operator \/ WindowOver \/ UNCHANGED registryVars
    PROVE  PlaceInv'
<1>1. UNCHANGED <<registryTables, hands, given, crossed>>
  BY Zenon DEF Operator, WindowOver, registryVars, registryTables, history
<1>2. Keeps
  <2>1. CASE Operator
    <3>1. PICK t \in Tenants, s \in unused :
            /\ \/ seeds[t] = NoSeed /\ rotated' = rotated
               \/ seeds[t] # NoSeed /\ rotated' = rotated \cup {t}
            /\ seeds' = [seeds EXCEPT ![t] = s]
      BY <2>1, Zenon DEF Operator
    <3> QED
      BY <1>1, <3>1, Zenon DEF Keeps, registryTables, RegistryInv, Slots
  <2>2. CASE WindowOver \/ UNCHANGED registryVars
    BY <1>1, <2>2, NothingWritten, Zenon DEF WindowOver, registryVars
  <2> QED
    BY <2>1, <2>2, Zenon
<1>3. RowsFit' /\ GivenIsFirst' /\ GivenWatched'
  BY <1>1, <1>2, TablesFit, Zenon DEF registryTables
<1>4. CallersFit' /\ AskedAlone'
  BY <1>1, Zenon DEF registryTables, PlaceInv, CallersFit, AskedAlone
<1> QED
  BY <1>3, <1>4, Zenon DEF PlaceInv

\* Every step keeps the second invariant.
LEMMA PlaceInvNext == RegistryInv /\ PlaceInv /\ [RegistryNext]_registryVars => PlaceInv'
<1> SUFFICES ASSUME RegistryInv, PlaceInv, [RegistryNext]_registryVars PROVE PlaceInv'
  BY Zenon
<1>1. ASSUME NEW c \in Callers, BindTenantKey(c) PROVE PlaceInv'
  <2>1. /\ hands[c].pc = "bind" /\ Goto(c, "update") /\ tenantKeys \subseteq tenantKeys'
        /\ UNCHANGED <<accounts, rows, watches, given, crossed, seeds, rotated>>
    BY <1>1, Zenon DEF BindTenantKey, At, signer, history
  <2> QED
    BY <2>1, BindPlaces, Zenon DEF KeyedStates
<1>2. ASSUME NEW c \in Callers, Abort(c) PROVE PlaceInv'
  <2>1. UNCHANGED <<registryTables, seeds, rotated, given, crossed>> /\ Idle(c)
    BY <1>2, Zenon DEF Abort, signer, history
  <2>2. Keeps
    BY <2>1, NothingWritten, Zenon
  <2> QED
    BY <2>1, <2>2, CallerLeaves, Zenon DEF registryTables
<1>3. ASSUME NEW c \in Callers, Derive(c) \/ Provision(c) PROVE PlaceInv'
  BY <1>3, DerivePlaces, Zenon
<1>4. ASSUME NEW c \in Callers,
             \/ UpsertAccountInsert(c) \/ UpsertAccountIndex(c)
             \/ Begin(c) \/ Look(c) \/ Allocate(c) \/ UpdateAddress(c) \/ InsertAddress(c)
      PROVE  PlaceInv'
  BY <1>4, AccountPlaces, BeginPlaces, LookPlaces, AllocatePlaces, UpdatePlaces, InsertPlaces, Zenon
<1>5. CASE Operator \/ WindowOver \/ UNCHANGED registryVars
  BY <1>5, OthersPlaces, Zenon
<1> QED
  BY <1>1, <1>2, <1>3, <1>4, <1>5, Zenon DEF RegistryNext

\* Both invariants hold throughout.
THEOREM PlaceInvHolds == RegistrySpec => [](RegistryInv /\ PlaceInv)
<1>1. RegistryInit => PlaceInv
  <2> SUFFICES ASSUME RegistryInit PROVE PlaceInv
    BY Zenon
  <2>1. \A c \in Callers : hands[c].pc = "idle"
    BY Zenon DEF RegistryInit, NoHand
  <2>2. CallersFit /\ AskedAlone
    BY <2>1, Zenon DEF CallersFit, Fits, AskedAlone, Asking, KeyedStates
  <2>3. RowsFit /\ GivenIsFirst /\ GivenWatched
    BY Zenon DEF RegistryInit, RowsFit, GivenIsFirst, GivenWatched, GivenStaysWatched
  <2> QED
    BY <2>2, <2>3, Zenon DEF PlaceInv
<1> QED
  BY <1>1, RegistryInvInit, RegistryInvNext, PlaceInvNext, PTL DEF RegistrySpec

\* CreateAddress gives an account one address per chain and network, however
\* often it asks and for whatever coins, unless it asks twice at a time or an
\* operator replaces the seed.
THEOREM OneAddressForEachPlace == RegistrySpec => []OneAddressPerPlace
<1>1. PlaceInv => OneAddressPerPlace
  BY Zenon DEF PlaceInv, GivenIsFirst, OneAddressPerPlace, FirstAddress, Place
<1> QED
  BY <1>1, PlaceInvHolds, PTL

\* The scanners go on watching an address that was given out, unless its
\* account is given one on another network of the chain.
THEOREM GivenAddressesStayWatched == RegistrySpec => []GivenStaysWatched
<1>1. PlaceInv => GivenStaysWatched
  BY Zenon DEF PlaceInv, GivenWatched
<1> QED
  BY <1>1, PlaceInvHolds, PTL

-----------------------------------------------------------------------------
(* The scan by signatures.  A cursor has gone past two stretches of heights,  *)
(* and nothing owed is in either: what is up to the last watermark, and what  *)
(* the walk back from the next one has shown.                                 *)

Fin == INSTANCE FiniteSetTheorems

\* The theorems on finite sets speak of this module's Cardinality.
LEMMA FiniteAgree ==
    /\ \A S : Fin!IsFiniteSet(S) <=> IsFiniteSet(S)
    /\ \A S : Fin!Cardinality(S) = Cardinality(S)
<1>1. \A S : Fin!IsFiniteSet(S) <=> IsFiniteSet(S)
  BY Zenon DEF Fin!IsFiniteSet, IsFiniteSet
<1>2. \A S : Fin!Cardinality(S) = Cardinality(S)
  BY Zenon DEF Fin!Cardinality, Cardinality
<1> QED BY <1>1, <1>2, Zenon

\* A part of a finite set is finite and no larger.
LEMMA PartIsSmaller ==
    ASSUME NEW S, IsFiniteSet(S), NEW T \in SUBSET S
    PROVE  /\ IsFiniteSet(T) /\ Cardinality(T) \in Nat /\ Cardinality(S) \in Nat
           /\ Cardinality(T) <= Cardinality(S)
<1>1. Fin!IsFiniteSet(S)
  BY FiniteAgree, Zenon
<1>2. Fin!IsFiniteSet(T) /\ Fin!Cardinality(T) <= Fin!Cardinality(S)
  BY <1>1, Fin!FS_Subset, Zenon
<1>3. Fin!Cardinality(T) \in Nat /\ Fin!Cardinality(S) \in Nat
  BY <1>1, <1>2, Fin!FS_CardinalityType, Zenon
<1> QED BY <1>2, <1>3, FiniteAgree, Zenon

\* A set of heights has a lowest one.
LEMMA LeastHeight ==
    ASSUME NEW T \in SUBSET Nat, T # {}
    PROVE  \E m \in T : \A x \in T : m <= x
<1>1. PICK R : Fin!IsWellFoundedOn(R, Nat) /\ \A x, m \in Nat : <<x, m>> \in R <=> x < m
  <2>1. \A x, m \in Nat : <<x, m>> \in Fin!OpToRel(<, Nat) <=> x < m
    BY Zenon DEF Fin!OpToRel
  <2> QED BY <2>1, Fin!NatLessThanWellFounded, Zenon
<1>2. T \subseteq Nat
  BY Zenon
<1>3. PICK m \in T : \A x \in T : ~ (<<x, m>> \in R)
  <2>1. Fin!IsWellFoundedOn(R, Nat) /\ T \subseteq Nat /\ T # {}
    BY <1>1, <1>2, Zenon
  <2> QED BY <2>1, Fin!WFMin, Zenon
<1>4. \A x \in T : ~ (x < m)
  BY <1>1, <1>2, <1>3, Zenon
<1> QED BY <1>2, <1>4

\* Heights up to a bound have a highest one.
LEMMA GreatestHeight ==
    ASSUME NEW T \in SUBSET Nat, T # {}, NEW n \in Nat, \A x \in T : x <= n
    PROVE  \E m \in T : \A x \in T : x <= m
<1> DEFINE U == {y \in Nat : \E x \in T : y = n - x}
<1>1. U \in SUBSET Nat /\ U # {}
  <2>1. PICK x \in T : TRUE
    BY Zenon
  <2>2. n - x \in U
    BY <2>1
  <2> QED BY <2>2, Zenon
<1> HIDE DEF U
<1>2. PICK u \in U : \A y \in U : u <= y
  BY <1>1, LeastHeight, Zenon
<1>3. PICK m \in T : u = n - m
  BY Zenon DEF U
<1>4. ASSUME NEW x \in T PROVE x <= m
  <2>1. n - x \in U
    BY DEF U
  <2> QED BY <1>2, <1>3, <2>1, SMTT(60)
<1> QED BY <1>4, Zenon

\* The lowest and the highest of some transfers.
LEMMA HeightsAre ==
    ASSUME mined \in [Deposits -> Nat], NEW S \in SUBSET Deposits, S # {},
           NEW n \in Nat, \A d \in S : mined[d] <= n
    PROVE  /\ \E d \in S : mined[d] = Highest(S)
           /\ \E d \in S : mined[d] = Lowest(S)
           /\ \A d \in S : Lowest(S) <= mined[d] /\ mined[d] <= Highest(S)
<1> DEFINE T == Heights(S)
<1>1. T \in SUBSET Nat /\ T # {} /\ (\A x \in T : x <= n) /\ \A d \in S : mined[d] \in T
  BY Zenon DEF Heights
<1>2. \A x \in T : \E d \in S : mined[d] = x
  BY Zenon DEF Heights
<1> HIDE DEF T
<1>3. \E h \in T : \A x \in T : x <= h
  BY <1>1, GreatestHeight, Zenon
<1>4. Highest(S) \in T /\ \A x \in T : x <= Highest(S)
  BY <1>3, Zenon DEF Highest, T
<1>5. \E h \in T : \A x \in T : h <= x
  BY <1>1, LeastHeight, Zenon
<1>6. Lowest(S) \in T /\ \A x \in T : Lowest(S) <= x
  BY <1>5, Zenon DEF Lowest, T
<1> QED BY <1>1, <1>2, <1>4, <1>6, ZenonT(60)

\* The k newest of some transfers.
Newest(all, k) == {d \in all : Cardinality({x \in all : mined[x] > mined[d]}) < k}

\* There is a newest if there is any; fewer than k are all; and what is above
\* one of them is one of them.
LEMMA NewestAre ==
    ASSUME mined \in [Deposits -> Nat], NEW all \in SUBSET Deposits,
           NEW n \in Nat, \A d \in all : mined[d] <= n, NEW k \in Nat \ {0}
    PROVE  /\ Newest(all, k) \subseteq all
           /\ all # {} => Newest(all, k) # {}
           /\ Cardinality(Newest(all, k)) < k => Newest(all, k) = all
           /\ \A d \in all, y \in Newest(all, k) : mined[y] <= mined[d] => d \in Newest(all, k)
<1> DEFINE N == Newest(all, k)
           Above(d) == {x \in all : mined[x] > mined[d]}
<1>1. IsFiniteSet(all) /\ \A S \in SUBSET all : S \in SUBSET Deposits
  BY ScanAssumption, PartIsSmaller, Zenon
<1>2. \A d \in all : d \in N <=> Cardinality(Above(d)) < k
  BY Zenon DEF Newest
<1>3. N \in SUBSET all
  BY Zenon DEF Newest
<1>4. \A d \in all : Above(d) \in SUBSET all /\ IsFiniteSet(Above(d)) /\ Cardinality(Above(d)) \in Nat
  BY <1>1, PartIsSmaller, Zenon
<1> HIDE DEF N
<1>5. ASSUME NEW d \in all, NEW y \in N, mined[y] <= mined[d]
      PROVE  d \in N
  <2>1. Above(d) \in SUBSET Above(y)
    BY <1>3, <1>5, SMTT(60)
  <2>2. Cardinality(Above(d)) <= Cardinality(Above(y))
    BY <1>3, <1>4, <2>1, PartIsSmaller, ZenonT(60)
  <2> HIDE DEF Above
  <2> QED BY <1>2, <1>3, <1>4, <2>2, SMTT(60)
<1>6. ASSUME all # {} PROVE N # {}
  <2>1. PICK d \in all : \A x \in all : mined[x] <= mined[d]
    <3>1. PICK d \in all : mined[d] = Highest(all)
      BY <1>6, HeightsAre, Zenon
    <3>2. \A x \in all : mined[x] <= Highest(all)
      BY <1>6, HeightsAre, Zenon
    <3> QED BY <3>1, <3>2, Zenon
  <2>2. Above(d) = {}
    BY <2>1
  <2>3. Cardinality(Above(d)) = 0
    BY <2>2, Fin!FS_EmptySet, FiniteAgree, ZenonT(60)
  <2> HIDE DEF Above
  <2> QED BY <1>2, <2>3
<1>7. ASSUME N # all PROVE ~ (Cardinality(N) < k)
  <2>1. all \ N # {} /\ all \ N \in SUBSET Deposits /\ \A d \in all \ N : mined[d] <= n
    BY <1>3, <1>7, Zenon
  <2>2. PICK y \in all \ N : \A x \in all \ N : mined[x] <= mined[y]
    <3>1. PICK y \in all \ N : mined[y] = Highest(all \ N)
      BY <2>1, HeightsAre, Zenon
    <3>2. \A x \in all \ N : mined[x] <= Highest(all \ N)
      BY <2>1, HeightsAre, Zenon
    <3> QED BY <3>1, <3>2, Zenon
  <2>3. Above(y) \in SUBSET N
    BY <2>2
  <2>4. Cardinality(Above(y)) <= Cardinality(N) /\ Cardinality(N) \in Nat
    BY <1>1, <1>3, <2>3, PartIsSmaller, Zenon
  <2>5. ~ (Cardinality(Above(y)) < k)
    BY <1>2, <2>2, Zenon
  <2> HIDE DEF Above
  <2> QED BY <1>4, <2>2, <2>4, <2>5, SMTT(60)
<1> QED BY <1>3, <1>5, <1>6, <1>7, Zenon DEF N

SigCursors == [head : Nat, until : Nat, before : Nat]

\* The heights a signature cursor has gone past.
GonePast(c, x) == x <= c.until \/ (c.before # 0 /\ c.before <= x /\ x <= c.head)

\* A cursor of a chain of height h: a watermark, or a place in the history
\* below the watermark to be.
OnTrail(c, h) ==
    /\ c \in SigCursors
    /\ c.head <= h /\ c.before <= h /\ c.until <= c.head
    /\ c.before = 0 => c.until = c.head
    /\ c.before # 0 => c.head # 0 /\ (c.until = c.head \/ c.before <= c.head)

\* What an endpoint lists is the newest part of what is asked for.
LEMMA SignaturesAre ==
    ASSUME mined \in [Deposits -> Nat], \A d \in Deposits : mined[d] # 0 => Payee(d) = watchList[1],
           setup.pageSize \in Nat \ {0}, NEW h \in Nat, NEW c, OnTrail(c, h), NEW latest \in Nat
    PROVE  \E all \in SUBSET Deposits, upto \in Nat :
             /\ upto = IF c.before = 0 THEN latest ELSE c.before - 1
             /\ \A d \in all : mined[d] # 0 /\ mined[d] <= upto
             /\ \A d \in Deposits : mined[d] # 0 /\ c.until < mined[d] /\ mined[d] <= upto => d \in all
             /\ Signatures(c, latest) =
                  IF c.before > latest THEN {} ELSE Newest(all, setup.pageSize)
<1> DEFINE upto == IF c.before = 0 THEN latest ELSE c.before - 1
           until == IF c.until > upto THEN 0 ELSE c.until
           all == {d \in Between(until + 1, upto) : Payee(d) = watchList[1]}
<1>1. c.before \in Nat /\ c.until \in Nat
  BY Zenon DEF OnTrail, SigCursors
<1>2. upto \in Nat
  BY <1>1, SMTT(60)
<1>3. until \in Nat /\ until <= c.until
  BY <1>1
<1>4. Signatures(c, latest) = IF c.before > latest THEN {} ELSE Newest(all, setup.pageSize)
  BY Zenon DEF Signatures, Newest
<1> HIDE DEF upto, until
<1>5. all \in SUBSET Deposits /\ \A d \in all : mined[d] # 0 /\ mined[d] <= upto
  BY Zenon DEF Between
<1>6. ASSUME NEW d \in Deposits, mined[d] # 0, c.until < mined[d], mined[d] <= upto
      PROVE  d \in all
  BY <1>1, <1>2, <1>3, <1>6, SMTT(60) DEF Between
<1>7. upto = IF c.before = 0 THEN latest ELSE c.before - 1
  BY Zenon DEF upto
<1> HIDE DEF all
<1> QED BY <1>2, <1>4, <1>5, <1>6, <1>7, ZenonT(60)

\* A page of the history leaves no gap: what the next cursor has gone past, the
\* last one had, or it is on the page, or the endpoint does not know the place
\* the page starts from.
LEMMA SignaturePageFits ==
    ASSUME mined \in [Deposits -> Nat], \A d \in Deposits : mined[d] # 0 => Payee(d) = watchList[1],
           setup.pageSize \in Nat \ {0}, NEW h \in Nat, NEW c, OnTrail(c, h),
           NEW latest \in Nat, latest <= h
    PROVE  /\ OnTrail(SignaturePage(c, latest).next, h)
           /\ SignaturePage(c, latest).items \subseteq Deposits
           /\ \A d \in Deposits :
                mined[d] # 0 /\ GonePast(SignaturePage(c, latest).next, mined[d]) =>
                  \/ GonePast(c, mined[d])
                  \/ d \in SignaturePage(c, latest).items
                  \/ c.before > latest /\ d \in Between(c.until + 1, c.before - 1)
<1> DEFINE sigs == Signatures(c, latest)
           watermark == IF c.head # 0 THEN c.head ELSE c.until
           first == IF c.head # 0 THEN c.head ELSE Highest(sigs)
           p == SignaturePage(c, latest)
<1>1. /\ c.head \in Nat /\ c.until \in Nat /\ c.before \in Nat
      /\ c.head <= h /\ c.before <= h /\ c.until <= c.head
      /\ c.before = 0 => c.until = c.head
      /\ c.before # 0 => c.head # 0 /\ (c.until = c.head \/ c.before <= c.head)
  BY Zenon DEF OnTrail, SigCursors
<1>2. PICK all \in SUBSET Deposits, upto \in Nat :
        /\ upto = IF c.before = 0 THEN latest ELSE c.before - 1
        /\ \A d \in all : mined[d] # 0 /\ mined[d] <= upto
        /\ \A d \in Deposits : mined[d] # 0 /\ c.until < mined[d] /\ mined[d] <= upto => d \in all
        /\ sigs = IF c.before > latest THEN {} ELSE Newest(all, setup.pageSize)
  BY SignaturesAre, Zenon
<1>3. upto <= h
  BY <1>1, <1>2, SMTT(60)
<1>4. /\ Newest(all, setup.pageSize) \subseteq all
      /\ all # {} => Newest(all, setup.pageSize) # {}
      /\ Cardinality(Newest(all, setup.pageSize)) < setup.pageSize => Newest(all, setup.pageSize) = all
      /\ \A d \in all, y \in Newest(all, setup.pageSize) :
           mined[y] <= mined[d] => d \in Newest(all, setup.pageSize)
  BY <1>2, NewestAre, Zenon
<1>5. watermark = c.head
  BY <1>1, Zenon
<1>7. CASE sigs = {}
  <2>1. p.items = {} /\ p.next = Sig(c.head, c.head, 0)
    BY <1>5, <1>7, ZenonT(60) DEF SignaturePage
  <2>2. p.next \in SigCursors /\ p.next.head = c.head /\ p.next.until = c.head /\ p.next.before = 0
    BY <1>1, <2>1, SMTT(60) DEF Sig, SigCursors
  <2>3. OnTrail(p.next, h)
    BY <1>1, <2>2, SMTT(60) DEF OnTrail
  <2>4. ASSUME NEW d \in Deposits, mined[d] # 0, mined[d] <= c.head
        PROVE  \/ GonePast(c, mined[d])
               \/ c.before > latest /\ d \in Between(c.until + 1, c.before - 1)
    <3>1. mined[d] \in Nat
      BY Zenon
    <3>2. CASE c.before = 0 \/ mined[d] <= c.until \/ c.before <= mined[d]
      BY <1>1, <2>4, <3>1, <3>2, ZenonT(60) DEF GonePast
    <3>3. CASE c.before # 0 /\ c.until < mined[d] /\ mined[d] < c.before
      <4>1. d \in all
        BY <1>1, <1>2, <2>4, <3>1, <3>3, SMTT(60)
      <4>2. c.before > latest
        BY <1>2, <1>4, <1>7, <4>1, ZenonT(60)
      <4> QED BY <1>1, <2>4, <3>1, <3>3, <4>2, SMTT(60) DEF Between
    <3> QED BY <1>1, <3>1, <3>2, <3>3, SMTT(60)
  <2>5. \A x : GonePast(p.next, x) => x <= c.head
    BY <2>2, Zenon DEF GonePast
  <2> HIDE DEF p
  <2> QED BY <2>1, <2>3, <2>4, <2>5, ZenonT(60) DEF p
<1>8. CASE sigs # {}
  <2>1. sigs = Newest(all, setup.pageSize) /\ sigs \subseteq all /\ sigs \in SUBSET Deposits
        /\ (\A d \in sigs : mined[d] <= upto) /\ (\A d \in sigs : mined[d] \in Nat /\ mined[d] # 0)
    BY <1>2, <1>4, <1>8, ZenonT(60)
  <2>2. /\ \E d \in sigs : mined[d] = Highest(sigs)
        /\ \E d \in sigs : mined[d] = Lowest(sigs)
        /\ \A d \in sigs : Lowest(sigs) <= mined[d] /\ mined[d] <= Highest(sigs)
    BY <1>8, <2>1, HeightsAre, ZenonT(60)
  <2>3. /\ Highest(sigs) \in Nat /\ Lowest(sigs) \in Nat /\ Lowest(sigs) # 0
        /\ Lowest(sigs) <= Highest(sigs) /\ Highest(sigs) <= upto /\ Lowest(sigs) <= upto
    BY <2>1, <2>2, ZenonT(60)
  <2>4. /\ first \in Nat /\ first # 0 /\ first <= h /\ c.until <= first
        /\ c.head # 0 => first = c.head
        /\ c.head = 0 => first = Highest(sigs) /\ c.until = 0 /\ c.before = 0
    BY <1>1, <1>3, <2>3, SMTT(60)
  <2> HIDE DEF sigs, first
  <2>5. ASSUME NEW d \in Deposits, mined[d] # 0, c.until < mined[d], mined[d] <= upto,
               Lowest(sigs) <= mined[d]
        PROVE  d \in sigs
    BY <1>2, <1>4, <2>1, <2>2, <2>5, ZenonT(60)
  <2>6. ASSUME NEW d \in Deposits, mined[d] # 0, mined[d] <= first
        PROVE  GonePast(c, mined[d]) \/ (c.until < mined[d] /\ mined[d] <= upto)
    <3>1. mined[d] \in Nat
      BY Zenon
    <3>2. CASE c.head = 0
      BY <2>3, <2>4, <2>6, <3>1, <3>2, SMTT(60)
    <3>3. CASE c.head # 0
      BY <1>1, <1>2, <2>4, <2>6, <3>1, <3>3, SMTT(60) DEF GonePast
    <3> QED BY <3>2, <3>3, ZenonT(60)
  <2>7. CASE Cardinality(sigs) < setup.pageSize
    <3>1. p.items = sigs /\ p.next = Sig(first, first, 0)
      BY <1>8, <2>7, ZenonT(60) DEF SignaturePage, sigs, first
    <3>2. p.next \in SigCursors /\ p.next.head = first /\ p.next.until = first /\ p.next.before = 0
      BY <2>4, <3>1, SMTT(60) DEF Sig, SigCursors
    <3>3. OnTrail(p.next, h)
      BY <1>1, <2>4, <3>2, SMTT(60) DEF OnTrail
    <3>4. sigs = all
      BY <1>4, <2>1, <2>7, ZenonT(60)
    <3>5. \A x : GonePast(p.next, x) => x <= first
      BY <3>2, Zenon DEF GonePast
    <3> HIDE DEF p
    <3> QED BY <1>2, <2>1, <2>6, <3>1, <3>3, <3>4, <3>5, ZenonT(60) DEF p
  <2>8. CASE ~ (Cardinality(sigs) < setup.pageSize)
    <3>1. p.items = sigs /\ p.next = Sig(first, c.until, Lowest(sigs))
      BY <1>8, <2>8, ZenonT(60) DEF SignaturePage, sigs, first
    <3>2. p.next \in SigCursors /\ p.next.head = first /\ p.next.until = c.until
          /\ p.next.before = Lowest(sigs)
      BY <1>1, <2>3, <2>4, <3>1, SMTT(60) DEF Sig, SigCursors
    <3>3. Lowest(sigs) <= h /\ (c.until = first \/ Lowest(sigs) <= first)
      BY <1>1, <1>2, <1>3, <2>3, <2>4, SMTT(60)
    <3>4. OnTrail(p.next, h)
      BY <1>1, <2>3, <2>4, <3>2, <3>3, ZenonT(60) DEF OnTrail
    <3>5. ASSUME NEW d \in Deposits, mined[d] # 0, GonePast(p.next, mined[d])
          PROVE  GonePast(c, mined[d]) \/ d \in sigs
      <4>1. mined[d] <= c.until \/ (Lowest(sigs) <= mined[d] /\ mined[d] <= first)
        BY <3>2, <3>5, Zenon DEF GonePast
      <4>2. CASE mined[d] <= c.until
        BY <4>2, Zenon DEF GonePast
      <4>3. CASE Lowest(sigs) <= mined[d] /\ mined[d] <= first
        BY <2>5, <2>6, <3>5, <4>3, ZenonT(60)
      <4> QED BY <4>1, <4>2, <4>3, ZenonT(60)
    <3> HIDE DEF p
    <3> QED BY <2>1, <3>1, <3>4, <3>5, ZenonT(60) DEF p
  <2> QED BY <2>7, <2>8, ZenonT(60)
<1> QED BY <1>7, <1>8, Zenon

\* A cursor that has gone past nothing that is owed.
Honest(c, h, owed, m) == OnTrail(c, h) /\ \A d \in owed : ~ GonePast(c, m[d])

\* A scan of the one address that is watched.
SigScan(g, h, owed, m) ==
    \/ g = NoScan
    \/ /\ Honest(g.cursor, h, owed, m)
       /\ g.pc = "page" => g.watched = {FirstWatch}

SigShape ==
    /\ setup \in Setups
    /\ reader = "signature"
    /\ mined \in [Deposits -> Nat]
    /\ head \in Nat
    /\ view \in [Endpoints -> Nat]
    /\ \A e \in Endpoints : view[e] <= head
    /\ watchList = <<FirstWatch>>
    /\ \A d \in Deposits : mined[d] # 0 => Payee(d) = FirstWatch

SigInv ==
    /\ SigShape
    /\ Honest(checkpoint, head, Owed, mined)
    /\ DOMAIN scans = Scanners
    /\ \A s \in Scanners : SigScan(scans[s], head, Owed, mined)

\* A cursor stays honest while the chain grows and nothing is owed below its
\* new height that was not owed before.
LEMMA HonestStays ==
    ASSUME NEW h \in Nat, NEW k \in Nat, h <= k, NEW c, NEW owed, NEW due, NEW m, NEW n,
           \A d \in due : n[d] \in Nat /\ ((d \in owed /\ n[d] = m[d]) \/ h < n[d]),
           Honest(c, h, owed, m)
    PROVE  Honest(c, k, due, n)
<1>1. OnTrail(c, k)
  BY SMTT(60) DEF Honest, OnTrail, SigCursors
<1>2. ASSUME NEW d \in due
      PROVE  ~ GonePast(c, n[d])
  BY <1>2 DEF Honest, OnTrail, SigCursors, GonePast
<1> QED BY <1>1, <1>2, ZenonT(60) DEF Honest

\* What a step must show.
LEMMA SigFrame ==
    ASSUME SigInv, SigShape', head <= head',
           \A d \in Owed' : (d \in Owed /\ mined'[d] = mined[d]) \/ head < mined'[d],
           checkpoint' = checkpoint \/ Honest(checkpoint', head', Owed', mined'),
           DOMAIN scans' = Scanners,
           \A s \in Scanners : scans'[s] = scans[s] \/ SigScan(scans'[s], head', Owed', mined')
    PROVE  SigInv'
<1>1. head \in Nat /\ head' \in Nat /\ \A d \in Owed' : mined'[d] \in Nat
  BY ZenonT(60) DEF SigInv, SigShape, Owed
<1>2. \A c : Honest(c, head, Owed, mined) => Honest(c, head', Owed', mined')
  BY <1>1, HonestStays, ZenonT(60)
<1>3. \A g : SigScan(g, head, Owed, mined) => SigScan(g, head', Owed', mined')
  BY <1>2, Zenon DEF SigScan
<1> QED BY <1>2, <1>3, Zenon DEF SigInv

\* Seeing more, or being excused more, owes no more.
LEMMA SigOwesLess ==
    ASSUME reader = "signature", UNCHANGED <<setup, mined, watchList>>, late \subseteq late',
           replaced \subseteq replaced', blind \subseteq blind', seen \subseteq seen'
    PROVE  Owed' \subseteq Owed
<1> SUFFICES ASSUME NEW d \in Deposits, mined[d] # 0, Excused(d) \/ IsSeen(d)
             PROVE  Excused(d)' \/ IsSeen(d)'
  BY Zenon DEF Owed
<1>1. CASE IsSeen(d)
  BY <1>1, Zenon DEF IsSeen
<1>2. CASE Excused(d)
  BY <1>2, ZenonT(60) DEF Excused, Payee, reader
<1> QED BY <1>1, <1>2, Zenon

\* A step that leaves the chain alone, apart from an endpoint that catches up.
LEMMA SigStill ==
    ASSUME SigInv, UNCHANGED <<setup, mined, head, watchList>>, late \subseteq late',
           replaced \subseteq replaced', blind \subseteq blind', seen \subseteq seen',
           view' = view \/ \E e \in Endpoints : view' = [view EXCEPT ![e] = head]
    PROVE  /\ SigShape' /\ head <= head' /\ Owed' \subseteq Owed
           /\ \A d \in Owed' : (d \in Owed /\ mined'[d] = mined[d]) \/ head < mined'[d]
<1>1. reader' = reader /\ (\A d \in Deposits : Payee(d)' = Payee(d))
  BY Zenon DEF Payee, reader
<1>2. head \in Nat /\ view \in [Endpoints -> Nat] /\ (\A e \in Endpoints : view[e] <= head)
  BY ZenonT(60) DEF SigInv, SigShape
<1>3. view' \in [Endpoints -> Nat] /\ (\A e \in Endpoints : view'[e] <= head)
  BY <1>2
<1>4. SigShape'
  BY <1>1, <1>3, ZenonT(60) DEF SigInv, SigShape
<1>5. Owed' \subseteq Owed
  BY SigOwesLess, Zenon DEF SigInv, SigShape
<1> QED BY <1>2, <1>4, <1>5, SMTT(60)

\* Endpoints that catch up, the endpoint manager, and failures of a read, of
\* the database or of the scanner.
LEMMA SigQuietSteps ==
    ASSUME SigInv,
           \/ \E e \in Endpoints : Sync(e)
           \/ RefreshPool \/ ElapsePool
           \/ \E s \in Scanners : SaveFails(s) \/ \E e \in Endpoints : ReadFails(s, e) \/ StoreFails(s, e)
    PROVE  SigInv'
<1>1. /\ UNCHANGED <<setup, mined, watchList, late, replaced, blind, head, checkpoint>>
      /\ seen \subseteq seen'
      /\ DOMAIN scans' = Scanners
      /\ \A s \in Scanners : scans'[s] \in {scans[s], NoScan}
      /\ view' = view \/ \E e \in Endpoints : view' = [view EXCEPT ![e] = head]
  <2>1. CASE \E e \in Endpoints : Sync(e)
    BY <2>1, ZenonT(60) DEF Sync, histories, SigInv
  <2>2. CASE RefreshPool
    BY <2>2, Zenon DEF RefreshPool, chainState, SigInv
  <2>3. CASE ElapsePool
    BY <2>3, Zenon DEF ElapsePool, scanVars, SigInv
  <2>4. CASE \E s \in Scanners : SaveFails(s)
    BY <2>4, Zenon DEF SaveFails, chainState, histories, SigInv
  <2>5. CASE \E s \in Scanners, e \in Endpoints : ReadFails(s, e)
    BY <2>5, Zenon DEF ReadFails, chainState, histories, SigInv
  <2>6. CASE \E s \in Scanners, e \in Endpoints : StoreFails(s, e)
    BY <2>6, Zenon DEF StoreFails, chainState, histories, SigInv, Recorded
  <2> QED BY <2>1, <2>2, <2>3, <2>4, <2>5, <2>6, ZenonT(60)
<1>2. /\ SigShape' /\ head <= head'
      /\ \A d \in Owed' : (d \in Owed /\ mined'[d] = mined[d]) \/ head < mined'[d]
  BY <1>1, SigStill, ZenonT(60)
<1>3. \A s \in Scanners : scans'[s] = scans[s] \/ SigScan(scans'[s], head', Owed', mined')
  BY <1>1, Zenon DEF SigScan
<1> QED BY <1>1, <1>2, <1>3, SigFrame, ZenonT(60)

\* A scan begins at the stored cursor; the cursor a scan ends with is stored
\* in its place, whatever another scanner stored meanwhile.
LEMMA SigBeginAndSave ==
    ASSUME SigInv, NEW s \in Scanners, BeginScan(s) \/ Save(s)
    PROVE  SigInv'
<1>1. UNCHANGED <<setup, mined, head, view, watchList, seen, late, replaced, blind>>
  BY Zenon DEF BeginScan, Save, chainState, histories
<1>2. /\ SigShape' /\ head <= head' /\ Owed' \subseteq Owed
      /\ \A d \in Owed' : (d \in Owed /\ mined'[d] = mined[d]) \/ head < mined'[d]
  BY <1>1, SigStill, ZenonT(60)
<1>3. \A c : Honest(c, head, Owed, mined) => Honest(c, head', Owed', mined')
  BY <1>1, <1>2, ZenonT(60) DEF Honest
<1>4. CASE BeginScan(s)
  <2> DEFINE W == {watchList[i] : i \in {j \in DOMAIN watchList : j <= WatchLimit}}
             g == Paged(W, checkpoint, 1, 0, <<>>)
  <2>1. scans' = [scans EXCEPT ![s] = g] /\ checkpoint' = checkpoint
    BY <1>4, Zenon DEF BeginScan
  <2>2. W = {FirstWatch}
    <3>1. WatchLimit \in Nat \ {0}
      BY ScanAssumption, Zenon
    <3>2. watchList = <<FirstWatch>>
      BY Zenon DEF SigInv, SigShape
    <3>3. DOMAIN watchList = {1} /\ watchList[1] = FirstWatch
      BY <3>2, SMTT(60)
    <3>4. {j \in DOMAIN watchList : j <= WatchLimit} = {1}
      BY <3>1, <3>3, SMTT(60)
    <3> QED BY <3>3, <3>4, Zenon
  <2>3. g.cursor = checkpoint /\ g.watched = W
    BY Zenon DEF Paged
  <2> HIDE DEF g, W
  <2>4. SigScan(g, head', Owed', mined')
    BY <1>3, <2>2, <2>3, ZenonT(60) DEF SigScan, SigInv
  <2> QED BY <1>2, <2>1, <2>4, SigFrame, ZenonT(60) DEF SigInv
<1>5. CASE Save(s)
  <2>1. scans' = [scans EXCEPT ![s] = NoScan] /\ checkpoint' = scans[s].cursor /\ scans[s] # NoScan
    BY <1>5 DEF Save, Stored, NoScan, SigInv, SigShape
  <2>2. Honest(checkpoint', head', Owed', mined')
    BY <1>3, <2>1, Zenon DEF SigInv, SigScan
  <2>3. SigScan(NoScan, head', Owed', mined')
    BY ZenonT(60) DEF SigScan
  <2> QED BY <1>2, <2>1, <2>2, <2>3, SigFrame, ZenonT(60) DEF SigInv
<1> QED BY <1>4, <1>5, ZenonT(60)

\* A new transfer is above every cursor.
LEMMA SigMineKeeps ==
    ASSUME SigInv, Mine
    PROVE  SigInv'
<1>1. /\ UNCHANGED <<setup, view, watchList, checkpoint, scans, seen, late, replaced, blind>>
      /\ head' = head + 1
      /\ mined' = mined \/ \E d \in Deposits : Payee(d) \in Known /\ mined' = [mined EXCEPT ![d] = head + 1]
  BY Zenon DEF Mine, histories
<1>2. head \in Nat /\ mined \in [Deposits -> Nat] /\ reader = "signature" /\ watchList = <<FirstWatch>>
  BY Zenon DEF SigInv, SigShape
<1>3. Known = {FirstWatch}
  <2>1. DOMAIN watchList = {1} /\ watchList[1] = FirstWatch
    BY <1>2, SMTT(60)
  <2> QED BY <2>1, Zenon DEF Known
<1>4. /\ mined' \in [Deposits -> Nat]
      /\ \A d \in Deposits : mined'[d] = mined[d] \/ (mined'[d] = head + 1 /\ Payee(d) = FirstWatch)
  BY <1>1, <1>2, <1>3, SMTT(60)
<1>5. reader' = reader /\ \A d \in Deposits : Payee(d)' = Payee(d)
  BY <1>1, Zenon DEF Payee, reader
<1>6. SigShape'
  <2>1. head' \in Nat /\ \A e \in Endpoints : view'[e] <= head'
    BY <1>1, <1>2, SMTT(60) DEF SigInv, SigShape
  <2>2. \A d \in Deposits : mined'[d] # 0 => Payee(d)' = FirstWatch
    BY <1>4, <1>5, ZenonT(60) DEF SigInv, SigShape
  <2> QED BY <1>1, <1>4, <1>5, <2>1, <2>2, ZenonT(60) DEF SigInv, SigShape
<1>7. \A d \in Owed' : (d \in Owed /\ mined'[d] = mined[d]) \/ head < mined'[d]
  <2> TAKE d \in Owed'
  <2>1. d \in Deposits /\ mined'[d] # 0 /\ ~ Excused(d)' /\ ~ IsSeen(d)'
    BY Zenon DEF Owed
  <2>2. CASE mined'[d] = mined[d]
    <3>1. ~ Excused(d) /\ ~ IsSeen(d)
      BY <1>1, <1>2, <1>5, <2>1, <2>2, ZenonT(60) DEF Excused, IsSeen
    <3> QED BY <2>1, <2>2, <3>1, ZenonT(60) DEF Owed
  <2> QED BY <1>2, <1>4, <2>1, <2>2, SMTT(60)
<1> QED BY <1>1, <1>2, <1>6, <1>7, SigFrame, SMTT(60) DEF SigInv

\* A scan goes on, or ends, at the old or at the new cursor.
LEMMA SigObserves ==
    ASSUME NEW g, NEW next, NEW count
    PROVE  /\ Observe(g, next, count).cursor \in {g.cursor, next}
           /\ Observe(g, next, count).pc = "page" => Observe(g, next, count).watched = g.watched
<1> DEFINE empty == IF count = 0 THEN g.empty + 1 ELSE 0
           more == Paged(g.watched, next, g.page + 1, empty, Append(g.passed, next))
<1>1. more.cursor = next /\ more.watched = g.watched
  BY Zenon DEF Paged
<1>2. \A c : Stop(c).cursor = c /\ Stop(c).pc # "page"
  BY Zenon DEF Stop
<1>3. Observe(g, next, count) \in {Stop(g.cursor), Stop(next), more}
  BY Zenon DEF Observe
<1> HIDE DEF more
<1> QED BY <1>1, <1>2, <1>3, ZenonT(60)

\* Reading a page of the history and recording its transfers goes past nothing
\* that is owed: what the page shows is recorded, what it leaves out, or could
\* not show because the endpoint does not know its place, is excused.
LEMMA SigReadKeeps ==
    ASSUME SigInv, NEW s \in Scanners, NEW e \in Endpoints, ReadPage(s, e)
    PROVE  SigInv'
<1> DEFINE g == scans[s]
           page == SignaturePage(g.cursor, view[e])
<1>1. PICK left \in SUBSET page.items :
        /\ UNCHANGED <<setup, mined, head, view, watchList, checkpoint, late, replaced>>
        /\ blind \cup left \subseteq blind'
        /\ g.cursor.before > view[e] => Between(g.cursor.until + 1, g.cursor.before - 1) \subseteq blind'
        /\ seen' = Recorded(page.items \ left, page.items, g.watched)
        /\ scans' = [scans EXCEPT ![s] = Observe(g, page.next, Cardinality(page.items \ left))]
        /\ g.pc = "page"
  <2>1. reader = "signature"
    BY Zenon DEF SigInv, SigShape
  <2>2. Page(g.cursor, view[e]) = page
    BY <2>1, ZenonT(60) DEF Page
  <2> HIDE DEF page
  <2>3. PICK left \in {{}} \cup {{d} : d \in page.items} :
          /\ blind' = blind \cup left
                      \cup (IF reader = "signature" /\ g.cursor.before > view[e]
                            THEN Between(g.cursor.until + 1, g.cursor.before - 1) ELSE {})
          /\ seen' = Recorded(page.items \ left, page.items, g.watched)
          /\ scans' = [scans EXCEPT ![s] = Observe(g, page.next, Cardinality(page.items \ left))]
    BY <2>2, ZenonT(60) DEF ReadPage
  <2>4. left \in SUBSET page.items
    BY Zenon
  <2>5. UNCHANGED <<setup, mined, head, view, watchList, checkpoint, late, replaced>> /\ g.pc = "page"
    BY Zenon DEF ReadPage, chainState, histories
  <2> HIDE DEF g
  <2> QED BY <2>1, <2>3, <2>4, <2>5, ZenonT(60)
<1> DEFINE after == Observe(g, page.next, Cardinality(page.items \ left))
<1>2. Honest(g.cursor, head, Owed, mined) /\ g.watched = {FirstWatch}
  <2>1. SigScan(g, head, Owed, mined)
    BY Zenon DEF SigInv
  <2>2. NoScan.pc # "page"
    BY Zenon DEF NoScan
  <2> HIDE DEF g
  <2> QED BY <1>1, <2>1, <2>2, ZenonT(60) DEF SigScan
<1>3. /\ view[e] \in Nat /\ view[e] <= head /\ head \in Nat /\ mined \in [Deposits -> Nat]
      /\ setup.pageSize \in Nat \ {0}
      /\ \A d \in Deposits : mined[d] # 0 => Payee(d) = FirstWatch /\ Payee(d) = watchList[1]
  BY ScanAssumption, ZenonT(60) DEF SigInv, SigShape
<1>4. /\ OnTrail(page.next, head)
      /\ page.items \subseteq Deposits
      /\ \A d \in Deposits :
           mined[d] # 0 /\ GonePast(page.next, mined[d]) =>
             \/ GonePast(g.cursor, mined[d])
             \/ d \in page.items
             \/ g.cursor.before > view[e] /\ d \in Between(g.cursor.until + 1, g.cursor.before - 1)
  BY <1>2, <1>3, SignaturePageFits, ZenonT(60) DEF Honest
<1> HIDE DEF g, page
<1>5. seen \subseteq seen'
  BY <1>1, ZenonT(60) DEF Recorded
<1>6. /\ SigShape' /\ head <= head' /\ Owed' \subseteq Owed
      /\ \A d \in Owed' : (d \in Owed /\ mined'[d] = mined[d]) \/ head < mined'[d]
  BY <1>1, <1>5, SigStill, ZenonT(60)
<1>7. ASSUME NEW d \in Owed', GonePast(page.next, mined[d])
      PROVE  FALSE
  <2>1. d \in Owed /\ d \in Deposits /\ mined[d] # 0 /\ d \notin blind' /\ ~ IsSeen(d)'
    BY <1>1, <1>6, ZenonT(60) DEF Owed, Excused
  <2>2. ~ GonePast(g.cursor, mined[d])
    BY <1>2, <2>1, Zenon DEF Honest
  <2>3. d \in page.items \ left
    BY <1>1, <1>4, <1>7, <2>1, <2>2, ZenonT(60)
  <2>4. Event(d, page.items) \in seen'
    BY <1>1, <1>2, <1>3, <2>1, <2>3, ZenonT(60) DEF Recorded
  <2>5. IsSeen(d)'
    BY <2>4, Zenon DEF IsSeen, Event
  <2> QED BY <2>1, <2>5, ZenonT(60)
<1>8. Honest(page.next, head', Owed', mined') /\ Honest(g.cursor, head', Owed', mined')
  BY <1>1, <1>2, <1>4, <1>6, <1>7, ZenonT(60) DEF Honest
<1>9. after.cursor \in {g.cursor, page.next} /\ (after.pc = "page" => after.watched = g.watched)
  BY SigObserves, Zenon
<1> HIDE DEF after
<1>10. SigScan(after, head', Owed', mined')
  BY <1>2, <1>8, <1>9, ZenonT(60) DEF SigScan
<1>11. scans' = [scans EXCEPT ![s] = after]
  BY <1>1, Zenon DEF after
<1> QED BY <1>1, <1>6, <1>10, <1>11, SigFrame, ZenonT(60) DEF SigInv

\* The state a scan by signatures starts from.
LEMMA SigInvInit ==
    ASSUME ScanInit, reader = "signature"
    PROVE  SigInv
<1>1. mined = [d \in Deposits |-> 0] /\ head = 0 /\ view = [e \in Endpoints |-> 0]
      /\ watchList = <<FirstWatch>> /\ scans = [s \in Scanners |-> NoScan]
      /\ checkpoint = Sig(0, 0, 0) /\ setup \in Setups
  BY Zenon DEF ScanInit, NoCursor
<1>2. SigShape
  BY <1>1 DEF SigShape
<1>3. Owed = {}
  BY <1>1, ZenonT(60) DEF Owed
<1>4. OnTrail(checkpoint, head)
  BY <1>1, SMTT(60) DEF OnTrail, Sig, SigCursors
<1> QED BY <1>1, <1>2, <1>3, <1>4, ZenonT(60) DEF SigInv, Honest, SigScan

\* Every step keeps the invariant.
LEMMA SigInvStep ==
    ASSUME SigInv, [ScanNext]_vars
    PROVE  SigInv'
<1>1. CASE Mine
  BY <1>1, SigMineKeeps, Zenon
<1>2. CASE Reorg \/ (\E a \in Addresses : AddWatch(a)) \/ (\E e \in Endpoints : ProbePool(e))
  BY <1>2, Zenon DEF Reorg, AddWatch, ProbePool, SigInv, SigShape
<1>3. CASE \E s \in Scanners : BeginScan(s) \/ Save(s)
  BY <1>3, SigBeginAndSave, ZenonT(60)
<1>4. CASE \E s \in Scanners, e \in Endpoints : ReadPage(s, e)
  BY <1>4, SigReadKeeps, Zenon
<1>5. CASE \/ \E e \in Endpoints : Sync(e)
           \/ RefreshPool \/ ElapsePool
           \/ \E s \in Scanners : SaveFails(s) \/ \E e \in Endpoints : ReadFails(s, e) \/ StoreFails(s, e)
  BY <1>5, SigQuietSteps, ZenonT(60)
<1>6. CASE UNCHANGED vars
  <2>1. UNCHANGED <<setup, mined, head, view, watchList, checkpoint, scans, seen, late, replaced, blind>>
    BY <1>6, Zenon DEF vars, scanVars
  <2>2. /\ SigShape' /\ head <= head'
        /\ \A d \in Owed' : (d \in Owed /\ mined'[d] = mined[d]) \/ head < mined'[d]
    BY <2>1, SigStill, Zenon
  <2> QED BY <2>1, <2>2, SigFrame, ZenonT(60) DEF SigInv
<1> QED BY <1>1, <1>2, <1>3, <1>4, <1>5, <1>6, ZenonT(60) DEF ScanNext

\* No cursor of a scan by signatures, stored or under way, has gone past a
\* deposit that is owed.
THEOREM SignatureCursorsAreHonest == ScanSpec => [](reader = "signature" => SigInv)
<1> DEFINE Inv == reader = "signature" => SigInv
<1>1. ScanInit => Inv
  BY SigInvInit, Zenon
<1>2. Inv /\ [ScanNext]_vars => Inv'
  BY SigInvStep, ReaderStays, ZenonT(60) DEF reader
<1> QED BY <1>1, <1>2, PTL DEF ScanSpec

\* PassedIsSeen for an address scanned by signatures (scanOneWatch over the
\* Solana reader): whatever the pages the walk back is cut into, and whatever
\* other scanners store between them, a deposit the stored cursor has passed
\* was recorded.
THEOREM NoSignatureLeftBehind == ScanSpec => [](reader = "signature" => PassedIsSeen)
<1>1. (reader = "signature" => SigInv) => (reader = "signature" => PassedIsSeen)
  <2> SUFFICES ASSUME reader = "signature", SigInv,
                      NEW d \in Deposits, mined[d] # 0, Passed(mined[d]), ~ Excused(d)
               PROVE  IsSeen(d)
    BY Zenon DEF PassedIsSeen
  <2>1. GonePast(checkpoint, mined[d])
    BY Zenon DEF Passed, GonePast
  <2>2. ~ IsSeen(d) => ~ GonePast(checkpoint, mined[d])
    BY Zenon DEF Owed, SigInv, Honest
  <2> QED BY <2>1, <2>2, Zenon
<1> QED BY <1>1, SignatureCursorsAreHonest, PTL

\* PassedIsSeen whatever the kind of chain.
THEOREM PassedDepositsWereSeen == ScanSpec => []PassedIsSeen
<1>1. ScanInit => setup \in Setups
  BY ZenonT(60) DEF ScanInit
<1>2. setup \in Setups /\ [ScanNext]_vars => (setup \in Setups)'
  BY ReaderStays, ZenonT(60)
<1>3. setup \in Setups => reader = "block" \/ reader = "signature"
  BY ScanAssumption, ZenonT(60) DEF reader
<1> QED BY <1>1, <1>2, <1>3, NoDepositLeftBehind, NoSignatureLeftBehind, PTL DEF ScanSpec
=============================================================================
