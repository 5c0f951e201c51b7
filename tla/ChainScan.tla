----------------------------- MODULE ChainScan -----------------------------
(***************************************************************************)
(* Reading deposits off a chain page by page: the loops scanOneAccountGroup*)
(* (EVM, by block) and scanOneWatch (Solana, by signature) of              *)
(* scan-account-service, the readers of chain-gateway behind them and the  *)
(* endpoints those use.  What happens to a deposit once it is seen is      *)
(* DepositPipeline's.                                                      *)
(*                                                                         *)
(* A height carries at most one transfer; it stands for a block of an EVM  *)
(* chain and for a signature of the watched Solana address.                *)
(***************************************************************************)
EXTENDS EndpointPool, Integers, FiniteSets

CONSTANTS
    Setups,         \* the deployments tried, see below
    Scanners,
    Steady,         \* a scanner that keeps running
    Addresses,
    Deposits,
    PaidAt,         \* whom each deposit pays, for each kind of chain
    FirstWatch,     \* the address that is watched from the start
    MaxPages, MaxEmptyPages, CursorStallGuard, WatchLimit, CursorLookback

\* A deployment: the kind of chain, the endpoints whose reads fail for good,
\* the scanners that run, the page size, and which faults may happen, with
\* bounds on their number and on the length of the chain.
ASSUME ScanAssumption ==
    /\ \A x \in Setups :
         /\ x.reader \in {"block", "signature"}
         /\ x.broken \subseteq Endpoints /\ x.broken # Endpoints
         /\ x.scanners \subseteq Scanners
         /\ x.pageSize \in Nat \ {0}
         /\ x.faultKinds \subseteq {"read", "store", "null", "reorg", "refresh"}
         /\ x.maxFaults \in Nat /\ x.maxHeight \in Nat
    /\ FirstWatch \in Addresses
    /\ Deposits \subseteq Nat /\ IsFiniteSet(Deposits)
    /\ \A n \in {MaxPages, MaxEmptyPages, CursorStallGuard, WatchLimit, CursorLookback} : n \in Nat \ {0}

VARIABLES
    setup,          \* the deployment
    mined,          \* the height of each deposit, 0 while it is not on the chain
    head, view,     \* the height of the chain and how much each endpoint knows
    watchList,      \* scan_watch_addresses, in the order of their ids
    checkpoint,     \* the stored cursor
    scans,          \* what each scanner is at
    seen,           \* scan_seen_events: a deposit and its event index
    faults,
    late,           \* history: addresses added while a scan was under way
    replaced,       \* history: heights whose block was replaced after a scan had read it
    blind,          \* history: deposits an endpoint left out of its answer
    start           \* history: where the scan began without a cursor

scanVars == <<setup, mined, head, view, watchList, checkpoint, scans, seen,
              faults, late, replaced, blind, start>>
vars == <<poolVars, scanVars>>

chainState == <<setup, mined, head, view, watchList>>
histories == <<late, replaced>>

reader == setup.reader
broken == setup.broken

\* Cursors.  A block number, or -1 for the empty string.  A signature cursor
\* is parsed into head, until and before; 0 is the empty string.
Sig(h, u, b) == [head |-> h, until |-> u, before |-> b]
NoCursor(kind) == IF kind = "block" THEN -1 ELSE Sig(0, 0, 0)

NoScan == [pc |-> "idle"]

ScanInit ==
    /\ PoolInit
    /\ setup \in Setups
    /\ mined = [d \in Deposits |-> 0]
    /\ head = 0
    /\ view = [e \in Endpoints |-> 0]
    /\ watchList = <<FirstWatch>>
    /\ checkpoint = NoCursor(reader)
    /\ scans = [s \in Scanners |-> NoScan]
    /\ seen = {}
    /\ faults = 0
    /\ late = {} /\ replaced = {} /\ blind = {}
    /\ start = 0

Payee(d) == PaidAt[reader][d]
Known == {watchList[i] : i \in DOMAIN watchList}

Fault(kind) ==
    /\ kind \in setup.faultKinds
    /\ faults < setup.maxFaults
    /\ faults' = faults + 1

-----------------------------------------------------------------------------
(* The chain and the registry. *)

\* The next block, with a transfer or without.  Addresses are paid once they
\* were given out; transfers to one address differ only in their number, and
\* are numbered as they are mined.
Mine ==
    /\ head < setup.maxHeight
    /\ head' = head + 1
    /\ \/ UNCHANGED mined
       \/ \E d \in Deposits :
            /\ mined[d] = 0
            /\ Payee(d) \in Known
            /\ \A x \in Deposits : x < d /\ Payee(x) = Payee(d) => mined[x] # 0
            /\ mined' = [mined EXCEPT ![d] = head + 1]
    /\ UNCHANGED <<poolVars, setup, view, watchList, checkpoint, scans, seen, faults, histories, blind, start>>

\* An endpoint catches up.
Sync(e) ==
    /\ e \notin broken
    /\ view[e] < head
    /\ view' = [view EXCEPT ![e] = head]
    /\ UNCHANGED <<poolVars, setup, mined, head, watchList, checkpoint, scans, seen, faults, histories, blind, start>>

HasRead(h) == checkpoint >= h \/ \E s \in Scanners : scans[s] # NoScan /\ scans[s].cursor >= h

\* The latest block gives way to another: its transfer waits again, and a
\* waiting one may take the place.
Reorg ==
    /\ reader = "block" /\ head > 0
    /\ Fault("reorg")
    /\ replaced' = IF HasRead(head) THEN replaced \cup {head} ELSE replaced
    /\ \E S \in {{}} \cup {{d} : d \in {x \in Deposits : mined[x] = 0 /\ Payee(x) \in Known}} :
         mined' = [d \in Deposits |-> IF d \in S THEN head ELSE IF mined[d] = head THEN 0 ELSE mined[d]]
    /\ UNCHANGED <<poolVars, setup, head, view, watchList, checkpoint, scans, seen, late, blind, start>>

\* wallet-core registers another address (AddressRegistry).  A Solana address
\* has a scan and a cursor of its own, so one is enough there.
AddWatch(a) ==
    /\ reader = "block"
    /\ a \in Addresses \ Known
    /\ watchList' = Append(watchList, a)
    /\ late' = IF \A s \in Scanners : scans[s] = NoScan THEN late ELSE late \cup {a}
    /\ UNCHANGED <<poolVars, setup, mined, head, view, checkpoint, scans, seen, faults,
                   replaced, blind, start>>

RefreshPool ==
    /\ Fault("refresh")
    /\ \E listed \in SUBSET Endpoints : listed \ broken # {} /\ Refresh(listed)
    /\ UNCHANGED <<chainState, checkpoint, scans, seen, late, replaced, blind, start>>

ProbePool(e) ==
    /\ reader = "block"
    /\ \E answers \in BOOLEAN :
         /\ Probe(e, answers)
         /\ IF answers \/ e \in broken THEN UNCHANGED faults ELSE Fault("read")
    /\ UNCHANGED <<chainState, checkpoint, scans, seen, histories, blind, start>>

ElapsePool ==
    /\ Elapse
    /\ UNCHANGED scanVars

-----------------------------------------------------------------------------
(* The readers. *)

\* resolveFromBlock
ResolveFromBlock(cursor, latest) ==
    IF cursor # -1 THEN cursor + 1
    ELSE IF latest > CursorLookback THEN latest - CursorLookback + 1 ELSE 0

\* The transfers of a range that an endpoint with this view shows.
Between(from, to) == {d \in Deposits : mined[d] # 0 /\ from <= mined[d] /\ mined[d] <= to}

Smaller(m, n) == IF m < n THEN m ELSE n

\* Fault: the page that ends at the last block skips one.
BlockPageSkipping(cursor, latest) ==
    LET from == ResolveFromBlock(cursor, latest)
        to == Smaller(from + setup.pageSize, latest) IN
    IF from > latest THEN [items |-> {}, next |-> latest]
    ELSE [items |-> Between(from, to - 1), next |-> to]

\* ListIncomingTransfers of the EVM reader: setup.pageSize blocks, and the number of
\* the last as the next cursor.  An endpoint behind the cursor answers with
\* its own height.
BlockPage(cursor, latest) ==
    LET from == ResolveFromBlock(cursor, latest)
        to == Smaller(from + setup.pageSize - 1, latest) IN
    IF from > latest THEN [items |-> {}, next |-> latest]
    ELSE [items |-> Between(from, to), next |-> to]

\* getSignaturesForAddress (external): newest first, older than "before",
\* newer than "until", at most setup.pageSize.  An endpoint that does not know
\* "before" has nothing; one that does not meet "until" goes to the oldest.
Signatures(cursor, latest) ==
    LET upto == IF cursor.before = 0 THEN latest ELSE cursor.before - 1
        until == IF cursor.until > upto THEN 0 ELSE cursor.until
        all == {d \in Between(until + 1, upto) : Payee(d) = watchList[1]} IN
    IF cursor.before > latest THEN {}
    ELSE {d \in all : Cardinality({x \in all : mined[x] > mined[d]}) < setup.pageSize}

Heights(S) == {mined[d] : d \in S}
Highest(S) == CHOOSE h \in Heights(S) : \A x \in Heights(S) : x <= h
Lowest(S) == CHOOSE h \in Heights(S) : \A x \in Heights(S) : h <= x

\* ListIncomingTransfers of the Solana reader.  The head of the first page
\* becomes the watermark when a page is not full; a plain cursor is its own
\* head and stays.
SignaturePage(cursor, latest) ==
    LET sigs == Signatures(cursor, latest)
        watermark == IF cursor.head # 0 THEN cursor.head ELSE cursor.until
        first == IF cursor.head # 0 THEN cursor.head ELSE Highest(sigs) IN
    CASE sigs = {} -> [items |-> {}, next |-> Sig(watermark, watermark, 0)]
      [] sigs # {} /\ Cardinality(sigs) < setup.pageSize -> [items |-> sigs, next |-> Sig(first, first, 0)]
      [] OTHER -> [items |-> sigs, next |-> Sig(first, cursor.until, Lowest(sigs))]

Page(cursor, latest) ==
    IF reader = "block" THEN BlockPage(cursor, latest) ELSE SignaturePage(cursor, latest)

-----------------------------------------------------------------------------
(* The scan loop. *)

\* A transfer's event index.  A block has one transfer here, whose index is
\* that of the transaction; the Solana reader numbers a page from the newest.
Event(d, items) ==
    <<d, IF reader = "block" THEN 0 ELSE Cardinality({x \in items : mined[x] > mined[d]})>>

\* UpsertSeenEvent for the transfers to watched addresses.
Recorded(some, items, watched) ==
    seen \cup {Event(d, items) : d \in {x \in some : Payee(x) \in watched}}

\* A scan about to read a page; a scan whose loop ended, and the cursor it keeps.
Paged(watched, cursor, page, empty, passed) ==
    [pc |-> "page", watched |-> watched, cursor |-> cursor, page |-> page, empty |-> empty, passed |-> passed]
Stop(next) == [pc |-> "save", cursor |-> next]

\* The tick of a scanner: the watches (ListWatchAddresses), the cursor and
\* the guard.
BeginScan(s) ==
    /\ s \in setup.scanners
    /\ scans[s] = NoScan
    /\ scans' = [scans EXCEPT ![s] =
         Paged({watchList[i] : i \in {j \in DOMAIN watchList : j <= WatchLimit}}, checkpoint, 1, 0, <<>>)]
    /\ UNCHANGED <<poolVars, chainState, checkpoint, seen, faults, histories, blind, start>>

\* Fault: a scan that stops at empty pages does not keep its cursor.
ObserveForgetful(g, next, count) ==
    LET empty == IF count = 0 THEN g.empty + 1 ELSE 0
        stays == next = NoCursor(reader) \/ next = g.cursor IN
    IF stays \/ empty >= MaxEmptyPages THEN Stop(g.cursor)
    ELSE IF g.page >= MaxPages THEN Stop(next)
    ELSE Paged(g.watched, next, g.page + 1, empty, g.passed)

\* seenCursors: how often a cursor was given, this time included.
Times(passed, next) == Len(SelectSeq(passed, LAMBDA x : x = next)) + 1

\* paginationGuard.Observe and the loop around it: a scan ends at a cursor
\* that does not move or comes back too often, after too many empty pages
\* and at the page limit.
Observe(g, next, count) ==
    LET empty == IF count = 0 THEN g.empty + 1 ELSE 0
        stays == next = NoCursor(reader) \/ next = g.cursor IN
    CASE stays -> Stop(g.cursor)
      [] ~ stays /\ empty >= MaxEmptyPages -> Stop(next)
      [] ~ stays /\ empty < MaxEmptyPages /\ Times(g.passed, next) > CursorStallGuard -> Stop(g.cursor)
      [] OTHER ->
           IF g.page >= MaxPages THEN Stop(next)
           ELSE Paged(g.watched, next, g.page + 1, empty, Append(g.passed, next))

\* One page was read through e and all its transfers were recorded.
ReadPage(s, e) ==
    LET g == scans[s]
        page == Page(g.cursor, view[e]) IN
    /\ g.pc = "page"
    /\ e \in Selectable \ broken
    /\ ReportSuccess(e)
    /\ \E left \in {{}} \cup {{d} : d \in page.items} :
         /\ IF left = {} THEN UNCHANGED faults ELSE Fault("null")
         /\ blind' = blind \cup left
                     \cup (IF reader = "signature" /\ g.cursor.before > view[e]
                           THEN Between(g.cursor.until + 1, g.cursor.before - 1) ELSE {})
         /\ seen' = Recorded(page.items \ left, page.items, g.watched)
         /\ scans' = [scans EXCEPT ![s] = Observe(g, page.next, Cardinality(page.items \ left))]
    /\ start' = IF g.cursor = NoCursor(reader) /\ reader = "block" /\ ResolveFromBlock(-1, view[e]) > start
                THEN ResolveFromBlock(-1, view[e]) ELSE start
    /\ UNCHANGED <<chainState, checkpoint, histories>>

\* The endpoint fails.  The page is tried again, through an endpoint selected
\* anew (withRetry, withChainControl), or the scan ends and the next one
\* starts from the checkpoint.
ReadFails(s, e) ==
    /\ scans[s].pc = "page"
    /\ e \in Selectable
    /\ ReportFailure(e)
    /\ IF e \in broken THEN UNCHANGED faults ELSE Fault("read")
    /\ scans' \in {scans, [scans EXCEPT ![s] = NoScan]}
    /\ UNCHANGED <<chainState, checkpoint, seen, histories, blind, start>>

\* The page was read and some of it recorded when the database fails, or
\* the scanner stops.
StoreFails(s, e) ==
    LET g == scans[s]
        page == Page(g.cursor, view[e]) IN
    /\ g.pc = "page"
    /\ e \in Selectable \ broken
    /\ ReportSuccess(e)
    /\ Fault("store")
    /\ \E part \in SUBSET page.items :
         seen' = Recorded(part, page.items, g.watched)
    /\ scans' = [scans EXCEPT ![s] = NoScan]
    /\ UNCHANGED <<chainState, checkpoint, histories, blind, start>>

\* UpsertChainCheckpoint, UpsertCheckpoint: a number never goes down, any
\* other cursor is replaced.
Stored(old, new) == IF reader = "block" /\ old # -1 /\ new # -1 /\ old > new THEN old ELSE new

Save(s) ==
    /\ scans[s].pc = "save"
    /\ checkpoint' = Stored(checkpoint, scans[s].cursor)
    /\ scans' = [scans EXCEPT ![s] = NoScan]
    /\ UNCHANGED <<poolVars, chainState, seen, faults, histories, blind, start>>

\* The scanner stops, or the database fails, before the cursor is stored.
SaveFails(s) ==
    /\ scans[s].pc = "save"
    /\ Fault("store")
    /\ scans' = [scans EXCEPT ![s] = NoScan]
    /\ UNCHANGED <<poolVars, chainState, checkpoint, seen, histories, blind, start>>

-----------------------------------------------------------------------------
ScanNext ==
    \/ Mine
    \/ Reorg
    \/ \E e \in Endpoints : Sync(e) \/ ProbePool(e)
    \/ \E a \in Addresses : AddWatch(a)
    \/ RefreshPool
    \/ ElapsePool
    \/ \E s \in Scanners :
         \/ BeginScan(s) \/ Save(s) \/ SaveFails(s)
         \/ \E e \in Endpoints : ReadPage(s, e) \/ ReadFails(s, e) \/ StoreFails(s, e)

\* One scanner ticks, circuits end, endpoints that work follow the chain, and
\* at no page of a scan does chance pick an endpoint that fails for ever.
ScanFairness ==
    /\ WF_vars(ElapsePool)
    /\ \A e \in Endpoints : WF_vars(Sync(e))
    /\ WF_vars(BeginScan(Steady) \/ Save(Steady))
    /\ \A n \in 1..MaxPages :
         SF_vars(/\ scans[Steady].pc = "page" /\ scans[Steady].page = n
                 /\ \E e \in Endpoints : ReadPage(Steady, e))

ScanSpec == ScanInit /\ [][ScanNext]_vars
FairScanSpec == ScanSpec /\ ScanFairness

-----------------------------------------------------------------------------
(* Properties. *)

\* The manager's counters stay in their ranges and a circuit is open once.
ScanTypeOK ==
    /\ \A e \in Endpoints :
         /\ streak[e] \in 0..(FailThreshold - 1)
         /\ penalty[e] \in 0..(IF Weight[e] > 0 THEN Weight[e] - 1 ELSE 0)
         /\ \A i, j \in DOMAIN open : open[i] = open[j] => i = j
    /\ \A i \in DOMAIN open : open[i] \in active
    /\ seen \subseteq {d \in Deposits : Payee(d) \in Known} \X Nat
    /\ \A s \in Scanners : scans[s].pc \in {"idle", "page", "save"}

\* What the scanner never promised: a watch beyond WATCH_LIMIT or registered
\* while a scan was under way, blocks before the first look back, a height
\* whose block was replaced, a block the endpoint left out.
Excused(d) ==
    \/ \E i \in DOMAIN watchList : watchList[i] = Payee(d) /\ i > WatchLimit
    \/ Payee(d) \in late
    \/ reader = "block" /\ mined[d] < start
    \/ mined[d] \in replaced
    \/ d \in blind

\* The cursor has gone past a height.
Passed(h) ==
    IF reader = "block" THEN h <= checkpoint
    ELSE h <= checkpoint.until \/ (checkpoint.before # 0 /\ checkpoint.before <= h /\ h <= checkpoint.head)

IsSeen(d) == \E x \in seen : x[1] = d

\* No deposit is left behind: what the stored cursor has passed was recorded,
\* whatever endpoints lag, fail or are replaced between two pages, wherever a
\* scan stops, and with several scanners storing their cursors.
PassedIsSeen ==
    \A d \in Deposits : mined[d] # 0 /\ Passed(mined[d]) /\ ~ Excused(d) => IsSeen(d)

\* The scanner catches up with the chain again and again: a deposit that
\* stays on the chain is seen in the end, though an endpoint
\* never works and the pages before it are empty.
MinedIsSeen ==
    []<>(\A d \in Deposits : mined[d] # 0 => IsSeen(d) \/ Excused(d))
=============================================================================
