-------------------------- MODULE IdempotencyGate --------------------------
(***************************************************************************)
(* A money operation from the public entry to its order: the proxy of      *)
(* api-gateway (transport/http/proxy.go) with the table idem_requests      *)
(* (security/postgres.go), in front of the handlers of wallet-core for     *)
(* /v1/withdraw and /v1/treasury/transfer.                                 *)
(*                                                                         *)
(* A request is one HTTP call; a client that retries sends another request *)
(* with the same header and body.  The gateway serves a request in gate[r] *)
(* and wallet-core in work[r]: after a timeout of the gateway the handler  *)
(* behind it may still be running.                                         *)
(***************************************************************************)
EXTENDS Naturals, FiniteSets

CONSTANTS
    Requests,       \* the HTTP calls
    Messages,       \* what a client may send: header, operation and body
    NoMessage,
    NoHeader,       \* X-Request-ID is absent
    OrderIn,        \* the order id each body names
    NoOrder,        \* ... or none
    OrderNames,     \* the order ids bodies name
    FaultKinds,     \* which of "timeout", "crash", "db" and "upstream" may happen
    MaxFaults       \* bound: how many faults

Operations == {"withdraw", "treasury_transfer"}
Checks == {"token", "key", "policy"}

RequestIds == ({m.id : m \in Messages} \ {NoHeader}) \cup Requests
Bodies == {m.body : m \in Messages}
Keys == RequestIds \X Operations
\* Withdrawals and transfers have a table each.
Orders == Operations \X (OrderNames \cup RequestIds)

ASSUME GateAssumption ==
    /\ NoMessage \notin Messages
    /\ \A m \in Messages : DOMAIN m = {"id", "op", "body"} /\ m.op \in Operations
    /\ OrderIn \in [Bodies -> OrderNames \cup {NoOrder}]
    /\ NoOrder \notin OrderNames \cup RequestIds
    /\ NoHeader \notin Requests
    /\ \A m \in Messages : m.op = "withdraw" => OrderIn[m.body] # NoOrder
    /\ FaultKinds \subseteq {"timeout", "crash", "db", "upstream"}

VARIABLES
    sent,       \* what each request carries
    granted,    \* the operations that token, key and chain policy allow
    gate,       \* where the gateway is with each request
    work,       \* where wallet-core is with it
    reply,      \* what the client was told
    idem,       \* table idem_requests
    orders,     \* status of each withdraw or transfer order
    takers,     \* history: the requests whose handler took the order's funds
    paid,       \* history: how often its transaction was broadcast
    crossed,    \* history: orders with two requests past Reserve at a time
    late,       \* history: requests sent after a success under their key and body
    faults

gateVars == <<sent, granted, gate, work, reply, idem, orders, takers, paid, crossed, late, faults>>

NoRow == [status |-> "NONE", body |-> NoMessage, response |-> NoOrder]

GateTypeOK ==
    /\ sent \in [Requests -> Messages \cup {NoMessage}]
    /\ granted \in [Checks -> SUBSET Operations]
    /\ gate \in [Requests -> {"idle", "authorized", "new", "forwarded", "answered"}]
    /\ work \in [Requests -> {"idle", "asked", "absent", "reserved", "ok", "refused", "error"}]
    /\ reply \in [Requests -> {"none", "denied", "unavailable", "conflict", "replay", "rejected",
                               "ok", "refused", "error", "lost"}]
    /\ idem \in [Keys -> [status : {"NONE", "PENDING", "SUCCESS", "FAILED"},
                          body : Bodies \cup {NoMessage}, response : Orders \cup {NoOrder}]]
    /\ orders \in [Orders -> {"NONE", "LIVE", "FAILED"}]
    /\ takers \subseteq Requests
    /\ paid \in [Orders -> Nat]
    /\ crossed \subseteq Orders
    /\ late \subseteq Requests
    /\ faults \in Nat

GateInit ==
    /\ sent = [r \in Requests |-> NoMessage]
    /\ granted = [c \in Checks |-> Operations]
    /\ gate = [r \in Requests |-> "idle"]
    /\ work = [r \in Requests |-> "idle"]
    /\ reply = [r \in Requests |-> "none"]
    /\ idem = [k \in Keys |-> NoRow]
    /\ orders = [o \in Orders |-> "NONE"]
    /\ takers = {}
    /\ paid = [o \in Orders |-> 0]
    /\ crossed = {}
    /\ late = {}
    /\ faults = 0

-----------------------------------------------------------------------------
(* What a request names. *)

\* The header, or an id of the gateway's own: unique, so the request itself.
RequestId(r) == IF sent[r].id = NoHeader THEN r ELSE sent[r].id

KeyOf(r) == <<RequestId(r), sent[r].op>>

\* Fault: an order id is generated for every call.
OrderOfFresh(r) ==
    <<sent[r].op, IF OrderIn[sent[r].body] # NoOrder THEN OrderIn[sent[r].body] ELSE r>>

\* The order id of the body, or the request id the gateway passes on.
OrderOf(r) ==
    <<sent[r].op,
      IF OrderIn[sent[r].body] # NoOrder THEN OrderIn[sent[r].body] ELSE RequestId(r)>>

Working(r) == work[r] \in {"asked", "absent", "reserved"}
Past(r) == gate[r] \in {"new", "forwarded"} \/ Working(r)
Sibling(r, q) == q # r /\ sent[q] # NoMessage /\ KeyOf(q) = KeyOf(r)

\* The requests for the order came under one key.
OneKey(o) ==
    \A r, q \in Requests :
        sent[r] # NoMessage /\ sent[q] # NoMessage /\ OrderOf(r) = o /\ OrderOf(q) = o
        => KeyOf(r) = KeyOf(q)

Answer(r, a) ==
    /\ gate' = [gate EXCEPT ![r] = "answered"]
    /\ reply' = [reply EXCEPT ![r] = a]

Fault(kind) ==
    /\ kind \in FaultKinds
    /\ faults < MaxFaults
    /\ faults' = faults + 1

orderVars == <<orders, takers, paid>>
historyVars == <<crossed, late>>

-----------------------------------------------------------------------------
(* The gateway. *)

\* An operator takes a permission away (once: a bound).
Revoke ==
    /\ \A c \in Checks : granted[c] = Operations
    /\ \E c \in Checks : granted' = [granted EXCEPT ![c] = {}]
    /\ UNCHANGED <<sent, gate, work, reply, idem, orderVars, historyVars, faults>>

\* An ACTIVE token with the flag of the operation.
TokenAllows(op) == op \in granted["token"]

\* Only a withdrawal names keys; each must be bound to the tenant.
KeyAllows(op) == op = "withdraw" => op \in granted["key"]

\* The most specific ACTIVE policy row of tenant, chain and network; no row
\* is a refusal.
PolicyAllows(op) == op \in granted["policy"]

\* A request arrives.  authorize, checkSignPermission and
\* CheckTenantChainPolicy follow each other; any refusal ends it.
Authorize(r) ==
    /\ gate[r] = "idle"
    /\ \E m \in Messages :
         /\ sent' = [sent EXCEPT ![r] = m]
         /\ late' = IF \E q \in Requests : sent[q] = m /\ m.id # NoHeader /\ reply[q] \in {"ok", "replay"}
                    THEN late \cup {r} ELSE late
         /\ \/ /\ TokenAllows(m.op) /\ KeyAllows(m.op) /\ PolicyAllows(m.op)
               /\ gate' = [gate EXCEPT ![r] = "authorized"]
               /\ UNCHANGED reply
            \/ /\ ~ (TokenAllows(m.op) /\ KeyAllows(m.op) /\ PolicyAllows(m.op))
               /\ Answer(r, "denied")
    /\ UNCHANGED <<granted, work, idem, orderVars, crossed, faults>>

\* Fault: the row takes over the hash of the latest request.
RowAfterReserveRehashed(row, b) ==
    IF row.status = "NONE" THEN [row EXCEPT !.status = "PENDING", !.body = b]
    ELSE [row EXCEPT !.body = b]

\* Fault: the row starts over.
RowAfterReserveReset(row, b) ==
    IF row.status = "NONE" THEN [row EXCEPT !.status = "PENDING", !.body = b]
    ELSE [row EXCEPT !.status = "PENDING"]

\* INSERT ... ON CONFLICT DO UPDATE SET updated_at: an existing row stays.
RowAfterReserve(row, b) ==
    IF row.status = "NONE" THEN [row EXCEPT !.status = "PENDING", !.body = b] ELSE row

\* One statement; what it returns decides.  A row another request left
\* PENDING, or is still working on, counts as new.
Reserve(r) ==
    LET k == KeyOf(r)
        row == RowAfterReserve(idem[k], sent[r].body)
    IN
    /\ gate[r] = "authorized"
    /\ idem' = [idem EXCEPT ![k] = row]
    /\ \/ /\ row.body # sent[r].body
          /\ Answer(r, "conflict")
          /\ UNCHANGED crossed
       \/ /\ row.body = sent[r].body
          /\ row.status = "SUCCESS"
          /\ Answer(r, "replay")
          /\ UNCHANGED crossed
       \/ /\ row.body = sent[r].body
          /\ row.status = "FAILED"
          /\ Answer(r, "rejected")
          /\ UNCHANGED crossed
       \/ /\ row.body = sent[r].body
          /\ row.status = "PENDING"
          /\ gate' = [gate EXCEPT ![r] = "new"]
          /\ crossed' = IF \E q \in Requests \ {r} : Past(q) /\ OrderOf(q) = OrderOf(r)
                        THEN crossed \cup {OrderOf(r)} ELSE crossed
          /\ UNCHANGED reply
    /\ UNCHANGED <<sent, granted, work, orderVars, late, faults>>

ReserveFails(r) ==
    /\ gate[r] = "authorized"
    /\ Fault("db")
    /\ Answer(r, "unavailable")
    /\ UNCHANGED <<sent, granted, work, idem, orderVars, historyVars>>

Forward(r) ==
    /\ gate[r] = "new"
    /\ gate' = [gate EXCEPT ![r] = "forwarded"]
    /\ work' = [work EXCEPT ![r] = "asked"]
    /\ UNCHANGED <<sent, granted, reply, idem, orderVars, historyVars, faults>>

\* The upstream call runs into the client timeout: 502, the row stays PENDING
\* and wallet-core is not told.
Timeout(r) ==
    /\ gate[r] = "forwarded"
    /\ Fault("timeout")
    /\ Answer(r, "lost")
    /\ UNCHANGED <<sent, granted, work, idem, orderVars, historyVars>>

\* The gateway restarts: its requests end without an answer.
Crash ==
    /\ \E r \in Requests : gate[r] \notin {"idle", "answered"}
    /\ Fault("crash")
    /\ gate' = [r \in Requests |-> IF gate[r] = "idle" THEN "idle" ELSE "answered"]
    /\ reply' = [r \in Requests |-> IF gate[r] \in {"idle", "answered"} THEN reply[r] ELSE "lost"]
    /\ UNCHANGED <<sent, granted, work, idem, orderVars, historyVars>>

Commit(row, o) == [row EXCEPT !.status = "SUCCESS", !.response = o]
Reject(row) == [row EXCEPT !.status = "FAILED", !.response = NoOrder]

\* Fault: any answer of the upstream settles the row.
RowAfterAnswerAlways(row, w, o) ==
    IF w = "ok" THEN Commit(row, o) ELSE Reject(row)

\* 2xx commits, 4xx rejects, 5xx leaves the row to a retry.  Neither update
\* looks at the status it overwrites.
RowAfterAnswer(row, w, o) ==
    CASE w = "ok" -> Commit(row, o)
      [] w = "refused" -> Reject(row)
      [] OTHER -> row

Settle(r) ==
    LET k == KeyOf(r) IN
    /\ gate[r] = "forwarded"
    /\ work[r] \in {"ok", "refused", "error"}
    /\ idem' = [idem EXCEPT ![k] = RowAfterAnswer(@, work[r], OrderOf(r))]
    /\ Answer(r, work[r])
    /\ UNCHANGED <<sent, granted, work, orderVars, historyVars, faults>>

\* The update fails: it is logged, and the client gets the answer all the same.
SettleFails(r) ==
    /\ gate[r] = "forwarded"
    /\ work[r] \in {"ok", "refused"}
    /\ Fault("db")
    /\ Answer(r, work[r])
    /\ UNCHANGED <<sent, granted, work, idem, orderVars, historyVars>>

-----------------------------------------------------------------------------
(* The handlers of wallet-core. *)

gateSide == <<sent, granted, gate, reply, idem, historyVars>>

Done(r, w) == work' = [work EXCEPT ![r] = w]

\* Fault: the order's row is not read.
LookSkipped(r) ==
    /\ work[r] = "asked"
    /\ Done(r, "absent")
    /\ UNCHANGED <<gateSide, orderVars, faults>>

\* GetWithdrawStatus or GetTreasuryTransferStatus: an order that exists is
\* answered with its status; a withdrawal that failed is a conflict.
Look(r) ==
    LET o == OrderOf(r) IN
    /\ work[r] = "asked"
    /\ Done(r, CASE orders[o] = "NONE" -> "absent"
                 [] orders[o] = "FAILED" /\ sent[r].op = "withdraw" -> "refused"
                 [] OTHER -> "ok")
    /\ UNCHANGED <<gateSide, orderVars, faults>>

\* QueueWithdraw or ReserveTreasuryTransfer: one transaction that takes the
\* funds of a new order, leaves one that another handler made meanwhile, and
\* refuses a failed one or one the balance does not cover.
Make(r) ==
    LET o == OrderOf(r) IN
    /\ work[r] = "absent"
    /\ \/ /\ orders[o] = "NONE"
          /\ orders' = [orders EXCEPT ![o] = "LIVE"]
          /\ takers' = takers \cup {r}
          /\ Done(r, IF sent[r].op = "withdraw" THEN "ok" ELSE "reserved")
       \/ /\ orders[o] = "LIVE"
          /\ Done(r, IF sent[r].op = "withdraw" THEN "ok" ELSE "reserved")
          /\ UNCHANGED <<orders, takers>>
       \/ /\ orders[o] \in {"NONE", "FAILED"}
          /\ Done(r, "refused")
          /\ UNCHANGED <<orders, takers>>
    /\ UNCHANGED <<gateSide, paid, faults>>

\* BroadcastOnly and what follows it: the transfer is marked, or failed.
Broadcast(r) ==
    LET o == OrderOf(r) IN
    /\ work[r] = "reserved"
    /\ \/ /\ paid' = [paid EXCEPT ![o] = @ + 1]
          /\ Done(r, "ok")
          /\ UNCHANGED orders
       \/ /\ orders' = [orders EXCEPT ![o] = "FAILED"]
          /\ Done(r, "refused")
          /\ UNCHANGED paid
    /\ UNCHANGED <<gateSide, takers, faults>>

\* The handler ends in a 5xx or with its process, wherever it is; a transfer
\* may be on the chain by then.
HandlerFails(r) ==
    LET o == OrderOf(r) IN
    /\ Working(r)
    /\ Fault("upstream")
    /\ Done(r, "error")
    /\ \/ UNCHANGED paid
       \/ work[r] = "reserved" /\ paid' = [paid EXCEPT ![o] = @ + 1]
    /\ UNCHANGED <<gateSide, orders, takers>>

\* The dispatcher or the chain fails a live order later.
OrderFails ==
    /\ \E o \in Orders :
         /\ orders[o] = "LIVE"
         /\ orders' = [orders EXCEPT ![o] = "FAILED"]
    /\ UNCHANGED <<gateSide, work, takers, paid, faults>>

-----------------------------------------------------------------------------
GateStep(r) ==
    \/ Reserve(r) \/ Forward(r) \/ Settle(r)
    \/ Look(r) \/ Make(r) \/ Broadcast(r)

GateFault(r) ==
    \/ ReserveFails(r) \/ Timeout(r) \/ SettleFails(r) \/ HandlerFails(r)

GateNext ==
    \/ \E r \in Requests : Authorize(r) \/ GateStep(r) \/ GateFault(r)
    \/ Revoke
    \/ Crash
    \/ OrderFails

GateSpec == GateInit /\ [][GateNext]_gateVars

-----------------------------------------------------------------------------
(* Properties. *)

\* Two requests with one key that both reached wallet-core carry the same
\* body: the hash of the first one binds the key, whatever becomes of it.
OnePayloadPerKey ==
    \A r, q \in Requests :
        work[r] # "idle" /\ work[q] # "idle" /\ KeyOf(r) = KeyOf(q)
        => sent[r].body = sent[q].body

\* However often a client retries past a PENDING row, and whatever fails in
\* between, funds are taken once for a request id and once for an order: the
\* request id becomes the order id, and the order's row stops the second
\* handler.
FundsTakenOnce ==
    \A r, q \in takers :
        r # q => KeyOf(r) # KeyOf(q) /\ OrderOf(r) # OrderOf(q)

\* A transfer is broadcast once, unless two requests had it at a time.  The
\* gate does not keep them apart: a retry after a timeout is let through
\* while the first handler is at work.
TransferPaidOnce == \A o \in Orders : paid[o] > 1 => o \in crossed

\* A stored answer was earned: a replay repeats the order of a request with
\* the same key and body that succeeded, and a rejection follows a refusal.
StoredAnswersAreEarned ==
    \A r \in Requests :
        /\ reply[r] = "replay" =>
             \E q \in Requests : Sibling(r, q) /\ sent[q].body = sent[r].body /\ work[q] = "ok"
        /\ reply[r] = "rejected" =>
             \E q \in Requests : Sibling(r, q) /\ sent[q].body = sent[r].body /\ work[q] = "refused"

\* When a client is told that its transfer was refused, nothing of it was
\* broadcast, unless two requests had it at a time.  A stored refusal says as
\* much of an order that is asked for under one key: it is not brought up to
\* date when the order is made under another.
RefusedMeansUnpaid ==
    [][\A r \in Requests :
         /\ reply[r] = "none" /\ reply'[r] \in {"refused", "rejected"}
         /\ OrderOf(r) \notin crossed
         /\ reply'[r] = "rejected" => OneKey(OrderOf(r))
         => paid[OrderOf(r)] = 0]_gateVars

\* A client that was told of a success and asks again is told the same, for
\* good, if no two requests had the order at a time and nothing failed: one
\* that crossed another may overwrite SUCCESS with FAILED.
SuccessIsRemembered ==
    \A r \in late :
        reply[r] # "none" /\ faults = 0 /\ OrderOf(r) \notin crossed
        => reply[r] \in {"replay", "denied"}
=============================================================================
