----------------------- MODULE IdempotencyGateProofs -----------------------
(***************************************************************************)
(* Proofs about IdempotencyGate, for any set of requests, messages and     *)
(* order names and any number of faults.                                   *)
(*                                                                         *)
(* The first invariant, GateInv, ties the four tables together: a request  *)
(* past Reserve finds its own body in the row of its key (Bound), a        *)
(* handler that took funds finds its order's row (Taken), and a settled    *)
(* row points at the handler that settled it (Earned).                     *)
(*                                                                         *)
(* The second, PayInv with AnswerInv, follows an order that no two         *)
(* requests had at a time: the handler that finds it absent is alone with  *)
(* it, and a settled row is not written again.                             *)
(***************************************************************************)
EXTENDS IdempotencyGate, TLAPS

\* The part of the type the argument needs.
Typed ==
    /\ sent \in [Requests -> Messages \cup {NoMessage}]
    /\ gate \in [Requests -> {"idle", "authorized", "new", "forwarded", "answered"}]
    /\ work \in [Requests -> {"idle", "asked", "absent", "reserved", "ok", "refused", "error"}]
    /\ DOMAIN reply = Requests
    /\ idem \in [Keys -> [status : {"NONE", "PENDING", "SUCCESS", "FAILED"},
                          body : Bodies \cup {NoMessage}, response : Orders \cup {NoOrder}]]
    /\ DOMAIN orders = Orders
    /\ takers \subseteq Requests

\* A handler runs only for a request the gateway forwarded.
Phases ==
    \A r \in Requests :
        /\ gate[r] = "idle" <=> sent[r] = NoMessage
        /\ gate[r] \in {"idle", "authorized", "new"} => work[r] = "idle"
        /\ gate[r] = "forwarded" => work[r] # "idle"
        /\ reply[r] \in {"replay", "rejected"} => gate[r] = "answered" /\ work[r] = "idle"

Bound ==
    \A r \in Requests :
        gate[r] = "new" \/ work[r] # "idle"
        => idem[KeyOf(r)].status # "NONE" /\ idem[KeyOf(r)].body = sent[r].body

Taken == \A r \in takers : work[r] # "idle" /\ orders[OrderOf(r)] # "NONE"

\* Some request with this key and body ended in w.
Ended(k, b, w) ==
    \E q \in Requests : sent[q] # NoMessage /\ KeyOf(q) = k /\ sent[q].body = b /\ work[q] = w

Earned ==
    /\ \A k \in Keys :
         /\ idem[k].status = "SUCCESS" => Ended(k, idem[k].body, "ok")
         /\ idem[k].status = "FAILED" => Ended(k, idem[k].body, "refused")
    /\ \A r \in Requests :
         /\ reply[r] = "replay" => Ended(KeyOf(r), sent[r].body, "ok")
         /\ reply[r] = "rejected" => Ended(KeyOf(r), sent[r].body, "refused")

GateInv == Typed /\ Phases /\ Bound /\ Taken /\ FundsTakenOnce /\ Earned

-----------------------------------------------------------------------------
(* What a request names. *)

\* The key and the order of a request that was sent are rows of the tables.
LEMMA NamesTyped ==
    ASSUME NEW r \in Requests, sent[r] \in Messages
    PROVE  KeyOf(r) \in Keys /\ OrderOf(r) \in Orders /\ sent[r].body \in Bodies
  <1>1. sent[r].op \in Operations
    BY GateAssumption, Zenon
  <1>2. RequestId(r) \in RequestIds
    BY Zenon DEF RequestId, RequestIds
  <1>3. sent[r].body \in Bodies
    BY Zenon DEF Bodies
  <1>4. OrderIn[sent[r].body] \in OrderNames \cup {NoOrder}
    BY <1>3, GateAssumption, Zenon
  <1> QED
    BY <1>1, <1>2, <1>3, <1>4, Zenon DEF KeyOf, OrderOf, Keys, Orders

\* The order follows from key and body: with the fallback to the request id,
\* a retry names the order of the first call.
LEMMA KeyAndBodyNameTheOrder ==
    ASSUME NEW r \in Requests, NEW q \in Requests,
           KeyOf(r) = KeyOf(q), sent[r].body = sent[q].body
    PROVE  OrderOf(r) = OrderOf(q)
  <1>1. RequestId(r) = RequestId(q) /\ sent[r].op = sent[q].op
    BY Zenon DEF KeyOf
  <1> QED
    BY <1>1, Zenon DEF OrderOf

\* A request keeps its names as long as it is the same request.
LEMMA NamesKept ==
    ASSUME NEW r \in Requests, sent'[r] = sent[r]
    PROVE  KeyOf(r)' = KeyOf(r) /\ OrderOf(r)' = OrderOf(r)
  BY Zenon DEF KeyOf, OrderOf, RequestId

\* What Ended says stays true while requests are not resent and finished
\* handlers stay finished.
LEMMA EndedKept ==
    ASSUME NEW k, NEW b, NEW w \in {"ok", "refused"}, Ended(k, b, w),
           \A q \in Requests : sent[q] # NoMessage => sent'[q] = sent[q],
           \A q \in Requests : work[q] = w => work'[q] = w
    PROVE  Ended(k, b, w)'
  <1>1. PICK q \in Requests : sent[q] # NoMessage /\ KeyOf(q) = k /\ sent[q].body = b /\ work[q] = w
    BY Zenon DEF Ended
  <1>2. sent'[q] = sent[q] /\ work'[q] = w
    BY <1>1, Zenon
  <1>3. KeyOf(q)' = k
    BY <1>1, <1>2, NamesKept, Zenon
  <1> QED
    BY <1>1, <1>2, <1>3, Zenon DEF Ended

-----------------------------------------------------------------------------
(* The steps preserve the invariant. *)

\* The initial state: all tables are empty.
LEMMA GateInvInit == GateInit => GateInv
  <1> SUFFICES ASSUME GateInit PROVE GateInv
    BY Zenon
  <1>1. Typed
    BY Zenon DEF GateInit, Typed, NoRow
  <1>2. Phases
    BY Zenon DEF GateInit, Phases
  <1>3. Bound /\ Taken /\ FundsTakenOnce
    BY Zenon DEF GateInit, Bound, Taken, FundsTakenOnce
  <1>4. Earned
    BY Zenon DEF GateInit, Earned, NoRow
  <1> QED
    BY <1>1, <1>2, <1>3, <1>4, Zenon DEF GateInv

\* Steps that answer requests or change what the invariant does not mention:
\* ReserveFails, Timeout, SettleFails, Crash, Revoke and OrderFails.
Quiet ==
    /\ UNCHANGED <<sent, work, idem, takers>>
    /\ gate' \in [Requests -> {"idle", "authorized", "new", "forwarded", "answered"}]
    /\ \A r \in Requests : gate'[r] = gate[r] \/ (gate[r] # "idle" /\ gate'[r] = "answered")
    /\ DOMAIN reply' = Requests
    /\ \A r \in Requests : reply'[r] = reply[r] \/ reply'[r] \notin {"replay", "rejected"}
    /\ DOMAIN orders' = Orders
    /\ \A o \in Orders : orders[o] # "NONE" => orders'[o] # "NONE"

\* They preserve the invariant.
LEMMA QuietStep ==
    ASSUME GateInv, Quiet
    PROVE  GateInv'
  <1> USE DEF Quiet
  <1>0. \A r \in Requests : KeyOf(r)' = KeyOf(r) /\ OrderOf(r)' = OrderOf(r)
    BY NamesKept, Zenon
  <1>1. Typed'
    BY Zenon DEF GateInv, Typed
  <1>2. Phases'
    BY Zenon DEF GateInv, Phases, Typed
  <1>3. Bound'
    BY <1>0, Zenon DEF GateInv, Bound
  <1>4. Taken'
    <2> SUFFICES ASSUME NEW r \in takers PROVE work[r] # "idle" /\ orders'[OrderOf(r)] # "NONE"
      BY <1>0 DEF Taken, GateInv, Typed
    <2>1. sent[r] \in Messages
      BY DEF GateInv, Typed, Taken, Phases
    <2> QED
      BY <2>1, NamesTyped, Zenon DEF GateInv, Taken, Typed
  <1>5. FundsTakenOnce'
    BY <1>0 DEF GateInv, FundsTakenOnce, Typed
  <1>6. \A k, b, w : Ended(k, b, w)' <=> Ended(k, b, w)
    BY <1>0, Zenon DEF Ended
  <1>7. Earned'
    BY <1>0, <1>6, Zenon DEF GateInv, Earned
  <1> QED
    BY <1>1, <1>2, <1>3, <1>4, <1>5, <1>7, Zenon DEF GateInv

\* A request arrives: it has no row, no handler and no stored answer yet.
LEMMA AuthorizeStep ==
    ASSUME GateInv, NEW r \in Requests, Authorize(r)
    PROVE  GateInv'
  <1>1. PICK m \in Messages : sent' = [sent EXCEPT ![r] = m]
    BY Zenon DEF Authorize
  <1>2. /\ gate[r] = "idle" /\ sent[r] = NoMessage /\ work[r] = "idle" /\ m # NoMessage
        /\ UNCHANGED <<work, idem, orders, takers>>
        /\ reply[r] \notin {"replay", "rejected"}
    BY <1>1, GateAssumption, Zenon DEF Authorize, GateInv, Phases, orderVars
  <1>3. \/ gate' = [gate EXCEPT ![r] = "authorized"] /\ reply' = reply
        \/ gate' = [gate EXCEPT ![r] = "answered"] /\ reply' = [reply EXCEPT ![r] = "denied"]
    BY Zenon DEF Authorize, Answer
  <1>4. \A q \in Requests \ {r} : sent'[q] = sent[q] /\ KeyOf(q)' = KeyOf(q) /\ OrderOf(q)' = OrderOf(q)
    BY <1>1, NamesKept, Zenon DEF GateInv, Typed
  <1>5. Typed'
    BY <1>1, <1>2, <1>3 DEF GateInv, Typed
  <1>6. Phases'
    BY <1>1, <1>2, <1>3, <1>5 DEF GateInv, Phases, Typed
  <1>7. Bound'
    BY <1>1, <1>2, <1>3, <1>4 DEF GateInv, Bound, Typed
  <1>8. r \notin takers
    BY <1>2, Zenon DEF GateInv, Taken
  <1>9. Taken' /\ FundsTakenOnce'
    BY <1>2, <1>4, <1>8 DEF GateInv, Taken, FundsTakenOnce, Typed
  <1>10. ASSUME NEW k, NEW b, NEW w \in {"ok", "refused"}, Ended(k, b, w)
         PROVE  Ended(k, b, w)'
    <2>1. \A q \in Requests : sent[q] # NoMessage => sent'[q] = sent[q]
      BY <1>2, <1>4, Zenon
    <2>2. \A q \in Requests : work[q] = w => work'[q] = w
      BY <1>2, Zenon
    <2> QED
      BY <2>1, <2>2, <1>10, EndedKept, Zenon
  <1>11. Earned'
    <2>1. ASSUME NEW k \in Keys
          PROVE  /\ idem'[k].status = "SUCCESS" => Ended(k, idem[k].body, "ok")'
                 /\ idem'[k].status = "FAILED" => Ended(k, idem[k].body, "refused")'
      BY <1>2, <1>10, Zenon DEF GateInv, Earned
    <2>2. ASSUME NEW q \in Requests, q # r
          PROVE  /\ reply'[q] = "replay" => Ended(KeyOf(q), sent[q].body, "ok")'
                 /\ reply'[q] = "rejected" => Ended(KeyOf(q), sent[q].body, "refused")'
      <3>1. reply'[q] = reply[q]
        BY <1>3, <2>2, Zenon DEF GateInv, Typed
      <3>2. /\ reply[q] = "replay" => Ended(KeyOf(q), sent[q].body, "ok")
            /\ reply[q] = "rejected" => Ended(KeyOf(q), sent[q].body, "refused")
        BY Zenon DEF GateInv, Earned
      <3>3. KeyOf(q)' = KeyOf(q) /\ sent'[q] = sent[q]
        BY <1>4, <2>2, Zenon
      <3>4. /\ reply[q] = "replay" => Ended(KeyOf(q), sent[q].body, "ok")'
            /\ reply[q] = "rejected" => Ended(KeyOf(q), sent[q].body, "refused")'
        <4> DEFINE k == KeyOf(q)  b == sent[q].body
        <4>1. ASSUME NEW w \in {"ok", "refused"}, Ended(k, b, w)
              PROVE  \E p \in Requests : sent'[p] # NoMessage /\ KeyOf(p)' = k /\ sent'[p].body = b /\ work'[p] = w
          <5>1. PICK p \in Requests : sent[p] # NoMessage /\ KeyOf(p) = k /\ sent[p].body = b /\ work[p] = w
            BY <4>1, Zenon DEF Ended
          <5>2. p # r
            BY <5>1, <1>2, Zenon
          <5> QED
            BY <5>1, <5>2, <1>2, <1>4, Zenon
        <4> QED
          BY <4>1, <3>2, <3>3, Zenon DEF Ended
      <3> QED
        BY <3>1, <3>4, Zenon
    <2>3. reply'[r] \notin {"replay", "rejected"}
      BY <1>2, <1>3, Zenon DEF GateInv, Typed
    <2> QED
      BY <2>1, <2>2, <2>3, <1>2, Zenon DEF Earned
  <1> QED
    BY <1>5, <1>6, <1>7, <1>9, <1>11, Zenon DEF GateInv

\* Reserve writes the row of a new key and leaves every other row; the
\* request goes on only with its own body in the row.
LEMMA ReserveStep ==
    ASSUME GateInv, NEW r \in Requests, Reserve(r)
    PROVE  GateInv'
  <1> DEFINE k == KeyOf(r)
             row == RowAfterReserve(idem[k], sent[r].body)
  <1>1. /\ gate[r] = "authorized" /\ work[r] = "idle" /\ sent[r] \in Messages
        /\ UNCHANGED <<sent, work, orders, takers>>
        /\ idem' = [idem EXCEPT ![k] = row]
    BY DEF Reserve, GateInv, Phases, Typed, orderVars
  <1>2. k \in Keys /\ sent[r].body \in Bodies
    BY <1>1, NamesTyped, Zenon
  <1>3. /\ row \in [status : {"NONE", "PENDING", "SUCCESS", "FAILED"},
                    body : Bodies \cup {NoMessage}, response : Orders \cup {NoOrder}]
        /\ row.status # "NONE"
        /\ idem[k].status # "NONE" => row = idem[k]
        /\ idem[k].status = "NONE" => row.status = "PENDING"
    BY <1>2 DEF RowAfterReserve, GateInv, Typed
  <1>4. \/ gate' = [gate EXCEPT ![r] = "new"] /\ reply' = reply /\ row.body = sent[r].body
        \/ gate' = [gate EXCEPT ![r] = "answered"] /\ reply' = [reply EXCEPT ![r] = "conflict"]
        \/ /\ gate' = [gate EXCEPT ![r] = "answered"] /\ reply' = [reply EXCEPT ![r] = "replay"]
           /\ row.body = sent[r].body /\ row.status = "SUCCESS"
        \/ /\ gate' = [gate EXCEPT ![r] = "answered"] /\ reply' = [reply EXCEPT ![r] = "rejected"]
           /\ row.body = sent[r].body /\ row.status = "FAILED"
    BY Zenon DEF Reserve, Answer
  <1>5. \A q \in Requests : KeyOf(q)' = KeyOf(q) /\ OrderOf(q)' = OrderOf(q)
    BY <1>1, NamesKept, Zenon
  <1>6. \A c, b, w : Ended(c, b, w)' <=> Ended(c, b, w)
    BY <1>1, <1>5, Zenon DEF Ended
  <1>7. Typed'
    BY <1>1, <1>2, <1>3, <1>4, Zenon DEF GateInv, Typed
  <1>8. Phases'
    BY <1>1, <1>4 DEF GateInv, Phases, Typed
  <1>9. Bound'
    <2> SUFFICES ASSUME NEW q \in Requests, gate'[q] = "new" \/ work[q] # "idle"
                 PROVE  idem'[KeyOf(q)].status # "NONE" /\ idem'[KeyOf(q)].body = sent[q].body
      BY <1>1, <1>5, Zenon DEF Bound
    <2>1. CASE q = r
      BY <2>1, <1>1, <1>2, <1>3, <1>4, Zenon DEF GateInv, Typed
    <2>2. CASE q # r
      <3>1. /\ idem[KeyOf(q)].status # "NONE" /\ idem[KeyOf(q)].body = sent[q].body
        BY <2>2, <1>4, Zenon DEF GateInv, Bound, Typed
      <3>2. idem'[KeyOf(q)] = idem[KeyOf(q)]
        BY <3>1, <1>1, <1>2, <1>3 DEF GateInv, Typed
      <3> QED
        BY <3>1, <3>2, Zenon
    <2> QED
      BY <2>1, <2>2, Zenon
  <1>10. Taken' /\ FundsTakenOnce'
    BY <1>1, <1>5 DEF GateInv, Taken, FundsTakenOnce, Typed
  <1>11. \A c \in Keys : idem'[c] = idem[c] \/ idem'[c].status = "PENDING"
    BY <1>1, <1>2, <1>3, Zenon DEF GateInv, Typed
  <1>12. Earned'
    <2>1. \A c \in Keys :
            /\ idem'[c].status = "SUCCESS" => Ended(c, idem'[c].body, "ok")
            /\ idem'[c].status = "FAILED" => Ended(c, idem'[c].body, "refused")
      BY <1>11, Zenon DEF GateInv, Earned
    <2>2. /\ row.status = "SUCCESS" => Ended(k, row.body, "ok")
          /\ row.status = "FAILED" => Ended(k, row.body, "refused")
      BY <2>1, <1>1, <1>2, Zenon DEF GateInv, Typed
    <2>3. \A q \in Requests :
            /\ reply'[q] = "replay" => Ended(KeyOf(q), sent[q].body, "ok")
            /\ reply'[q] = "rejected" => Ended(KeyOf(q), sent[q].body, "refused")
      BY <2>2, <1>4, Zenon DEF GateInv, Earned, Typed
    <2> QED
      BY <2>1, <2>3, <1>1, <1>5, <1>6, Zenon DEF Earned
  <1> QED
    BY <1>7, <1>8, <1>9, <1>10, <1>12, Zenon DEF GateInv

\* Forward starts the handler of a bound request.
LEMMA ForwardStep ==
    ASSUME GateInv, NEW r \in Requests, Forward(r)
    PROVE  GateInv'
  <1>1. /\ gate[r] = "new" /\ work[r] = "idle" /\ gate' = [gate EXCEPT ![r] = "forwarded"]
        /\ work' = [work EXCEPT ![r] = "asked"]
        /\ UNCHANGED <<sent, reply, idem, orders, takers>>
    BY Zenon DEF Forward, GateInv, Phases, orderVars
  <1>2. \A q \in Requests : KeyOf(q)' = KeyOf(q) /\ OrderOf(q)' = OrderOf(q)
    BY <1>1, NamesKept, Zenon
  <1>3. Typed'
    BY <1>1, Zenon DEF GateInv, Typed
  <1>4. Phases'
    BY <1>1, Zenon DEF GateInv, Phases, Typed
  <1>5. Bound'
    BY <1>1, <1>2 DEF GateInv, Bound, Typed
  <1>6. Taken' /\ FundsTakenOnce'
    BY <1>1, <1>2 DEF GateInv, Taken, FundsTakenOnce, Typed
  <1>7. ASSUME NEW c, NEW b, NEW w \in {"ok", "refused"}, Ended(c, b, w)
        PROVE  Ended(c, b, w)'
    <2>1. \A q \in Requests : work[q] = w => work'[q] = w
      BY <1>1, Zenon DEF GateInv, Typed
    <2> QED
      BY <2>1, <1>1, <1>7, EndedKept, Zenon
  <1>8. Earned'
    BY <1>1, <1>2, <1>7, Zenon DEF GateInv, Earned
  <1> QED
    BY <1>3, <1>4, <1>5, <1>6, <1>8, Zenon DEF GateInv

\* Settle writes what its own handler ended with, and keeps the body.
LEMMA SettleStep ==
    ASSUME GateInv, NEW r \in Requests, Settle(r)
    PROVE  GateInv'
  <1> DEFINE k == KeyOf(r)
             row == RowAfterAnswer(idem[k], work[r], OrderOf(r))
  <1>1. /\ gate[r] = "forwarded" /\ work[r] \in {"ok", "refused", "error"} /\ sent[r] \in Messages
        /\ UNCHANGED <<sent, work, orders, takers>>
        /\ idem' = [idem EXCEPT ![k] = row]
        /\ gate' = [gate EXCEPT ![r] = "answered"] /\ reply' = [reply EXCEPT ![r] = work[r]]
    BY Zenon DEF Settle, Answer, GateInv, Phases, Typed, orderVars
  <1>2. k \in Keys /\ OrderOf(r) \in Orders
    BY <1>1, NamesTyped, Zenon
  <1>3. idem[k].status # "NONE" /\ idem[k].body = sent[r].body
    BY <1>1, Zenon DEF GateInv, Bound
  <1>4. /\ row \in [status : {"NONE", "PENDING", "SUCCESS", "FAILED"},
                    body : Bodies \cup {NoMessage}, response : Orders \cup {NoOrder}]
        /\ row.status # "NONE" /\ row.body = idem[k].body
        /\ \/ row = idem[k]
           \/ row.status = "SUCCESS" /\ work[r] = "ok"
           \/ row.status = "FAILED" /\ work[r] = "refused"
    BY <1>1, <1>2, <1>3, Zenon DEF RowAfterAnswer, Commit, Reject, GateInv, Typed
  <1>5. \A q \in Requests : KeyOf(q)' = KeyOf(q) /\ OrderOf(q)' = OrderOf(q)
    BY <1>1, NamesKept, Zenon
  <1>6. \A c, b, w : Ended(c, b, w)' <=> Ended(c, b, w)
    BY <1>1, <1>5, Zenon DEF Ended
  <1>7. Typed'
    BY <1>1, <1>2, <1>4, Zenon DEF GateInv, Typed
  <1>8. Phases'
    BY <1>1 DEF GateInv, Phases, Typed
  <1>9. Bound'
    BY <1>1, <1>2, <1>4, <1>5 DEF GateInv, Bound, Typed
  <1>10. Taken' /\ FundsTakenOnce'
    BY <1>1, <1>5 DEF GateInv, Taken, FundsTakenOnce, Typed
  <1>11. Earned'
    <2>1. sent[r] # NoMessage
      BY <1>1, GateAssumption, Zenon
    <2>2. Ended(k, row.body, work[r])
      BY <2>1, <1>3, <1>4, Zenon DEF Ended
    <2>3. \A c \in Keys :
            /\ idem'[c].status = "SUCCESS" => Ended(c, idem'[c].body, "ok")
            /\ idem'[c].status = "FAILED" => Ended(c, idem'[c].body, "refused")
      BY <2>2, <1>1, <1>2, <1>4 DEF GateInv, Earned, Typed
    <2>4. \A q \in Requests :
            /\ reply'[q] = "replay" => Ended(KeyOf(q), sent[q].body, "ok")
            /\ reply'[q] = "rejected" => Ended(KeyOf(q), sent[q].body, "refused")
      BY <1>1, Zenon DEF GateInv, Earned, Typed
    <2> QED
      BY <2>3, <2>4, <1>1, <1>5, <1>6, Zenon DEF Earned
  <1> QED
    BY <1>7, <1>8, <1>9, <1>10, <1>11, Zenon DEF GateInv

\* A handler moves on: it takes funds only for an order that has no row, and
\* then the row is there.
LEMMA HandlerStep ==
    ASSUME GateInv, NEW r \in Requests, Working(r),
           UNCHANGED <<sent, gate, reply, idem>>,
           NEW w \in {"absent", "reserved", "ok", "refused", "error"}, work' = [work EXCEPT ![r] = w],
           DOMAIN orders' = Orders,
           \A o \in Orders : orders[o] # "NONE" => orders'[o] # "NONE",
           \/ takers' = takers
           \/ /\ takers' = takers \cup {r}
              /\ orders[OrderOf(r)] = "NONE" /\ orders'[OrderOf(r)] # "NONE"
    PROVE  GateInv'
  <1>1. work[r] \in {"asked", "absent", "reserved"}
    BY Zenon DEF Working
  <1>2. \A q \in Requests : KeyOf(q)' = KeyOf(q) /\ OrderOf(q)' = OrderOf(q)
    BY NamesKept, Zenon
  <1>3. Typed'
    BY Zenon DEF GateInv, Typed
  <1>4. Phases'
    BY <1>1, Zenon DEF GateInv, Phases, Typed
  <1>5. Bound'
    BY <1>1, <1>2 DEF GateInv, Bound, Typed
  <1>6. \A q \in takers : OrderOf(q) \in Orders
    BY NamesTyped, Zenon DEF GateInv, Typed, Taken, Phases
  <1>7. Taken'
    BY <1>1, <1>2, <1>6 DEF GateInv, Taken, Typed
  <1>8. FundsTakenOnce'
    <2> SUFFICES ASSUME NEW q \in takers, takers' = takers \cup {r}, orders[OrderOf(r)] = "NONE"
                 PROVE  OrderOf(q) # OrderOf(r) /\ KeyOf(q) # KeyOf(r)
      BY <1>2 DEF GateInv, FundsTakenOnce, Typed
    <2>1. q \in Requests /\ work[q] # "idle" /\ orders[OrderOf(q)] # "NONE"
      BY Zenon DEF GateInv, Taken, Typed
    <2>2. OrderOf(q) # OrderOf(r)
      BY <2>1, Zenon
    <2>3. KeyOf(q) = KeyOf(r) => sent[q].body = sent[r].body
      BY <2>1, <1>1, Zenon DEF GateInv, Bound
    <2> QED
      BY <2>1, <2>2, <2>3, KeyAndBodyNameTheOrder, Zenon
  <1>9. ASSUME NEW c, NEW b, NEW v \in {"ok", "refused"}, Ended(c, b, v)
        PROVE  Ended(c, b, v)'
    <2>1. \A q \in Requests : work[q] = v => work'[q] = v
      BY <1>1, Zenon DEF GateInv, Typed
    <2> QED
      BY <2>1, <1>9, EndedKept, Zenon
  <1>10. Earned'
    BY <1>2, <1>9, Zenon DEF GateInv, Earned
  <1> QED
    BY <1>3, <1>4, <1>5, <1>7, <1>8, <1>10, Zenon DEF GateInv

\* Every step preserves the invariant.
LEMMA GateInvNext == GateInv /\ [GateNext]_gateVars => GateInv'
  <1> SUFFICES ASSUME GateInv, [GateNext]_gateVars PROVE GateInv'
    BY Zenon
  <1>0. Typed /\ Phases
    BY Zenon DEF GateInv
  <1>1. ASSUME NEW r \in Requests, Authorize(r) PROVE GateInv'
    BY <1>1, AuthorizeStep, Zenon
  <1>2. ASSUME NEW r \in Requests, Reserve(r) PROVE GateInv'
    BY <1>2, ReserveStep, Zenon
  <1>3. ASSUME NEW r \in Requests, Forward(r) PROVE GateInv'
    BY <1>3, ForwardStep, Zenon
  <1>4. ASSUME NEW r \in Requests, Settle(r) PROVE GateInv'
    BY <1>4, SettleStep, Zenon
  <1>5. ASSUME NEW r \in Requests, Look(r) PROVE GateInv'
    <2>1. PICK w \in {"absent", "ok", "refused"} : work' = [work EXCEPT ![r] = w]
      BY <1>5, Zenon DEF Look, Done
    <2>2. UNCHANGED <<sent, gate, reply, idem, takers, orders>> /\ Working(r)
      BY <1>5, Zenon DEF Look, Working, gateSide, orderVars
    <2>3. DOMAIN orders = Orders
      BY <1>0, Zenon DEF Typed
    <2> QED
      BY <2>1, <2>2, <2>3, HandlerStep, Zenon
  <1>6. ASSUME NEW r \in Requests, Make(r) PROVE GateInv'
    <2>1. PICK w \in {"reserved", "ok", "refused"} : work' = [work EXCEPT ![r] = w]
      BY <1>6, Zenon DEF Make, Done
    <2>2. OrderOf(r) \in Orders
      BY <1>0, <1>6, NamesTyped, Zenon DEF Make, Phases, Typed
    <2>3. \/ takers' = takers /\ orders' = orders
          \/ /\ takers' = takers \cup {r} /\ orders[OrderOf(r)] = "NONE"
             /\ orders' = [orders EXCEPT ![OrderOf(r)] = "LIVE"]
      BY <1>6, Zenon DEF Make
    <2>4. UNCHANGED <<sent, gate, reply, idem>> /\ Working(r)
      BY <1>6, Zenon DEF Make, Working, gateSide
    <2>5. DOMAIN orders' = Orders /\ \A o \in Orders : orders[o] # "NONE" => orders'[o] # "NONE"
      BY <1>0, <2>2, <2>3, Zenon DEF Typed
    <2>6. orders[OrderOf(r)] = "NONE" /\ takers' # takers => orders'[OrderOf(r)] # "NONE"
      BY <1>0, <2>2, <2>3, <2>4, Zenon DEF Typed
    <2> QED
      BY <2>1, <2>3, <2>4, <2>5, <2>6, HandlerStep, Zenon
  <1>7. ASSUME NEW r \in Requests, Broadcast(r) PROVE GateInv'
    <2>1. PICK w \in {"ok", "refused"} : work' = [work EXCEPT ![r] = w]
      BY <1>7, Zenon DEF Broadcast, Done
    <2>2. OrderOf(r) \in Orders
      BY <1>0, <1>7, NamesTyped DEF Broadcast, Phases, Typed
    <2>3. orders' = orders \/ orders' = [orders EXCEPT ![OrderOf(r)] = "FAILED"]
      BY <1>7, Zenon DEF Broadcast
    <2>4. UNCHANGED <<sent, gate, reply, idem, takers>> /\ Working(r)
      BY <1>7, Zenon DEF Broadcast, Working, gateSide
    <2>5. DOMAIN orders' = Orders /\ \A o \in Orders : orders[o] # "NONE" => orders'[o] # "NONE"
      BY <1>0, <2>2, <2>3, Zenon DEF Typed
    <2>6. orders[OrderOf(r)] = "NONE" /\ takers' # takers => orders'[OrderOf(r)] # "NONE"
      BY <1>0, <2>2, <2>3, <2>4, Zenon DEF Typed
    <2> QED
      BY <2>1, <2>3, <2>4, <2>5, <2>6, HandlerStep, Zenon
  <1>8. ASSUME NEW r \in Requests, HandlerFails(r) PROVE GateInv'
    <2>1. UNCHANGED <<sent, gate, reply, idem, takers, orders>> /\ Working(r)
      BY <1>8, Zenon DEF HandlerFails, gateSide
    <2>2. work' = [work EXCEPT ![r] = "error"] /\ DOMAIN orders = Orders
      BY <1>0, <1>8, Zenon DEF HandlerFails, Done, Typed
    <2> QED
      BY <2>1, <2>2, HandlerStep, Zenon
  <1>9. ASSUME NEW r \in Requests, ReserveFails(r) \/ Timeout(r) \/ SettleFails(r) PROVE GateInv'
    <2>1. /\ UNCHANGED <<sent, work, idem, takers, orders>> /\ gate[r] # "idle"
          /\ gate' = [gate EXCEPT ![r] = "answered"]
      BY <1>9, Zenon DEF ReserveFails, Timeout, SettleFails, Answer, orderVars
    <2>2. PICK a \in {"unavailable", "lost", "ok", "refused"} : reply' = [reply EXCEPT ![r] = a]
      BY <1>9, Zenon DEF ReserveFails, Timeout, SettleFails, Answer
    <2>3. Quiet
      BY <1>0, <2>1, <2>2, Zenon DEF Typed, Quiet
    <2> QED
      BY <2>3, QuietStep, Zenon
  <1>10. ASSUME Crash PROVE GateInv'
    <2>1. Quiet
      BY <1>0, <1>10, Zenon DEF Crash, Typed, Quiet, orderVars
    <2> QED
      BY <2>1, QuietStep, Zenon
  <1>11. ASSUME Revoke \/ UNCHANGED gateVars PROVE GateInv'
    <2>1. UNCHANGED <<sent, gate, reply, work, idem, takers, orders>>
      BY <1>11, Zenon DEF Revoke, gateVars, orderVars
    <2>2. Quiet
      BY <1>0, <2>1, Zenon DEF Typed, Quiet
    <2> QED
      BY <2>2, QuietStep, Zenon
  <1>12. ASSUME OrderFails PROVE GateInv'
    <2>1. Quiet
      BY <1>0, <1>12, Zenon DEF Typed, OrderFails, gateSide, Quiet
    <2> QED
      BY <2>1, QuietStep, Zenon
  <1> QED
    BY <1>1, <1>2, <1>3, <1>4, <1>5, <1>6, <1>7, <1>8, <1>9, <1>10, <1>11, <1>12, Zenon
       DEF GateNext, GateStep, GateFault

-----------------------------------------------------------------------------
\* The invariant holds throughout.
THEOREM GateInvHolds == GateSpec => []GateInv
  BY GateInvInit, GateInvNext, PTL DEF GateSpec

\* Two requests with one key that reached wallet-core carry one body, for any
\* number of requests, retries and faults.
THEOREM KeysBindPayloads == GateSpec => []OnePayloadPerKey
  <1>1. GateInv => OnePayloadPerKey
    BY Zenon DEF GateInv, Bound, OnePayloadPerKey
  <1> QED
    BY <1>1, GateInvHolds, PTL

\* Funds are taken once per request id and once per order.
THEOREM RetriesTakeFundsOnce == GateSpec => []FundsTakenOnce
  <1>1. GateInv => FundsTakenOnce
    BY Zenon DEF GateInv
  <1> QED
    BY <1>1, GateInvHolds, PTL

\* A replay or a stored rejection repeats what a handler ended with.
THEOREM ReplaysAreEarned == GateSpec => []StoredAnswersAreEarned
  <1>1. GateInv => StoredAnswersAreEarned
    <2> SUFFICES ASSUME GateInv, NEW r \in Requests, reply[r] \in {"replay", "rejected"},
                        NEW w \in {"ok", "refused"}, Ended(KeyOf(r), sent[r].body, w)
                 PROVE  \E q \in Requests : Sibling(r, q) /\ sent[q].body = sent[r].body /\ work[q] = w
      BY Zenon DEF StoredAnswersAreEarned, GateInv, Earned
    <2>1. work[r] = "idle"
      BY Zenon DEF GateInv, Phases
    <2> QED
      BY <2>1, Zenon DEF Ended, Sibling
  <1> QED
    BY <1>1, GateInvHolds, PTL

-----------------------------------------------------------------------------
(***************************************************************************)
(* What was paid and what is remembered.  The second invariant follows an  *)
(* order that no two requests had at a time: the handler that finds it     *)
(* absent is the only one at work on it, so nothing of it was broadcast    *)
(* before that handler does; and a settled row is not written again.       *)
(***************************************************************************)
Counted ==
    /\ paid \in [Orders -> Nat] /\ faults \in Nat /\ late \subseteq Requests
    /\ \A r \in Requests : gate[r] # "answered" => reply[r] = "none"

\* Two requests past Reserve with one order are noticed.
Alone ==
    \A r, q \in Requests :
        r # q /\ Past(r) /\ Past(q) /\ OrderOf(r) = OrderOf(q) => OrderOf(r) \in crossed

\* An order that was paid is a transfer that has a row.
PaidOrdersExist ==
    /\ \A o \in Orders : paid[o] > 0 => orders[o] # "NONE" /\ o[1] = "treasury_transfer"
    /\ \A r \in Requests :
         work[r] = "reserved" => orders[OrderOf(r)] # "NONE" /\ sent[r].op = "treasury_transfer"

\* What the one handler at work on an order knows of it.
Unpaid ==
    \A r \in Requests : work[r] # "idle" /\ OrderOf(r) \notin crossed =>
      /\ work[r] = "absent" => orders[OrderOf(r)] = "NONE"
      /\ work[r] = "reserved" \/ (work[r] = "refused" /\ gate[r] = "forwarded") => paid[OrderOf(r)] = 0

\* A settled row is written again only by requests that crossed.
SettledStay ==
    \A r \in Requests :
        Past(r) /\ idem[KeyOf(r)].status \in {"SUCCESS", "FAILED"} => OrderOf(r) \in crossed

\* A stored refusal is of an order that was not paid.
RefusalsStand ==
    \A r \in Requests :
        /\ sent[r] # NoMessage /\ OrderOf(r) \notin crossed /\ OneKey(OrderOf(r))
        /\ idem[KeyOf(r)].status = "FAILED" /\ idem[KeyOf(r)].body = sent[r].body
        => paid[OrderOf(r)] = 0

SuccessStored(r) == idem[KeyOf(r)].status = "SUCCESS" /\ idem[KeyOf(r)].body = sent[r].body

\* A success that was reported is stored, and whoever asks later finds it.
Remembered ==
    /\ \A r \in Requests :
         reply[r] \in {"ok", "replay"} /\ faults = 0 /\ OrderOf(r) \notin crossed => SuccessStored(r)
    /\ \A r \in late :
         gate[r] # "idle" /\ (faults = 0 /\ OrderOf(r) \notin crossed =>
           \/ gate[r] = "authorized" /\ SuccessStored(r)
           \/ gate[r] = "answered" /\ reply[r] \in {"replay", "denied"})

PayInv == Counted /\ Alone /\ PaidOrdersExist /\ TransferPaidOnce /\ Unpaid
AnswerInv == SettledStay /\ RefusalsStand /\ Remembered

\* A request past Reserve was sent, and its body is the row's.
LEMMA PastIsBound ==
    ASSUME GateInv, NEW r \in Requests, Past(r)
    PROVE  /\ sent[r] \in Messages /\ sent[r] # NoMessage /\ KeyOf(r) \in Keys /\ OrderOf(r) \in Orders
           /\ idem[KeyOf(r)].status # "NONE" /\ idem[KeyOf(r)].body = sent[r].body
  <1>1. gate[r] = "new" \/ work[r] # "idle"
    BY Zenon DEF Past, Working, GateInv, Phases
  <1>2. sent[r] # NoMessage /\ sent[r] \in Messages
    BY <1>1, Zenon DEF GateInv, Phases, Typed
  <1>3. idem[KeyOf(r)].status # "NONE" /\ idem[KeyOf(r)].body = sent[r].body
    BY <1>1, Zenon DEF GateInv, Bound
  <1> QED
    BY <1>2, <1>3, NamesTyped, Zenon

\* A handler runs for a request that was sent.
LEMMA WorkIsSent ==
    ASSUME GateInv, NEW r \in Requests, work[r] # "idle"
    PROVE  /\ sent[r] \in Messages /\ sent[r] # NoMessage /\ KeyOf(r) \in Keys /\ OrderOf(r) \in Orders
           /\ sent[r].op \in Operations /\ OrderOf(r)[1] = sent[r].op
  <1>1. sent[r] # NoMessage /\ sent[r] \in Messages
    BY Zenon DEF GateInv, Phases, Typed
  <1> QED
    BY <1>1, NamesTyped, GateAssumption, Zenon DEF OrderOf

\* At the start nothing is paid, stored or late.
LEMMA PayInit == GateInit => PayInv /\ AnswerInv
  <1> SUFFICES ASSUME GateInit PROVE PayInv /\ AnswerInv
    BY Zenon
  <1>1. Counted
    BY Zenon DEF GateInit, Counted
  <1>2. Alone
    BY Zenon DEF GateInit, Alone, Past, Working
  <1>3. PaidOrdersExist /\ TransferPaidOnce
    BY DEF GateInit, PaidOrdersExist, TransferPaidOnce
  <1>4. Unpaid /\ SettledStay
    BY Zenon DEF GateInit, Unpaid, SettledStay, Past, Working
  <1>5. RefusalsStand
    BY Zenon DEF GateInit, RefusalsStand
  <1>6. Remembered
    BY Zenon DEF GateInit, Remembered
  <1> QED
    BY <1>1, <1>2, <1>3, <1>4, <1>5, <1>6, Zenon DEF PayInv, AnswerInv

\* What the quiet steps do to payments and answers: an answer that is no row's
\* comes with a fault.
QuietPay ==
    /\ UNCHANGED <<paid, crossed, late>>
    /\ \A o \in Orders : orders'[o] = "NONE" <=> orders[o] = "NONE"
    /\ \/ UNCHANGED <<gate, reply, faults>>
       \/ faults' = faults + 1 /\ \A r \in Requests : gate'[r] # "answered" => reply'[r] = reply[r]

\* They preserve the second invariant.
LEMMA QuietPays ==
    ASSUME GateInv, PayInv, AnswerInv, Quiet, QuietPay
    PROVE  PayInv' /\ AnswerInv'
  <1> USE DEF PayInv, AnswerInv
  <1>0. /\ \A r \in Requests : KeyOf(r)' = KeyOf(r) /\ OrderOf(r)' = OrderOf(r)
        /\ UNCHANGED <<sent, work, idem, paid, crossed, late>>
        /\ \A r \in Requests : gate'[r] = gate[r] \/ (gate[r] # "idle" /\ gate'[r] = "answered")
        /\ faults \in Nat /\ faults' \in Nat
        /\ \A o \in Orders : orders'[o] = "NONE" <=> orders[o] = "NONE"
    BY NamesKept DEF Quiet, QuietPay, Counted
  <1>1. \A r \in Requests : Past(r)' => Past(r)
    BY <1>0, Zenon DEF Past, Working
  <1>2. Counted'
    BY <1>0, Zenon DEF Counted, QuietPay
  <1>3. Alone'
    BY <1>0, <1>1, Zenon DEF Alone
  <1>4. PaidOrdersExist'
    <2>1. \A o \in Orders : paid'[o] > 0 => orders'[o] # "NONE" /\ o[1] = "treasury_transfer"
      BY <1>0, Zenon DEF PaidOrdersExist
    <2>2. ASSUME NEW r \in Requests, work'[r] = "reserved"
          PROVE  orders'[OrderOf(r)'] # "NONE" /\ sent'[r].op = "treasury_transfer"
      <3>1. OrderOf(r) \in Orders
        BY <1>0, <2>2, WorkIsSent, Zenon
      <3> QED
        BY <1>0, <2>2, <3>1, Zenon DEF PaidOrdersExist
    <2> QED
      BY <2>1, <2>2, Zenon DEF PaidOrdersExist
  <1>5. TransferPaidOnce'
    BY <1>0, Zenon DEF TransferPaidOnce
  <1>6. Unpaid'
    <2> SUFFICES ASSUME NEW r \in Requests, work[r] # "idle", OrderOf(r) \notin crossed
                 PROVE  /\ work[r] = "absent" => orders'[OrderOf(r)] = "NONE"
                        /\ work[r] = "reserved" \/ (work[r] = "refused" /\ gate'[r] = "forwarded")
                           => paid[OrderOf(r)] = 0
      BY <1>0, Zenon DEF Unpaid
    <2>1. OrderOf(r) \in Orders
      BY WorkIsSent, Zenon
    <2> QED
      BY <1>0, <2>1, Zenon DEF Unpaid
  <1>7. SettledStay'
    BY <1>0, <1>1, Zenon DEF SettledStay
  <1>8. \A o : OneKey(o)' <=> OneKey(o)
    BY <1>0, Zenon DEF OneKey
  <1>9. RefusalsStand'
    BY <1>0, <1>8, Zenon DEF RefusalsStand
  <1>10. Remembered'
    <2>1. \A r \in late : gate'[r] # "idle"
      BY <1>0, Zenon DEF Remembered, Counted
    <2>2. CASE faults' # 0
      BY <1>0, <2>1, <2>2, Zenon DEF Remembered
    <2>3. CASE UNCHANGED <<gate, reply, faults>>
      BY <1>0, <2>3 DEF Remembered, SuccessStored, Counted
    <2> QED
      BY <1>0, <2>2, <2>3 DEF QuietPay
  <1> QED
    BY <1>2, <1>3, <1>4, <1>5, <1>6, <1>7, <1>9, <1>10, Zenon

\* A request arrives.  One that repeats a request with a stored refusal names
\* its order, and one that repeats a success finds it stored.
LEMMA AuthorizePays ==
    ASSUME GateInv, PayInv, AnswerInv, NEW r \in Requests, Authorize(r)
    PROVE  PayInv' /\ AnswerInv'
  <1> USE DEF PayInv, AnswerInv
  <1>1. PICK m \in Messages :
          /\ sent' = [sent EXCEPT ![r] = m]
          /\ late' = IF \E q \in Requests : sent[q] = m /\ m.id # NoHeader /\ reply[q] \in {"ok", "replay"}
                     THEN late \cup {r} ELSE late
          /\ \/ gate' = [gate EXCEPT ![r] = "authorized"] /\ reply' = reply
             \/ gate' = [gate EXCEPT ![r] = "answered"] /\ reply' = [reply EXCEPT ![r] = "denied"]
    BY Zenon DEF Authorize, Answer
  <1>2. /\ gate[r] = "idle" /\ sent[r] = NoMessage /\ work[r] = "idle" /\ m # NoMessage
        /\ UNCHANGED <<work, idem, orders, paid, crossed, faults>>
        /\ reply[r] = "none"
    BY <1>1, GateAssumption, Zenon DEF Authorize, GateInv, Phases, orderVars, Counted
  <1>3. /\ \A q \in Requests \ {r} :
             /\ sent'[q] = sent[q] /\ KeyOf(q)' = KeyOf(q) /\ OrderOf(q)' = OrderOf(q)
             /\ gate'[q] = gate[q] /\ reply'[q] = reply[q]
        /\ sent'[r] = m /\ gate'[r] \in {"authorized", "answered"}
        /\ reply'[r] = IF gate'[r] = "answered" THEN "denied" ELSE "none"
    BY <1>1, <1>2, NamesKept, Zenon DEF GateInv, Typed
  <1>4. (\A q \in Requests : Past(q)' => Past(q) /\ q # r) /\ \A q \in Requests : work[q] # "idle" => q # r
    BY <1>2, <1>3, Zenon DEF Past, Working
  <1>5. Counted'
    BY <1>1, <1>2, <1>3, Zenon DEF Counted
  <1>6. Alone'
    BY <1>2, <1>3, <1>4 DEF Alone
  <1>7. PaidOrdersExist'
    BY <1>2, <1>3, <1>4, Zenon DEF PaidOrdersExist
  <1>8. TransferPaidOnce'
    BY <1>2, Zenon DEF TransferPaidOnce
  <1>9. Unpaid'
    BY <1>2, <1>3, <1>4 DEF Unpaid
  <1>10. SettledStay'
    BY <1>2, <1>3, <1>4, Zenon DEF SettledStay
  <1>11. \A o : OneKey(o)' => OneKey(o)
    BY <1>2, <1>3 DEF OneKey
  <1>12. RefusalsStand'
    <2> SUFFICES ASSUME NEW q \in Requests,
                        (/\ sent[q] # NoMessage /\ OrderOf(q) \notin crossed /\ OneKey(OrderOf(q))
                         /\ idem[KeyOf(q)].status = "FAILED" /\ idem[KeyOf(q)].body = sent[q].body)'
                 PROVE  paid[OrderOf(q)'] = 0
      BY <1>2, Zenon DEF RefusalsStand
    <2>1. CASE q # r
      BY <1>2, <1>3, <1>11, <2>1, Zenon DEF RefusalsStand
    <2>2. CASE q = r
      <3> DEFINE k == KeyOf(r)'
      <3>1. k \in Keys
        <4>1. m.op \in Operations /\ m.id \in {x.id : x \in Messages}
          BY GateAssumption, Zenon
        <4> QED
          BY <1>3, <4>1, Zenon DEF KeyOf, RequestId, Keys, RequestIds
      <3>2. Ended(k, m.body, "refused")
        BY <1>2, <1>3, <2>2, <3>1, Zenon DEF GateInv, Earned
      <3>3. PICK p \in Requests : sent[p] # NoMessage /\ KeyOf(p) = k /\ sent[p].body = m.body
        BY <3>2, Zenon DEF Ended
      <3>4. p # r
        BY <1>2, <3>3, Zenon
      <3>5. OrderOf(p) = OrderOf(r)'
        BY <1>3, <3>3, <3>4, Zenon DEF KeyOf, OrderOf, RequestId
      <3>6. /\ OrderOf(p) \notin crossed /\ OneKey(OrderOf(p))
            /\ idem[KeyOf(p)].status = "FAILED" /\ idem[KeyOf(p)].body = sent[p].body
        BY <1>2, <1>3, <1>11, <2>2, <3>3, <3>5, Zenon
      <3> QED
        BY <2>2, <3>3, <3>5, <3>6, Zenon DEF RefusalsStand
    <2> QED
      BY <2>1, <2>2, Zenon
  <1>13. Remembered'
    <2>1. ASSUME NEW q \in Requests, reply'[q] \in {"ok", "replay"}, faults' = 0, OrderOf(q)' \notin crossed'
          PROVE  SuccessStored(q)'
      <3>1. q # r
        BY <1>3, <2>1, Zenon
      <3> QED
        BY <1>2, <1>3, <2>1, <3>1 DEF Remembered, SuccessStored
    <2>2. ASSUME NEW q \in late', faults' = 0, OrderOf(q)' \notin crossed'
          PROVE  \/ gate'[q] = "authorized" /\ SuccessStored(q)'
                 \/ gate'[q] = "answered" /\ reply'[q] \in {"replay", "denied"}
      <3>1. CASE q # r
        <4>1. q \in late /\ q \in Requests
          BY <1>1, <2>2, <3>1, Zenon DEF Counted
        <4> QED
          BY <1>2, <1>3, <2>2, <3>1, <4>1 DEF Remembered, SuccessStored
      <3>2. CASE q = r /\ gate'[r] = "answered"
        BY <1>3, <3>2, Zenon
      <3>3. CASE q = r /\ gate'[r] = "authorized"
        <4>1. r \notin late
          BY <1>2, Zenon DEF Remembered
        <4>2. PICK p \in Requests : sent[p] = m /\ m.id # NoHeader /\ reply[p] \in {"ok", "replay"}
          BY <1>1, <2>2, <3>3, <4>1, Zenon
        <4>3. KeyOf(p) = KeyOf(r)' /\ OrderOf(p) = OrderOf(r)' /\ sent[p].body = sent'[r].body
          BY <1>3, <4>2 DEF KeyOf, OrderOf, RequestId
        <4>4. SuccessStored(p)
          BY <1>2, <2>2, <3>3, <4>2, <4>3, Zenon DEF Remembered
        <4> QED
          BY <1>2, <3>3, <4>3, <4>4, Zenon DEF SuccessStored
      <3> QED
        BY <1>3, <3>1, <3>2, <3>3, Zenon
    <2>3. \A q \in late' : gate'[q] # "idle"
      BY <1>1, <1>3, Zenon DEF Remembered, Counted
    <2> QED
      BY <2>1, <2>2, <2>3, Zenon DEF Remembered
  <1> QED
    BY <1>5, <1>6, <1>7, <1>8, <1>9, <1>10, <1>12, <1>13, Zenon

\* Reserve notices a second request for the order, and a late request finds
\* the row settled.
LEMMA ReservePays ==
    ASSUME GateInv, PayInv, AnswerInv, NEW r \in Requests, Reserve(r)
    PROVE  PayInv' /\ AnswerInv'
  <1> USE DEF PayInv, AnswerInv
  <1> DEFINE k == KeyOf(r)
             row == RowAfterReserve(idem[k], sent[r].body)
  <1>1. /\ gate[r] = "authorized" /\ work[r] = "idle" /\ sent[r] \in Messages
        /\ UNCHANGED <<sent, work, orders, takers, paid, late, faults>>
        /\ idem' = [idem EXCEPT ![k] = row]
    BY SMTT(60) DEF Reserve, GateInv, Phases, Typed, orderVars
  <1>2. k \in Keys /\ sent[r].body \in Bodies
    BY <1>1, NamesTyped, Zenon
  <1>3. /\ row.status # "NONE"
        /\ idem[k].status # "NONE" => row = idem[k]
        /\ idem[k].status = "NONE" => row.status = "PENDING"
    BY <1>2, Zenon DEF RowAfterReserve, GateInv, Typed
  <1>4. \/ /\ gate' = [gate EXCEPT ![r] = "new"] /\ reply' = reply /\ row.status = "PENDING"
           /\ crossed' = IF \E q \in Requests \ {r} : Past(q) /\ OrderOf(q) = OrderOf(r)
                         THEN crossed \cup {OrderOf(r)} ELSE crossed
        \/ /\ gate' = [gate EXCEPT ![r] = "answered"] /\ reply' = [reply EXCEPT ![r] = "conflict"]
           /\ row.body # sent[r].body /\ crossed' = crossed
        \/ /\ gate' = [gate EXCEPT ![r] = "answered"] /\ reply' = [reply EXCEPT ![r] = "replay"]
           /\ row.body = sent[r].body /\ row.status = "SUCCESS" /\ crossed' = crossed
        \/ /\ gate' = [gate EXCEPT ![r] = "answered"] /\ reply' = [reply EXCEPT ![r] = "rejected"]
           /\ row.body = sent[r].body /\ row.status = "FAILED" /\ crossed' = crossed
    BY Zenon DEF Reserve, Answer
  <1>5. /\ \A q \in Requests : KeyOf(q)' = KeyOf(q) /\ OrderOf(q)' = OrderOf(q)
        /\ crossed \subseteq crossed'
        /\ \A q \in Requests : q # r => gate'[q] = gate[q] /\ reply'[q] = reply[q]
    BY <1>1, <1>4, NamesKept, Zenon DEF GateInv, Typed
  <1>6. /\ idem'[k] = row
        /\ \A c \in Keys : idem[c].status # "NONE" => idem'[c] = idem[c]
        /\ \A c \in Keys : idem'[c].status \in {"SUCCESS", "FAILED"} => idem'[c] = idem[c]
    BY <1>1, <1>2, <1>3, Zenon DEF GateInv, Typed
  <1>7. \A q \in Requests : q # r => Past(q)' = Past(q)
    BY <1>1, <1>5, Zenon DEF Past, Working
  <1>8. Past(r)' => row.status = "PENDING" /\ gate'[r] = "new"
    BY <1>1, <1>4, Zenon DEF Past, Working, GateInv, Typed
  <1> HIDE DEF row
  <1>9. Counted'
    BY <1>1, <1>4, SMTT(60) DEF Counted, GateInv, Typed
  <1>10. Alone'
    <2>1. ASSUME NEW q \in Requests, q # r, Past(r)', Past(q), OrderOf(q) = OrderOf(r)
          PROVE  OrderOf(r) \in crossed'
      <3>1. gate'[r] = "new"
        BY <1>8, <2>1, Zenon
      <3>2. \E p \in Requests \ {r} : Past(p) /\ OrderOf(p) = OrderOf(r)
        BY <2>1, Zenon
      <3> QED
        BY <1>4, <3>1, <3>2, Zenon DEF GateInv, Typed
    <2> QED
      BY <1>5, <1>7, <2>1, Zenon DEF Alone
  <1>11. PaidOrdersExist' /\ TransferPaidOnce'
    BY <1>1, <1>5, Zenon DEF PaidOrdersExist, TransferPaidOnce
  <1>12. Unpaid'
    BY <1>1, <1>5, Zenon DEF Unpaid
  <1>13. SettledStay'
    <2> SUFFICES ASSUME NEW q \in Requests, Past(q)', idem'[KeyOf(q)].status \in {"SUCCESS", "FAILED"}
                 PROVE  OrderOf(q) \in crossed'
      BY <1>5, Zenon DEF SettledStay
    <2>1. q # r
      BY <1>6, <1>8, Zenon
    <2>2. Past(q) /\ KeyOf(q) \in Keys
      BY <1>7, <2>1, PastIsBound, Zenon
    <2> QED
      BY <1>5, <1>6, <2>2, Zenon DEF SettledStay
  <1>14. \A o : OneKey(o)' <=> OneKey(o)
    BY <1>1, <1>5 DEF OneKey
  <1>15. RefusalsStand'
    <2> SUFFICES ASSUME NEW q \in Requests, sent[q] # NoMessage, OrderOf(q) \notin crossed, OneKey(OrderOf(q)),
                        idem'[KeyOf(q)].status = "FAILED", idem'[KeyOf(q)].body = sent[q].body
                 PROVE  paid[OrderOf(q)] = 0
      BY <1>1, <1>5, <1>14, Zenon DEF RefusalsStand
    <2>1. KeyOf(q) \in Keys
      BY NamesTyped, Zenon DEF GateInv, Typed
    <2> QED
      BY <1>6, <2>1, Zenon DEF RefusalsStand
  <1>16. ASSUME NEW q \in Requests, gate[q] # "idle", SuccessStored(q) PROVE SuccessStored(q)'
    <2>1. KeyOf(q) \in Keys
      BY <1>16, NamesTyped, Zenon DEF GateInv, Typed, Phases
    <2> QED
      BY <1>1, <1>5, <1>6, <1>16, <2>1, Zenon DEF SuccessStored
  <1>17. Remembered'
    <2>1. ASSUME NEW q \in Requests, reply'[q] \in {"ok", "replay"}, faults' = 0, OrderOf(q)' \notin crossed'
          PROVE  SuccessStored(q)'
      <3>1. CASE q # r
        <4>1. reply[q] \in {"ok", "replay"} /\ gate[q] # "idle" /\ OrderOf(q) \notin crossed
          BY <1>5, <2>1, <3>1, Zenon DEF Counted
        <4> QED
          BY <1>1, <1>16, <2>1, <4>1, Zenon DEF Remembered
      <3>2. CASE q = r
        <4>1. reply[r] = "none"
          BY <1>1, Zenon DEF Counted
        <4>2. row.body = sent[r].body /\ row.status = "SUCCESS"
          BY <1>4, <2>1, <3>2, <4>1, Zenon DEF GateInv, Typed
        <4> QED
          BY <1>1, <1>5, <1>6, <3>2, <4>2, Zenon DEF SuccessStored
      <3> QED
        BY <3>1, <3>2, Zenon
    <2>2. ASSUME NEW q \in late, faults = 0, OrderOf(q) \notin crossed'
          PROVE  \/ gate'[q] = "authorized" /\ SuccessStored(q)'
                 \/ gate'[q] = "answered" /\ reply'[q] \in {"replay", "denied"}
      <3>0. /\ q \in Requests /\ gate[q] # "idle" /\ OrderOf(q) \notin crossed
            /\ \/ gate[q] = "authorized" /\ SuccessStored(q)
               \/ gate[q] = "answered" /\ reply[q] \in {"replay", "denied"}
        BY <1>5, <2>2, Zenon DEF Counted, Remembered
      <3>1. CASE q # r
        BY <1>5, <1>16, <3>0, <3>1, Zenon
      <3>2. CASE q = r
        <4>1. idem[k].status = "SUCCESS" /\ idem[k].body = sent[r].body
          BY <1>1, <3>0, <3>2, Zenon DEF SuccessStored
        <4>2. row.status = "SUCCESS" /\ row.body = sent[r].body
          BY <1>3, <4>1, Zenon
        <4>3. gate' = [gate EXCEPT ![r] = "answered"] /\ reply' = [reply EXCEPT ![r] = "replay"]
          BY <1>4, <4>2, Zenon
        <4> QED
          BY <3>2, <4>3, Zenon DEF GateInv, Typed
      <3> QED
        BY <3>1, <3>2, Zenon
    <2>3. \A q \in late : gate'[q] # "idle"
      BY <1>4 DEF Remembered, Counted, GateInv, Typed
    <2>4. ASSUME NEW q \in late', faults' = 0, OrderOf(q)' \notin crossed'
          PROVE  \/ gate'[q] = "authorized" /\ SuccessStored(q)'
                 \/ gate'[q] = "answered" /\ reply'[q] \in {"replay", "denied"}
      <3>1. q \in late /\ q \in Requests /\ faults = 0 /\ late' = late
        BY <1>1, <2>4, Zenon DEF Counted
      <3> QED
        BY <1>1, <1>5, <2>2, <2>4, <3>1, Zenon
    <2>5. \A q \in late' : gate'[q] # "idle"
      BY <1>1, <2>3, Zenon
    <2> QED
      BY <2>1, <2>4, <2>5, Zenon DEF Remembered
  <1> QED
    BY <1>9, <1>10, <1>11, <1>12, <1>13, <1>15, <1>17, Zenon

\* Forward changes where the request is, not that it is past Reserve.
LEMMA ForwardPays ==
    ASSUME GateInv, PayInv, AnswerInv, NEW r \in Requests, Forward(r)
    PROVE  PayInv' /\ AnswerInv'
  <1> USE DEF PayInv, AnswerInv
  <1>1. /\ gate[r] = "new" /\ work[r] = "idle" /\ gate' = [gate EXCEPT ![r] = "forwarded"]
        /\ work' = [work EXCEPT ![r] = "asked"]
        /\ UNCHANGED <<sent, reply, idem, orders, takers, paid, crossed, late, faults>>
    BY Zenon DEF Forward, GateInv, Phases, orderVars, historyVars
  <1>2. \A q \in Requests : KeyOf(q)' = KeyOf(q) /\ OrderOf(q)' = OrderOf(q)
    BY <1>1, NamesKept, Zenon
  <1>3. /\ \A q \in Requests : q # r => gate'[q] = gate[q] /\ work'[q] = work[q]
        /\ gate'[r] = "forwarded" /\ work'[r] = "asked"
    BY <1>1, Zenon DEF GateInv, Typed
  <1>4. \A q \in Requests : Past(q)' => Past(q)
    BY <1>1, <1>3, Zenon DEF Past, Working
  <1>5. Counted' /\ Alone'
    BY <1>1, <1>2, <1>3, <1>4 DEF Counted, Alone
  <1>6. PaidOrdersExist' /\ TransferPaidOnce'
    BY <1>1, <1>2, <1>3 DEF PaidOrdersExist, TransferPaidOnce
  <1>7. Unpaid'
    BY <1>1, <1>2, <1>3, SMTT(60) DEF Unpaid
  <1>8. SettledStay'
    BY <1>1, <1>2, <1>4, Zenon DEF SettledStay
  <1>9. RefusalsStand'
    BY <1>1, <1>2, SMTT(60) DEF RefusalsStand, OneKey
  <1>10. Remembered'
    BY <1>1, <1>2, <1>3, SMTT(60) DEF Remembered, SuccessStored, Counted
  <1> QED
    BY <1>5, <1>6, <1>7, <1>8, <1>9, <1>10, Zenon

\* Settle writes a row that no other request of an uncrossed order can write.
LEMMA SettlePays ==
    ASSUME GateInv, PayInv, AnswerInv, NEW r \in Requests, Settle(r)
    PROVE  PayInv' /\ AnswerInv'
  <1> USE DEF PayInv, AnswerInv
  <1> DEFINE k == KeyOf(r)
             row == RowAfterAnswer(idem[k], work[r], OrderOf(r))
  <1>1. /\ gate[r] = "forwarded" /\ work[r] \in {"ok", "refused", "error"} /\ sent[r] \in Messages
        /\ UNCHANGED <<sent, work, orders, takers, paid, crossed, late, faults>>
        /\ idem' = [idem EXCEPT ![k] = row]
        /\ gate' = [gate EXCEPT ![r] = "answered"] /\ reply' = [reply EXCEPT ![r] = work[r]]
    BY Zenon DEF Settle, Answer, GateInv, Phases, Typed, orderVars, historyVars
  <1>2. k \in Keys /\ idem[k].body = sent[r].body /\ Past(r)
    BY <1>1, NamesTyped, Zenon DEF GateInv, Bound, Past
  <1>4. /\ row.body = idem[k].body
        /\ work[r] = "ok" => row.status = "SUCCESS"
        /\ work[r] = "refused" => row.status = "FAILED"
        /\ work[r] = "error" => row = idem[k]
    BY <1>1, <1>2 DEF RowAfterAnswer, Commit, Reject, GateInv, Typed
  <1>5. \A q \in Requests : KeyOf(q)' = KeyOf(q) /\ OrderOf(q)' = OrderOf(q)
    BY <1>1, NamesKept, Zenon
  <1>6. /\ \A q \in Requests : q # r => gate'[q] = gate[q] /\ reply'[q] = reply[q]
        /\ gate'[r] = "answered" /\ reply'[r] = work[r]
        /\ idem'[k] = row /\ \A c \in Keys : c # k => idem'[c] = idem[c]
    BY <1>1, <1>2, Zenon DEF GateInv, Typed
  <1> HIDE DEF row
  <1>7. \A q \in Requests : Past(q)' => Past(q) /\ q # r
    BY <1>1, <1>6, Zenon DEF Past, Working
  <1>s. ASSUME NEW q \in Requests, KeyOf(q) = k, sent[q].body = idem[k].body
        PROVE  OrderOf(q) = OrderOf(r)
    BY <1>2, <1>s, KeyAndBodyNameTheOrder, Zenon
  <1>8. Counted'
    BY <1>1, <1>6, SMTT(60) DEF Counted
  <1>9. Alone'
    BY <1>1, <1>5, <1>7, Zenon DEF Alone
  <1>10. PaidOrdersExist' /\ TransferPaidOnce'
    BY <1>1, <1>5, Zenon DEF PaidOrdersExist, TransferPaidOnce
  <1>11. Unpaid'
    BY <1>1, <1>5, <1>6 DEF Unpaid
  <1>12. SettledStay'
    <2> SUFFICES ASSUME NEW q \in Requests, Past(q), q # r,
                        idem'[KeyOf(q)].status \in {"SUCCESS", "FAILED"}
                 PROVE  OrderOf(q) \in crossed
      BY <1>1, <1>5, <1>7, Zenon DEF SettledStay
    <2>1. KeyOf(q) \in Keys /\ idem[KeyOf(q)].body = sent[q].body
      BY PastIsBound, Zenon
    <2>2. CASE KeyOf(q) = k
      <3>1. OrderOf(q) = OrderOf(r)
        BY <1>s, <2>1, <2>2, Zenon
      <3> QED
        BY <1>2, <3>1, Zenon DEF Alone
    <2>3. CASE KeyOf(q) # k
      BY <1>6, <2>1, <2>3, Zenon DEF SettledStay
    <2> QED
      BY <2>2, <2>3, Zenon
  <1>13. \A o : OneKey(o)' <=> OneKey(o)
    BY <1>1, <1>5, Zenon DEF OneKey
  <1>14. RefusalsStand'
    <2> SUFFICES ASSUME NEW q \in Requests, sent[q] # NoMessage, OrderOf(q) \notin crossed, OneKey(OrderOf(q)),
                        idem'[KeyOf(q)].status = "FAILED", idem'[KeyOf(q)].body = sent[q].body
                 PROVE  paid[OrderOf(q)] = 0
      BY <1>1, <1>5, <1>13, Zenon DEF RefusalsStand
    <2>1. KeyOf(q) \in Keys
      BY NamesTyped, Zenon DEF GateInv, Typed
    <2>2. CASE KeyOf(q) = k /\ work[r] = "refused"
      <3>1. OrderOf(q) = OrderOf(r)
        BY <1>s, <1>4, <1>6, <2>2, Zenon
      <3> QED
        BY <1>1, <2>2, <3>1, Zenon DEF Unpaid
    <2>3. CASE KeyOf(q) # k \/ work[r] # "refused"
      <3>1. idem'[KeyOf(q)] = idem[KeyOf(q)]
        BY <1>1, <1>4, <1>6, <2>1, <2>3, Zenon
      <3> QED
        BY <3>1, Zenon DEF RefusalsStand
    <2> QED
      BY <2>2, <2>3, Zenon
  <1>15. ASSUME NEW q \in Requests, gate[q] # "idle", OrderOf(q) \notin crossed, SuccessStored(q)
         PROVE  SuccessStored(q)'
    <2>1. KeyOf(q) \in Keys
      BY <1>15, NamesTyped, Zenon DEF GateInv, Typed, Phases
    <2>2. KeyOf(q) # k
      <3> SUFFICES ASSUME KeyOf(q) = k PROVE FALSE
        BY Zenon
      <3>1. OrderOf(q) = OrderOf(r)
        BY <1>s, <1>15, Zenon DEF SuccessStored
      <3>2. OrderOf(r) \in crossed
        BY <1>2, <1>15, Zenon DEF SuccessStored, SettledStay
      <3> QED
        BY <1>15, <3>1, <3>2, Zenon
    <2> QED
      BY <1>1, <1>5, <1>6, <1>15, <2>1, <2>2 DEF SuccessStored
  <1>16. Remembered'
    <2>1. ASSUME NEW q \in Requests, reply'[q] \in {"ok", "replay"}, faults' = 0, OrderOf(q)' \notin crossed'
          PROVE  SuccessStored(q)'
      <3>1. CASE q # r
        <4>1. reply[q] \in {"ok", "replay"} /\ gate[q] # "idle" /\ OrderOf(q) \notin crossed
          BY <1>1, <1>5, <1>6, <2>1, <3>1, Zenon DEF Counted
        <4> QED
          BY <1>1, <1>15, <2>1, <4>1, Zenon DEF Remembered
      <3>2. CASE q = r
        <4>1. work[r] = "ok"
          BY <1>1, <1>6, <2>1, <3>2, Zenon
        <4> QED
          BY <1>1, <1>2, <1>4, <1>5, <1>6, <3>2, <4>1, SMTT(60) DEF SuccessStored
      <3> QED
        BY <3>1, <3>2, Zenon
    <2>2. ASSUME NEW q \in late, faults = 0, OrderOf(q) \notin crossed
          PROVE  \/ gate'[q] = "authorized" /\ SuccessStored(q)'
                 \/ gate'[q] = "answered" /\ reply'[q] \in {"replay", "denied"}
      <3>0. /\ q \in Requests /\ gate[q] # "idle"
            /\ \/ gate[q] = "authorized" /\ SuccessStored(q)
               \/ gate[q] = "answered" /\ reply[q] \in {"replay", "denied"}
        BY <2>2, Zenon DEF Counted, Remembered
      <3>1. q # r
        BY <1>1, <3>0, Zenon
      <3> QED
        BY <1>6, <1>15, <2>2, <3>0, <3>1, Zenon
    <2>3. \A q \in late : gate'[q] # "idle"
      BY <1>6, Zenon DEF Remembered, Counted
    <2>4. ASSUME NEW q \in late', faults' = 0, OrderOf(q)' \notin crossed'
          PROVE  \/ gate'[q] = "authorized" /\ SuccessStored(q)'
                 \/ gate'[q] = "answered" /\ reply'[q] \in {"replay", "denied"}
      <3>1. q \in late /\ q \in Requests /\ faults = 0 /\ late' = late
        BY <1>1, <2>4, Zenon DEF Counted
      <3> QED
        BY <1>1, <1>5, <2>2, <2>4, <3>1, Zenon
    <2>5. \A q \in late' : gate'[q] # "idle"
      BY <1>1, <2>3, Zenon
    <2> QED
      BY <2>1, <2>4, <2>5, Zenon DEF Remembered
  <1> QED
    BY <1>8, <1>9, <1>10, <1>11, <1>12, <1>14, <1>16, Zenon

\* A handler moves on.  Nobody else is at work on its order, unless it is known
\* to have crossed another, so what it knows of the order is so.
LEMMA HandlerPays ==
    ASSUME GateInv, PayInv, AnswerInv, NEW r \in Requests, Working(r),
           UNCHANGED <<sent, gate, reply, idem, crossed, late>>,
           NEW w \in {"absent", "reserved", "ok", "refused", "error"}, work' = [work EXCEPT ![r] = w],
           \A o \in Orders : o # OrderOf(r) => orders'[o] = orders[o],
           \A o \in Orders : orders[o] # "NONE" => orders'[o] # "NONE",
           faults' = faults \/ faults' = faults + 1,
           \/ paid' = paid
           \/ work[r] = "reserved" /\ w # "absent" /\ paid' = [paid EXCEPT ![OrderOf(r)] = @ + 1],
           w = "absent" => orders'[OrderOf(r)] = "NONE",
           w = "reserved" => orders'[OrderOf(r)] # "NONE" /\ sent[r].op = "treasury_transfer",
           w \in {"reserved", "refused"} /\ OrderOf(r) \notin crossed => paid'[OrderOf(r)] = 0
    PROVE  PayInv' /\ AnswerInv'
  <1> USE DEF PayInv, AnswerInv
  <1> DEFINE o == OrderOf(r)
  <1>1. /\ work[r] \in {"asked", "absent", "reserved"} /\ Past(r) /\ o \in Orders
        /\ o[1] = sent[r].op /\ KeyOf(r) \in Keys /\ sent[r] # NoMessage
    BY WorkIsSent, Zenon DEF Working, Past
  <1>2. \A q \in Requests : KeyOf(q)' = KeyOf(q) /\ OrderOf(q)' = OrderOf(q)
    BY NamesKept, Zenon
  <1>3. work'[r] = w /\ \A q \in Requests : q # r => work'[q] = work[q]
    BY Zenon DEF GateInv, Typed
  <1>4. \A q \in Requests : Past(q)' => Past(q)
    BY <1>1, <1>3, Zenon DEF Past, Working
  <1>5. /\ paid' \in [Orders -> Nat]
        /\ \A x \in Orders : x # o => paid'[x] = paid[x]
        /\ paid'[o] = paid[o] \/ (work[r] = "reserved" /\ w # "absent" /\ paid'[o] = paid[o] + 1)
        /\ paid[o] \in Nat
    BY <1>1, SMTT(60) DEF Counted
  <1>6. ASSUME NEW q \in Requests, q # r, Past(q), OrderOf(q) = o PROVE o \in crossed
    BY <1>1, <1>6, Zenon DEF Alone
  <1> HIDE DEF o
  <1>7. Counted'
    BY <1>5, SMTT(60) DEF Counted
  <1>8. Alone'
    BY <1>2, <1>4, Zenon DEF Alone
  <1>9. PaidOrdersExist'
    <2>1. ASSUME NEW x \in Orders, paid'[x] > 0
          PROVE  orders'[x] # "NONE" /\ x[1] = "treasury_transfer"
      <3>1. CASE paid[x] > 0
        BY <3>1, Zenon DEF PaidOrdersExist
      <3>2. CASE ~(paid[x] > 0)
        <4>1. x = o /\ work[r] = "reserved"
          BY <1>5, <2>1, <3>2, Zenon
        <4> QED
          BY <1>1, <4>1, Zenon DEF PaidOrdersExist, o
      <3> QED
        BY <3>1, <3>2, Zenon
    <2>2. ASSUME NEW q \in Requests, work'[q] = "reserved"
          PROVE  orders'[OrderOf(q)] # "NONE" /\ sent[q].op = "treasury_transfer"
      <3>1. CASE q = r
        BY <1>3, <2>2, <3>1, Zenon
      <3>2. CASE q # r
        <4>1. work[q] = "reserved" /\ OrderOf(q) \in Orders
          BY <1>3, <2>2, <3>2, WorkIsSent, Zenon
        <4> QED
          BY <4>1, Zenon DEF PaidOrdersExist
      <3> QED
        BY <3>1, <3>2, Zenon
    <2> QED
      BY <1>2, <2>1, <2>2, Zenon DEF PaidOrdersExist
  <1>10. TransferPaidOnce'
    <2> SUFFICES ASSUME NEW x \in Orders, paid'[x] > 1, x \notin crossed PROVE FALSE
      BY Zenon DEF TransferPaidOnce
    <2>1. CASE paid'[x] = paid[x]
      BY <2>1, Zenon DEF TransferPaidOnce
    <2>2. CASE paid'[x] # paid[x]
      <3>1. x = o /\ work[r] = "reserved" /\ paid'[o] = paid[o] + 1
        BY <1>5, <2>2, Zenon
      <3>2. paid[o] = 0
        BY <3>1, Zenon DEF Unpaid, o
      <3> QED
        BY <3>1, <3>2
    <2> QED
      BY <2>1, <2>2, Zenon
  <1>11. Unpaid'
    <2> SUFFICES ASSUME NEW q \in Requests, work'[q] # "idle", OrderOf(q) \notin crossed
                 PROVE  /\ work'[q] = "absent" => orders'[OrderOf(q)] = "NONE"
                        /\ work'[q] = "reserved" \/ (work'[q] = "refused" /\ gate[q] = "forwarded")
                           => paid'[OrderOf(q)] = 0
      BY <1>2, Zenon DEF Unpaid
    <2>1. CASE q = r
      BY <1>3, <2>1, Zenon
    <2>2. CASE q # r
      <3>1. work[q] = work'[q] /\ work[q] # "idle" /\ OrderOf(q) \in Orders
        BY <1>3, <2>2, WorkIsSent, Zenon
      <3>2. CASE OrderOf(q) # o
        <4>1. orders'[OrderOf(q)] = orders[OrderOf(q)] /\ paid'[OrderOf(q)] = paid[OrderOf(q)]
          BY <1>5, <3>1, <3>2, Zenon DEF o
        <4> QED
          BY <3>1, <4>1, Zenon DEF Unpaid
      <3>3. CASE OrderOf(q) = o
        <4>1. ~Past(q)
          BY <1>6, <2>2, <3>3, Zenon
        <4> QED
          BY <3>1, <4>1, Zenon DEF Past, Working
      <3> QED
        BY <3>2, <3>3, Zenon
    <2> QED
      BY <2>1, <2>2, Zenon
  <1>12. SettledStay'
    BY <1>2, <1>4, Zenon DEF SettledStay
  <1>13. \A x : OneKey(x)' <=> OneKey(x)
    BY <1>2, SMTT(60) DEF OneKey
  <1>14. RefusalsStand'
    <2> SUFFICES ASSUME NEW q \in Requests, sent[q] # NoMessage, OrderOf(q) \notin crossed, OneKey(OrderOf(q)),
                        idem[KeyOf(q)].status = "FAILED", idem[KeyOf(q)].body = sent[q].body
                 PROVE  paid'[OrderOf(q)] = 0
      BY <1>2, <1>13, Zenon DEF RefusalsStand
    <2>1. OrderOf(q) \in Orders /\ paid[OrderOf(q)] = 0
      BY NamesTyped, SMTT(60) DEF GateInv, Typed, RefusalsStand
    <2>2. OrderOf(q) # o
      <3> SUFFICES ASSUME OrderOf(q) = o PROVE FALSE
        BY Zenon
      <3>1. KeyOf(q) = KeyOf(r)
        BY <1>1, Zenon DEF OneKey, o
      <3> QED
        BY <1>1, <3>1, Zenon DEF SettledStay, o
    <2> QED
      BY <1>5, <2>1, <2>2, Zenon
  <1>15. Remembered'
    <2>1. \A q \in late : q \in Requests
      BY Zenon DEF Counted
    <2>2. CASE faults' = faults
      BY <1>2, <2>1, <2>2, SMTT(60) DEF Remembered, SuccessStored
    <2>3. CASE faults' = faults + 1
      BY <1>2, <2>1, <2>3, SMTT(60) DEF Remembered, SuccessStored, Counted
    <2> QED
      BY <2>2, <2>3, Zenon
  <1> QED
    BY <1>7, <1>8, <1>9, <1>10, <1>11, <1>12, <1>14, <1>15, Zenon

\* Every step preserves the second invariant.
LEMMA PayInvNext ==
    ASSUME GateInv, PayInv, AnswerInv, [GateNext]_gateVars
    PROVE  PayInv' /\ AnswerInv'
  <1>0. Typed /\ Phases /\ Counted /\ Unpaid /\ PaidOrdersExist
    BY Zenon DEF GateInv, PayInv
  <1>w. ASSUME NEW r \in Requests, work[r] # "idle"
        PROVE  OrderOf(r) \in Orders /\ sent[r].op \in Operations /\ OrderOf(r)[1] = sent[r].op
    BY <1>w, WorkIsSent, Zenon
  <1>1. ASSUME NEW r \in Requests, Authorize(r) PROVE PayInv' /\ AnswerInv'
    BY <1>1, AuthorizePays, Zenon
  <1>2. ASSUME NEW r \in Requests, Reserve(r) PROVE PayInv' /\ AnswerInv'
    BY <1>2, ReservePays, Zenon
  <1>3. ASSUME NEW r \in Requests, Forward(r) PROVE PayInv' /\ AnswerInv'
    BY <1>3, ForwardPays, Zenon
  <1>4. ASSUME NEW r \in Requests, Settle(r) PROVE PayInv' /\ AnswerInv'
    BY <1>4, SettlePays, Zenon
  <1>5. ASSUME NEW r \in Requests, Look(r) PROVE PayInv' /\ AnswerInv'
    <2>0. work[r] = "asked" /\ OrderOf(r) \in Orders /\ OrderOf(r)[1] = sent[r].op
      BY <1>5, <1>w, Zenon DEF Look
    <2>1. PICK w \in {"absent", "ok", "refused"} :
            /\ work' = [work EXCEPT ![r] = w]
            /\ w = "absent" => orders[OrderOf(r)] = "NONE"
            /\ w = "refused" => sent[r].op = "withdraw"
      BY <1>5, Zenon DEF Look, Done
    <2>2. /\ UNCHANGED <<sent, gate, reply, idem, orders, paid, crossed, late, faults>> /\ Working(r)
      BY <1>5, Zenon DEF Look, Working, gateSide, orderVars, historyVars
    <2>3. sent[r].op = "withdraw" => paid[OrderOf(r)] = 0
      BY <1>0, <2>0 DEF PaidOrdersExist, Counted
    <2> QED
      BY <2>1, <2>2, <2>3, HandlerPays, Zenon
  <1>6. ASSUME NEW r \in Requests, Make(r) PROVE PayInv' /\ AnswerInv'
    <2>0. work[r] = "absent" /\ OrderOf(r) \in Orders /\ sent[r].op \in Operations
      BY <1>6, <1>w, Zenon DEF Make
    <2>1. PICK w \in {"reserved", "ok", "refused"} :
            /\ work' = [work EXCEPT ![r] = w]
            /\ w = "reserved" => sent[r].op # "withdraw"
            /\ \/ w # "refused" /\ orders' = [orders EXCEPT ![OrderOf(r)] = "LIVE"]
               \/ w # "refused" /\ orders[OrderOf(r)] = "LIVE" /\ orders' = orders
               \/ w = "refused" /\ orders' = orders
      BY <1>6, Zenon DEF Make, Done
    <2>2. UNCHANGED <<sent, gate, reply, idem, paid, crossed, late, faults>> /\ Working(r)
      BY <1>6, Zenon DEF Make, Working, gateSide, historyVars
    <2>3. /\ \A o \in Orders : o # OrderOf(r) => orders'[o] = orders[o]
          /\ \A o \in Orders : orders[o] # "NONE" => orders'[o] # "NONE"
          /\ w = "reserved" => orders'[OrderOf(r)] # "NONE" /\ sent[r].op = "treasury_transfer"
      BY <1>0, <2>0, <2>1, Zenon DEF Typed, Operations
    <2>4. OrderOf(r) \notin crossed => paid[OrderOf(r)] = 0
      BY <1>0, <2>0, SMTT(60) DEF Unpaid, PaidOrdersExist, Counted
    <2> QED
      BY <2>1, <2>2, <2>3, <2>4, HandlerPays, Zenon
  <1>7. ASSUME NEW r \in Requests, Broadcast(r) PROVE PayInv' /\ AnswerInv'
    <2>0. work[r] = "reserved" /\ OrderOf(r) \in Orders
      BY <1>7, <1>w, Zenon DEF Broadcast
    <2>1. PICK w \in {"ok", "refused"} :
            /\ work' = [work EXCEPT ![r] = w]
            /\ \/ w = "ok" /\ paid' = [paid EXCEPT ![OrderOf(r)] = @ + 1] /\ orders' = orders
               \/ w = "refused" /\ paid' = paid /\ orders' = [orders EXCEPT ![OrderOf(r)] = "FAILED"]
      BY <1>7, Zenon DEF Broadcast, Done
    <2>2. UNCHANGED <<sent, gate, reply, idem, crossed, late, faults>> /\ Working(r)
      BY <1>7, Zenon DEF Broadcast, Working, gateSide, historyVars
    <2>3. /\ \A o \in Orders : o # OrderOf(r) => orders'[o] = orders[o]
          /\ \A o \in Orders : orders[o] # "NONE" => orders'[o] # "NONE"
      BY <1>0, <2>0, <2>1, Zenon DEF Typed
    <2>4. OrderOf(r) \notin crossed => paid[OrderOf(r)] = 0
      BY <1>0, <2>0, Zenon DEF Unpaid
    <2> QED
      BY <2>0, <2>1, <2>2, <2>3, <2>4, HandlerPays, Zenon
  <1>8. ASSUME NEW r \in Requests, HandlerFails(r) PROVE PayInv' /\ AnswerInv'
    <2>1. /\ UNCHANGED <<sent, gate, reply, idem, orders, crossed, late>> /\ Working(r)
          /\ work' = [work EXCEPT ![r] = "error"] /\ faults' = faults + 1
          /\ paid' = paid \/ (work[r] = "reserved" /\ paid' = [paid EXCEPT ![OrderOf(r)] = @ + 1])
      BY <1>8, Zenon DEF HandlerFails, gateSide, historyVars, Fault, Done
    <2> QED
      BY <2>1, HandlerPays, Zenon
  <1>9. ASSUME NEW r \in Requests, ReserveFails(r) \/ Timeout(r) \/ SettleFails(r)
        PROVE  PayInv' /\ AnswerInv'
    <2>1. /\ UNCHANGED <<sent, work, idem, takers, orders, paid, crossed, late>> /\ gate[r] # "idle"
          /\ gate' = [gate EXCEPT ![r] = "answered"] /\ faults' = faults + 1
      BY <1>9, Zenon DEF ReserveFails, Timeout, SettleFails, Answer, orderVars, historyVars, Fault
    <2>2. PICK a \in {"unavailable", "lost", "ok", "refused"} : reply' = [reply EXCEPT ![r] = a]
      BY <1>9, Zenon DEF ReserveFails, Timeout, SettleFails, Answer
    <2>3. Quiet /\ QuietPay
      BY <1>0, <2>1, <2>2, Zenon DEF Typed, Quiet, QuietPay
    <2> QED
      BY <2>3, QuietPays, Zenon
  <1>10. ASSUME Crash PROVE PayInv' /\ AnswerInv'
    <2>1. Quiet
      BY <1>0, <1>10, Zenon DEF Crash, Typed, Quiet, orderVars
    <2>2. QuietPay
      BY <1>0, <1>10, Zenon DEF Crash, Typed, QuietPay, orderVars, historyVars, Fault
    <2> QED
      BY <2>1, <2>2, QuietPays, Zenon
  <1>11. ASSUME Revoke \/ UNCHANGED gateVars PROVE PayInv' /\ AnswerInv'
    <2>1. UNCHANGED <<sent, gate, reply, work, idem, takers, orders, paid, crossed, late, faults>>
      BY <1>11, Zenon DEF Revoke, gateVars, orderVars, historyVars
    <2>2. Quiet /\ QuietPay
      BY <1>0, <2>1, Zenon DEF Typed, Quiet, QuietPay
    <2> QED
      BY <2>2, QuietPays, Zenon
  <1>12. ASSUME OrderFails PROVE PayInv' /\ AnswerInv'
    <2>1. Quiet
      BY <1>0, <1>12, Zenon DEF Typed, OrderFails, gateSide, Quiet
    <2>2. QuietPay
      BY <1>0, <1>12, Zenon DEF Typed, OrderFails, gateSide, historyVars, QuietPay
    <2> QED
      BY <2>1, <2>2, QuietPays, Zenon
  <1> QED
    BY <1>1, <1>2, <1>3, <1>4, <1>5, <1>6, <1>7, <1>8, <1>9, <1>10, <1>11, <1>12, Zenon
       DEF GateNext, GateStep, GateFault

-----------------------------------------------------------------------------
\* Both invariants hold throughout.
THEOREM PayInvHolds == GateSpec => [](GateInv /\ PayInv /\ AnswerInv)
  <1>1. GateInit => GateInv /\ PayInv /\ AnswerInv
    BY GateInvInit, PayInit, Zenon
  <1>2. GateInv /\ PayInv /\ AnswerInv /\ [GateNext]_gateVars => (GateInv /\ PayInv /\ AnswerInv)'
    BY GateInvNext, PayInvNext, Zenon
  <1> QED
    BY <1>1, <1>2, PTL DEF GateSpec

\* A transfer that is broadcast twice had two requests past Reserve at a time,
\* for any number of retries, timeouts, crashes and failed handlers.
THEOREM UncrossedTransfersPayOnce == GateSpec => []TransferPaidOnce
  <1>1. PayInv => TransferPaidOnce
    BY Zenon DEF PayInv
  <1> QED
    BY <1>1, PayInvHolds, PTL

\* A client that asks again for what succeeded is told so, without faults and
\* crossings.
THEOREM SuccessesAreRemembered == GateSpec => []SuccessIsRemembered
  <1>1. GateInv /\ PayInv /\ AnswerInv => SuccessIsRemembered
    <2> SUFFICES ASSUME PayInv, AnswerInv, NEW r \in late, reply[r] # "none", faults = 0,
                        OrderOf(r) \notin crossed
                 PROVE  reply[r] \in {"replay", "denied"}
      BY Zenon DEF SuccessIsRemembered
    <2> QED
      BY Zenon DEF PayInv, AnswerInv, Counted, Remembered
  <1> QED
    BY <1>1, PayInvHolds, PTL

\* A refusal that is reported is of a transfer that was not broadcast.
THEOREM RefusalsAreUnpaid == GateSpec => RefusedMeansUnpaid
  <1> DEFINE A == \A r \in Requests :
                    /\ reply[r] = "none" /\ reply'[r] \in {"refused", "rejected"}
                    /\ OrderOf(r) \notin crossed
                    /\ reply'[r] = "rejected" => OneKey(OrderOf(r))
                    => paid[OrderOf(r)] = 0
  <1>1. GateInv /\ PayInv /\ AnswerInv /\ [GateNext]_gateVars => A
    <2> SUFFICES ASSUME GateInv, PayInv, AnswerInv, [GateNext]_gateVars, NEW r \in Requests,
                        reply[r] = "none", reply'[r] \in {"refused", "rejected"},
                        OrderOf(r) \notin crossed,
                        reply'[r] = "rejected" => OneKey(OrderOf(r))
                 PROVE  paid[OrderOf(r)] = 0
      BY Zenon
    <2>0. Typed /\ Unpaid /\ RefusalsStand
      BY Zenon DEF GateInv, PayInv, AnswerInv
    <2>1. \/ (Settle(r) \/ SettleFails(r)) /\ reply'[r] = work[r]
          \/ Reserve(r)
      <3>1. ASSUME NEW q \in Requests, Authorize(q) \/ GateStep(q) \/ GateFault(q)
            PROVE  \/ q = r /\ (Settle(r) \/ SettleFails(r)) /\ reply'[r] = work[r]
                   \/ q = r /\ Reserve(r)
        <4>1. CASE q # r
          <5>1. reply'[r] = reply[r]
            BY <2>0, <3>1, <4>1, Zenon
               DEF Authorize, GateStep, GateFault, Reserve, Forward, Settle, Look, Make, Broadcast,
                   ReserveFails, Timeout, SettleFails, HandlerFails, Answer, Typed, gateSide
          <5> QED
            BY <5>1, Zenon
        <4>2. CASE q = r
          BY <2>0, <3>1, <4>2, Zenon
             DEF Authorize, GateStep, GateFault, Forward, Settle, Look, Make, Broadcast,
                 ReserveFails, Timeout, SettleFails, HandlerFails, Answer, Typed, gateSide
        <4> QED
          BY <4>1, <4>2, Zenon
      <3>2. ASSUME Revoke \/ OrderFails \/ Crash \/ UNCHANGED gateVars PROVE FALSE
        BY <3>2, Zenon DEF Revoke, OrderFails, Crash, gateVars, gateSide
      <3> QED
        BY <3>1, <3>2, Zenon DEF GateNext
    <2>2. CASE (Settle(r) \/ SettleFails(r)) /\ reply'[r] = work[r]
      <3>1. work[r] = "refused" /\ gate[r] = "forwarded"
        BY <2>2, Zenon DEF Settle, SettleFails
      <3> QED
        BY <2>0, <3>1, Zenon DEF Unpaid
    <2>3. CASE Reserve(r)
      <3> DEFINE k == KeyOf(r)
                 row == RowAfterReserve(idem[k], sent[r].body)
      <3>1. gate[r] = "authorized" /\ sent[r] \in Messages /\ sent[r] # NoMessage
        BY <2>3, GateAssumption, Zenon DEF Reserve, GateInv, Phases, Typed
      <3>2. reply'[r] = "rejected" /\ row.status = "FAILED" /\ row.body = sent[r].body
        BY <2>0, <2>3, Zenon DEF Reserve, Answer, Typed
      <3>3. k \in Keys
        BY <3>1, NamesTyped, Zenon
      <3>4. idem[k].status = "FAILED" /\ idem[k].body = sent[r].body
        BY <2>0, <3>2, <3>3, Zenon DEF RowAfterReserve, Typed
      <3> QED
        BY <2>0, <3>1, <3>2, <3>4, Zenon DEF RefusalsStand
    <2> QED
      BY <2>1, <2>2, <2>3, Zenon
  <1>2. GateSpec => [][GateNext]_gateVars
    BY PTL DEF GateSpec
  <1>3. RefusedMeansUnpaid <=> [][A]_gateVars
    BY Zenon DEF RefusedMeansUnpaid
  <1> HIDE DEF A
  <1> QED
    BY <1>1, <1>2, <1>3, PayInvHolds, PTL
=============================================================================
