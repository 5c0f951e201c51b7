---------------------------- MODULE EndpointPool ----------------------------
(***************************************************************************)
(* The RPC endpoints of one chain and network, as chain-gateway's endpoint *)
(* manager keeps them: a failure streak, a penalty on the weight and a     *)
(* circuit that opens for a fixed time.  Every operation holds the mutex.  *)
(***************************************************************************)
EXTENDS Naturals, Sequences

CONSTANTS
    Endpoints,
    Weight,         \* the configured weight of each endpoint
    FailThreshold

ASSUME PoolAssumption ==
    /\ Weight \in [Endpoints -> Nat]
    /\ FailThreshold \in Nat \ {0}

VARIABLES
    active,     \* the endpoints of the last refresh
    streak,
    penalty,
    open        \* open circuits, the one that ends soonest first

poolVars == <<active, streak, penalty, open>>

PoolInit ==
    /\ active = Endpoints
    /\ streak = [e \in Endpoints |-> 0]
    /\ penalty = [e \in Endpoints |-> 0]
    /\ open = <<>>

Without(q, e) == SelectSeq(q, LAMBDA x : x # e)
IsOpen(e) == \E i \in DOMAIN open : open[i] = e

EffectiveWeight(e) == IF Weight[e] <= penalty[e] THEN 1 ELSE Weight[e] - penalty[e]

\* Select: by weighted chance among the circuits that are not open, so any
\* of them with a weight; with all of them open the one that ends soonest.
Selectable ==
    LET available == {e \in active : ~ IsOpen(e)} IN
    CASE available # {} -> {e \in available : EffectiveWeight(e) > 0}
      [] available = {} /\ active # {} -> {Head(open)}
      [] OTHER -> {}

ReportSuccess(e) ==
    IF e \notin active THEN UNCHANGED poolVars
    ELSE /\ streak' = [streak EXCEPT ![e] = 0]
         /\ penalty' = [penalty EXCEPT ![e] = IF @ > 0 THEN @ - 1 ELSE 0]
         /\ open' = Without(open, e)
         /\ UNCHANGED active

\* Fault: the streak is not reset when the circuit opens and the penalty has
\* no limit.
ReportFailureUnbounded(e) ==
    /\ streak' = [streak EXCEPT ![e] = @ + 1]
    /\ penalty' = [penalty EXCEPT ![e] = @ + 1]
    /\ open' = IF streak[e] + 1 >= FailThreshold THEN Append(Without(open, e), e) ELSE open
    /\ UNCHANGED active

ReportFailure(e) ==
    IF e \notin active THEN UNCHANGED poolVars
    ELSE /\ streak' = [streak EXCEPT ![e] = IF @ + 1 >= FailThreshold THEN 0 ELSE @ + 1]
         /\ penalty' = [penalty EXCEPT ![e] = IF @ + 1 < Weight[e] THEN @ + 1 ELSE @]
         /\ open' = IF streak[e] + 1 >= FailThreshold THEN Append(Without(open, e), e) ELSE open
         /\ UNCHANGED active

\* The time of the circuit that ends soonest has passed.
Elapse ==
    /\ open # <<>>
    /\ open' = Tail(open)
    /\ UNCHANGED <<active, streak, penalty>>

\* Refresh: what is still listed keeps its state, the rest is forgotten.
Refresh(listed) ==
    /\ listed # active
    /\ active' = listed
    /\ streak' = [e \in Endpoints |-> IF e \in listed \cap active THEN streak[e] ELSE 0]
    /\ penalty' = [e \in Endpoints |-> IF e \in listed \cap active THEN penalty[e] ELSE 0]
    /\ open' = SelectSeq(open, LAMBDA x : x \in listed)

\* probe: the answer to web3_clientVersion, which an endpoint may give
\* although its reads fail.
Probe(e, answers) ==
    /\ e \in active
    /\ IF answers THEN ReportSuccess(e) ELSE ReportFailure(e)
=============================================================================
