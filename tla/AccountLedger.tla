--------------------------- MODULE AccountLedger ---------------------------
(***************************************************************************)
(* One account's ledger: withdrawals and deposits over one balance row.    *)
(* Every method may be called at any time with any argument, as the HTTP   *)
(* handlers, the dispatcher and the scanners do between them; the order in *)
(* which those components call is narrowed in the modules that extend      *)
(* WithdrawLedger and DepositLedger with them.                             *)
(***************************************************************************)
EXTENDS WithdrawLedger, DepositLedger

CONSTANT Notices    \* the deposit notifications that may arrive

vars == <<bal, journal, freezes, jobs, attempts, deposits>>

Init ==
    /\ bal = NoBalance
    /\ journal = {}
    /\ WithdrawInit
    /\ DepositInit

WithdrawStep(o) ==
    \/ QueueWithdraw(o)
    \/ ClaimQueuedWithdraw(o)
    \/ RescheduleQueuedWithdraw(o)
    \/ MarkQueuedWithdrawFailed(o)
    \/ ClaimStaleBroadcastedWithdraw(o)
    \/ ResetBroadcastedWithdraw(o)
    \/ ReleaseWithdraw(o)
    \/ \E t \in Txs :
         \/ MarkQueuedWithdrawDone(o, t)
         \/ ConfirmWithdraw(o, t)
         \/ \E c \in 0..MaxConfs :
              ConfirmWithdrawOnChain(o, t, c) \/ FailWithdrawOnChain(o, t, c)
         \/ \E new \in Txs :
              jobs[o].replacements < MaxReplacements /\ ReplaceBroadcastedWithdraw(o, t, new)

DepositStep(d) == \E n \in Notices : CreditDeposit(d, n)

Next ==
    \/ \E o \in Orders : WithdrawStep(o) /\ UNCHANGED deposits
    \/ \E d \in Deposits : DepositStep(d) /\ UNCHANGED wvars

Spec == Init /\ [][Next]_vars

-----------------------------------------------------------------------------
\* The rows and the balance keep their column types; a balance never goes
\* below zero, the check every subDecimalString makes.
TypeOK ==
    /\ bal \in BalanceType
    /\ WithdrawTypeOK
    /\ DepositTypeOK

\* ledger_balances.frozen is what the open freezes (FROZEN or BROADCASTED)
\* hold: no sequence of queueing, releasing, failing and confirming strands
\* frozen money or frees it twice.
FrozenIsHeldByFreezes == bal.frozen = Worth(OpenFreezes, Amount)

\* ledger_balances.withdraw_locked is the total of the deposits that are
\* credited and not yet unlocked by CreditDeposit.
LockedIsUnfinalDeposits == bal.locked = Worth(LockedDeposits, DepositAmount)

\* Conservation: what the account holds, free or frozen, plus what was paid
\* out by confirmed withdrawals, is the total of its credited deposits.
MoneyConserved ==
    bal.available + bal.frozen + Worth(PaidOrders, Amount)
        = Worth(CreditedDeposits, DepositAmount)

\* The columns of the balance row are the totals of the rows behind them,
\* after any sequence of ledger calls: none is lost, and none counts twice.
TotalsAreTheirRows == FrozenIsHeldByFreezes /\ LockedIsUnfinalDeposits /\ MoneyConserved

\* ledger_journals tells the story of the rows: FREEZE for every order ever
\* frozen, exactly one of DEBIT and UNFREEZE for a settled one, CREDIT for
\* every deposit credited and DEPOSIT_REVERT for every credit taken back.
JournalTellsTheRows ==
    /\ \A o \in Orders :
         /\ <<"WITHDRAW", o, "FREEZE">> \in journal <=> freezes[o].status # "NONE"
         /\ <<"WITHDRAW", o, "DEBIT">> \in journal <=> freezes[o].status = "CONFIRMED"
         /\ <<"WITHDRAW", o, "UNFREEZE">> \in journal <=> freezes[o].status = "RELEASED"
    /\ \A d \in Deposits :
         /\ deposits[d].credited <=>
              /\ <<"DEPOSIT", d, "CREDIT">> \in journal
              /\ <<"DEPOSIT_REVERT", d, "DEBIT">> \notin journal
         /\ <<"DEPOSIT_REVERT", d, "DEBIT">> \in journal => <<"DEPOSIT", d, "CREDIT">> \in journal

\* A settled withdrawal stays settled: no late notification, retry or stale
\* worker moves a CONFIRMED or a RELEASED freeze.
SettledIsFinal ==
    [][\A o \in Orders : freezes[o].status \in {"CONFIRMED", "RELEASED"}
                            => freezes'[o].status = freezes[o].status]_vars

\* A deposit's status only moves forward, whatever order the notifications
\* arrive in: FINALIZED is left only for REVERTED, REVERTED never, and a
\* credited deposit loses its credit only by a revert.
DepositMovesForward ==
    [][\A d \in Deposits :
         /\ deposits[d].status = "REVERTED" => deposits'[d].status = "REVERTED"
         /\ deposits[d].status = "FINALIZED" => deposits'[d].status \in {"FINALIZED", "REVERTED"}
         /\ deposits[d].status = "CONFIRMED" => deposits'[d].status \notin {"PENDING", "NONE"}
         /\ deposits[d].credited /\ ~deposits'[d].credited => deposits'[d].status = "REVERTED"]_vars

\* The abstract book: an open freeze holds its order's money, a CONFIRMED one
\* has paid it and a RELEASED one has returned it.
BookEntry(status) ==
    CASE status = "NONE" -> "none"
      [] status \in {"FROZEN", "BROADCASTED"} -> "held"
      [] status = "CONFIRMED" -> "paid"
      [] status = "RELEASED" -> "returned"

BookOrder == [o \in Orders |-> BookEntry(freezes[o].status)]

BookDeposit ==
    [d \in Deposits |->
       IF deposits[d].credited
       THEN IF deposits[d].unlocked THEN "free" ELSE "locked"
       ELSE IF deposits[d].status = "REVERTED" THEN "gone" ELSE "none"]

Book == INSTANCE AccountBook WITH order <- BookOrder, deposit <- BookDeposit

\* Every ledger transaction is one entry of the book or none: no method moves
\* money for an order or a deposit in two steps, or out of turn.
ImplementsBook == Book!BookSpec
=============================================================================
