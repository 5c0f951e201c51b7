---------------------------- MODULE AccountBook ----------------------------
(***************************************************************************)
(* What the ledger promises one account, without freezes, jobs, attempts,  *)
(* confirmations or notifications: an order's money is held once and then  *)
(* either paid or returned; a deposit's money arrives once, is locked      *)
(* until it is free, and may be taken back.  AccountLedger implements it.  *)
(***************************************************************************)
EXTENDS Balance, Coins, WithdrawOrders, DepositOrders

VARIABLES bal, order, deposit

bookVars == <<bal, order, deposit>>

BookTypeOK ==
    /\ bal \in BalanceType
    /\ order \in [Orders -> {"none", "held", "paid", "returned"}]
    /\ deposit \in [Deposits -> {"none", "locked", "free", "gone"}]

BookInit ==
    /\ bal = NoBalance
    /\ order = [o \in Orders |-> "none"]
    /\ deposit = [d \in Deposits |-> "none"]

Hold(o) ==
    /\ order[o] = "none"
    /\ Amount[o] + bal.locked <= bal.available
    /\ bal' = Row(bal.available - Amount[o], bal.frozen + Amount[o], bal.locked)
    /\ order' = [order EXCEPT ![o] = "held"]
    /\ UNCHANGED deposit

Pay(o) ==
    /\ order[o] = "held"
    /\ bal' = Row(bal.available, bal.frozen - Amount[o], bal.locked)
    /\ order' = [order EXCEPT ![o] = "paid"]
    /\ UNCHANGED deposit

Return(o) ==
    /\ order[o] = "held"
    /\ bal' = Row(bal.available + Amount[o], bal.frozen - Amount[o], bal.locked)
    /\ order' = [order EXCEPT ![o] = "returned"]
    /\ UNCHANGED deposit

Arrive(d, st) ==
    /\ deposit[d] = "none"
    /\ st \in {"locked", "free"}
    /\ bal' = Row(bal.available + DepositAmount[d], bal.frozen,
                  IF st = "locked" THEN bal.locked + DepositAmount[d] ELSE bal.locked)
    /\ deposit' = [deposit EXCEPT ![d] = st]
    /\ UNCHANGED order

Free(d) ==
    /\ deposit[d] = "locked"
    /\ bal' = Row(bal.available, bal.frozen, bal.locked - DepositAmount[d])
    /\ deposit' = [deposit EXCEPT ![d] = "free"]
    /\ UNCHANGED order

\* Only money that is still there can be taken back.
TakeBack(d) ==
    /\ deposit[d] \in {"locked", "free"}
    /\ DepositAmount[d] <= bal.available
    /\ bal' = Row(bal.available - DepositAmount[d], bal.frozen,
                  IF deposit[d] = "locked" THEN bal.locked - DepositAmount[d] ELSE bal.locked)
    /\ deposit' = [deposit EXCEPT ![d] = "gone"]
    /\ UNCHANGED order

\* A deposit that was reverted before it was ever credited.
NeverArrive(d) ==
    /\ deposit[d] = "none"
    /\ deposit' = [deposit EXCEPT ![d] = "gone"]
    /\ UNCHANGED <<bal, order>>

BookNext ==
    \/ \E o \in Orders : Hold(o) \/ Pay(o) \/ Return(o)
    \/ \E d \in Deposits :
         \/ \E st \in {"locked", "free"} : Arrive(d, st)
         \/ Free(d) \/ TakeBack(d) \/ NeverArrive(d)

BookSpec == BookInit /\ [][BookNext]_bookVars

-----------------------------------------------------------------------------
HeldOrders == {o \in Orders : order[o] = "held"}
PaidBookOrders == {o \in Orders : order[o] = "paid"}
LockedBookDeposits == {d \in Deposits : deposit[d] = "locked"}
ArrivedDeposits == {d \in Deposits : deposit[d] \in {"locked", "free"}}

\* The three totals of the balance row are the sums of the rows they
\* summarise (the money ledger of FreezeWithdraw, ReleaseWithdraw,
\* ConfirmWithdrawOnChain and CreditDeposit).
BookBalanced ==
    /\ bal.frozen = Worth(HeldOrders, Amount)
    /\ bal.locked = Worth(LockedBookDeposits, DepositAmount)
    /\ bal.available + bal.frozen + Worth(PaidBookOrders, Amount)
         = Worth(ArrivedDeposits, DepositAmount)
=============================================================================
