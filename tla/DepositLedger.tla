--------------------------- MODULE DepositLedger ---------------------------
(***************************************************************************)
(* The deposit half of the ledger adapter: the table deposit_events and    *)
(* CreditDeposit, which credits an account when a deposit is confirmed,    *)
(* unlocks the amount when it is final and debits it when it is reverted.  *)
(* The transaction locks the deposit's row, then the balance row.          *)
(***************************************************************************)
EXTENDS LedgerBalance, Coins, DepositStatus, DepositOrders

CONSTANTS
    CreditConfs,    \* required_confirmations of the notifications
    UnlockConfs     \* unlock_confirmations of the notifications

ASSUME DepositAssumption ==
    /\ CreditConfs \in Int
    /\ UnlockConfs \in Int

VARIABLE deposits

\* status NONE stands for a row that does not exist.
DepositRow == [status : LedgerStatus \cup {"NONE"}, credited : BOOLEAN, unlocked : BOOLEAN]

DepositTypeOK == deposits \in [Deposits -> DepositRow]

DepositInit ==
    deposits = [d \in Deposits |-> [status |-> "NONE", credited |-> FALSE, unlocked |-> FALSE]]

CreditedDeposits == {d \in Deposits : deposits[d].credited}
LockedDeposits == {d \in Deposits : deposits[d].credited /\ ~deposits[d].unlocked}

TargetStatus(n) ==
    LET req == AtLeastOne(CreditConfs)
    IN NormalizeDepositLifecycleStatus(n.scan, n.status, n.confs, req,
                                       RaisedUnlock(UnlockConfs, req))

\* A credit adds to available and to withdraw_locked, an unlock takes the
\* amount off withdraw_locked, a revert takes back what is still there.
Credit(d) ==
    /\ Readable(bal)
    /\ UpsertBalance(bal.available + DepositAmount[d], bal.frozen, bal.locked + DepositAmount[d])
    /\ Post("DEPOSIT", d, "CREDIT")

Unlock(d) ==
    /\ Readable(bal)
    /\ CanSub(bal.locked, DepositAmount[d])
    /\ UpsertBalance(bal.available, bal.frozen, bal.locked - DepositAmount[d])
    /\ Post("DEPOSIT", d, "UNLOCK")

\* Both blocks run: the lock taken by the credit is given back at once.
CreditAndUnlock(d) ==
    /\ Readable(bal)
    /\ UpsertBalance(bal.available + DepositAmount[d], bal.frozen, bal.locked)
    /\ journal' = journal \cup {<<"DEPOSIT", d, "CREDIT">>, <<"DEPOSIT", d, "UNLOCK">>}

\* Fault: the revert leaves withdraw_locked alone.
RevertKeepsLock(d) ==
    /\ Readable(bal)
    /\ CanSub(bal.available, DepositAmount[d])
    /\ UpsertBalance(bal.available - DepositAmount[d], bal.frozen, bal.locked)
    /\ journal' = journal \cup {<<"DEPOSIT_REVERT", d, "DEBIT">>,
                                <<"AUDIT", d, "DEPOSIT_REORG_REVERTED">>}

Revert(d) ==
    /\ Readable(bal)
    /\ CanSub(bal.available, DepositAmount[d])
    /\ ~deposits[d].unlocked => CanSub(bal.locked, DepositAmount[d])
    /\ UpsertBalance(bal.available - DepositAmount[d], bal.frozen,
                     IF deposits[d].unlocked THEN bal.locked ELSE bal.locked - DepositAmount[d])
    /\ journal' = journal \cup {<<"DEPOSIT_REVERT", d, "DEBIT">>,
                                <<"AUDIT", d, "DEPOSIT_REORG_REVERTED">>}

\* The target status is what the request asks for, the effective one what
\* the stored status lets through.
CreditDepositTo(d, target) ==
    LET old == deposits[d]
        status == ResolveEffectiveDepositStatus(old.status, target)
        credits == ~old.credited /\ DepositStatusCredits(status)
        unlocks == (old.credited \/ credits) /\ ~old.unlocked /\ status = "FINALIZED"
        reverts == old.credited /\ status = "REVERTED"
    IN /\ \/ credits /\ ~unlocks /\ Credit(d)
          \/ credits /\ unlocks /\ CreditAndUnlock(d)
          \/ ~credits /\ unlocks /\ Unlock(d)
          \/ reverts /\ Revert(d)
          \/ ~credits /\ ~unlocks /\ ~reverts /\ UNCHANGED <<bal, journal>>
       /\ deposits' = [deposits EXCEPT ![d] =
                         [status |-> status,
                          credited |-> (old.credited \/ credits) /\ ~reverts,
                          unlocked |-> (old.unlocked \/ unlocks) /\ ~reverts]]

\* A notification n carries a scan status, a ledger status and the number of
\* confirmations.
CreditDeposit(d, n) == CreditDepositTo(d, TargetStatus(n))
=============================================================================
