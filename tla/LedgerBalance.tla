--------------------------- MODULE LedgerBalance ---------------------------
(***************************************************************************)
(* One ledger_balances row and the ledger_journals table, the state that   *)
(* the withdraw and the deposit half of the ledger adapter share           *)
(* (services/wallet-core/internal/adapters/ledger/postgres.go).            *)
(*                                                                         *)
(* The row belongs to one (tenant, account, asset): rows of other accounts *)
(* never meet in a transaction of this module's clients.                  *)
(***************************************************************************)
EXTENDS Balance

VARIABLES
    bal,        \* the ledger_balances row
    journal     \* the (biz_type, biz_id, entry_side) keys of ledger_journals

\* All three columns are written, as absolute values.
UpsertBalance(avail, frozen, locked) == bal' = Row(avail, frozen, locked)

\* INSERT INTO ledger_journals ... ON CONFLICT DO NOTHING.
Post(biz, id, side) == journal' = journal \cup {<<biz, id, side>>}
=============================================================================
