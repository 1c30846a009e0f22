----------------------------- MODULE LedgerSpec -----------------------------
(***************************************************************************)
(* What the ledger promises, with no sessions, no locks and no failures:   *)
(* an append-only journal in which a transaction is posted in one step and *)
(* voided in one step, the void adding the mirror image that undoes it, and*)
(* an audit log that is written with the journal or not at all.            *)
(*                                                                         *)
(* Ledger.tla, the model of the code, implements this specification.       *)
(***************************************************************************)
EXTENDS Journal

VARIABLES
  txns,     \* the committed transactions with their entries, by id
  audit     \* the committed audit_logs rows

vars == <<txns, audit>>

-----------------------------------------------------------------------------
Init == txns = NoRows /\ audit = {}

\* Writing the rows of one transaction and the audit rows that go with them.
Write(rows, log) ==
  /\ txns' = Overlay(rows, txns)
  /\ audit' = audit \cup log

Post(t, row) ==
  /\ t \in TxId \ DOMAIN txns
  /\ row \in TxRow /\ row.status = "posted" /\ row.reversalOf = NoTx
  /\ WellFormed(row.entries)
  /\ Write(One(t, row), {CreateRow(t, NoTx)})

Reversal(t) == Posted(txns[t].date, Mirror(txns[t].entries), t)

Void(t, r) ==
  /\ t \in DOMAIN txns /\ txns[t].status = "posted"
  /\ r \in TxId \ DOMAIN txns
  /\ Write(Overlay(One(t, Voided(txns[t])), One(r, Reversal(t))),
           {CreateRow(r, t), VoidRow(t, "posted", r)})

\* The row a Post adds is the one found under a new id after the step.
Next ==
  \/ \E t \in TxId : t \in DOMAIN txns' /\ Post(t, txns'[t])
  \/ \E t, r \in TxId : Void(t, r)

Spec == Init /\ [][Next]_vars

-----------------------------------------------------------------------------
TypeOK ==
  /\ DOMAIN txns \subseteq TxId
  /\ \A t \in DOMAIN txns : txns[t] \in TxRow
  /\ audit \subseteq AuditRow

IsMirror(r, original) ==
  r.date = original.date /\ r.entries = Mirror(original.entries)

(* Double entry: whatever is in the journal, reversals included, balances, *)
(* has both sides and is in one currency (create_transaction's checks, and *)
(* the trigger that repeats the first of them).                            *)
JournalWellFormed == \A t \in DOMAIN txns : WellFormed(txns[t].entries)

(* A transaction is voided exactly when the journal holds a reversal of it,*)
(* the reversal mirrors it, and there is never a second one: two voids of  *)
(* one transaction do not both take effect, and neither half of a void is  *)
(* ever in the journal alone (void_transaction).                           *)
VoidedOnceByMirror ==
  /\ \A t \in DOMAIN txns :
       txns[t].status = "voided" <=> \E r \in DOMAIN txns : txns[r].reversalOf = t
  /\ \A r \in DOMAIN txns : txns[r].reversalOf # NoTx =>
       /\ txns[r].reversalOf \in DOMAIN txns
       /\ IsMirror(txns[r], txns[txns[r].reversalOf])
       /\ \A q \in DOMAIN txns : txns[q].reversalOf = txns[r].reversalOf => q = r

(* The audit log says what the journal says: one creation per transaction, *)
(* one void per reversal, with the status before and the links, and nothing*)
(* else (the two audit_repo.log calls of a void, the one of a create).     *)
AuditMatchesJournal ==
  audit = {CreateRow(t, txns[t].reversalOf) : t \in DOMAIN txns}
     \cup {VoidRow(txns[r].reversalOf, "posted", r) :
              r \in {q \in DOMAIN txns : txns[q].reversalOf # NoTx}}

(* The ledger is immutable: a committed transaction stays, with its date,  *)
(* its entries and its link; only its status changes, from posted to       *)
(* voided; and no audit row is ever lost.                                  *)
StepKeepsHistory ==
  /\ \A t \in DOMAIN txns :
       /\ t \in DOMAIN txns'
       /\ txns'[t] = txns[t] \/ (txns[t].status = "posted" /\ txns'[t] = Voided(txns[t]))
  /\ audit \subseteq audit'

Immutable == [][StepKeepsHistory]_vars
=============================================================================
