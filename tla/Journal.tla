------------------------------ MODULE Journal ------------------------------
(***************************************************************************)
(* The rows of the two tables the ledger writes, transactions (with their  *)
(* entries) and audit_logs, and how they are built.                        *)
(***************************************************************************)
EXTENDS DoubleEntry

CONSTANTS
  TxId,     \* transaction ids (uuid4)
  NoTx      \* the absence of one

ASSUME NoTxAssumption == NoTx \notin TxId

\* TransactionStatus; its PENDING is never written.
Status == {"posted", "voided"}

TxRow ==
  [status : Status, date : Date, entries : Seq(Entry), reversalOf : TxId \cup {NoTx}]

\* before and after status of the entity, and the transaction the row points at:
\* the original for the creation of a reversal, the reversal for a void.
AuditRow ==
  [entity : TxId, action : {"create", "void"}, before : Status \cup {"none"},
   after : Status, link : TxId \cup {NoTx}]

CreateRow(t, original) ==
  [entity |-> t, action |-> "create", before |-> "none", after |-> "posted",
   link |-> original]

VoidRow(t, before, reversal) ==
  [entity |-> t, action |-> "void", before |-> before, after |-> "voided",
   link |-> reversal]

\* rows, then whatever table holds under the other ids.
Overlay(rows, table) ==
  [t \in DOMAIN rows \cup DOMAIN table |-> IF t \in DOMAIN rows THEN rows[t] ELSE table[t]]

One(t, row) == [u \in {t} |-> row]

\* Mutant: the column's default instead of POSTED.
PostedPending(date, entries, original) ==
  [status |-> "pending", date |-> date, entries |-> entries, reversalOf |-> original]

Posted(date, entries, original) ==
  [status |-> "posted", date |-> date, entries |-> entries, reversalOf |-> original]

Voided(row) == [row EXCEPT !.status = "voided"]

NoRows == [t \in {} |-> NoTx]

-----------------------------------------------------------------------------
(* calculate_balance: what an account has been debited less what it has    *)
(* been credited by the transactions up to a day, voided ones included.    *)

\* Mutant: a voided transaction no longer counts, its reversal does.
CountedPosted == {"posted"}

CountedStatus == {"posted", "voided"}

\* The entries that count, as triples of a transaction, an index and an amount.
Lines(table, a, day, dir) ==
  UNION {{<<t, i, table[t].entries[i].amount>> :
            i \in {j \in Side(table[t].entries, dir) : table[t].entries[j].account = a}} :
           t \in {u \in DOMAIN table : table[u].date <= day /\ table[u].status \in CountedStatus}}

LinesTotal(lines) == SumFunctionOnSet([l \in lines |-> l[3]], lines)

CalculateBalance(table, a, day) ==
  LinesTotal(Lines(table, a, day, "debit")) - LinesTotal(Lines(table, a, day, "credit"))
=============================================================================
