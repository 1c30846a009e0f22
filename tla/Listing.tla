------------------------------- MODULE Listing -------------------------------
(***************************************************************************)
(* The lists a client reads page by page, by limit and offset, while posts *)
(* and voids go on: GET /transactions, GET /ledger, GET /audit-logs.       *)
(*                                                                         *)
(* Time is what the orders compare, and is counted in COMMITs.  An audit   *)
(* row's created_at is the BEGIN of its database transaction, a            *)
(* transaction's posted_at a moment between its BEGIN and its COMMIT; both *)
(* may be earlier than what others have committed meanwhile.               *)
(***************************************************************************)
EXTENDS Integers, Sequences, FiniteSetsExt

CONSTANTS
  TxId,         \* transaction ids, as PostgreSQL orders them
  EntryIds,     \* the ids of a transaction's entries
  Date,         \* transaction dates
  Limit         \* the page size a client asks for

ASSUME ListingAssumption ==
  /\ TxId \subseteq Nat \ {0} /\ Date \subseteq Nat \ {0}
  /\ EntryIds \in [TxId -> SUBSET Nat]
  /\ \A t \in TxId : IsFiniteSet(EntryIds[t])
  /\ \A t, u \in TxId : t # u => EntryIds[t] \cap EntryIds[u] = {}
  /\ Limit \in Nat \ {0}

VARIABLES
  commits,      \* the transactions, in the order of their COMMITs
  walk          \* the client: the list it reads and how far it is

listVars == <<commits, walk>>

List == {"transactions", "ledger", "audit_logs"}

NoWalk == [at |-> "idle"]

ListInit == commits = <<>> /\ walk = NoWalk

-----------------------------------------------------------------------------
(* POST /transactions and POST /transactions/{id}/void, at their COMMIT *)

Used == {commits[i].id : i \in DOMAIN commits}

\* A transaction begun when there were some of the commits, and at least first.
AddTransaction(first, date, of) ==
  \E t \in TxId \ Used, created \in first .. Len(commits) :
    \E posted \in created .. Len(commits) :
      commits' = Append(commits,
        [id |-> t, date |-> date, created |-> created, posted |-> posted, of |-> of])

Post == (\E date \in Date : AddTransaction(0, date, 0)) /\ UNCHANGED walk

\* The reversal has the date of the original.  Who voids knows the id, so the original
\* was committed when the request began; it is posted until it has a reversal.
Void ==
  /\ \E i \in DOMAIN commits :
       /\ \A j \in DOMAIN commits : commits[j].of # commits[i].id
       /\ AddTransaction(i, commits[i].date, commits[i].id)
  /\ UNCHANGED walk

-----------------------------------------------------------------------------
(* The queries *)

\* Mutant: a list of what is not voided.
TransactionsPosted ==
  {commits[i] : i \in {j \in DOMAIN commits :
                        \A k \in DOMAIN commits : commits[k].of # commits[j].id}}

\* The transactions table: of every status.
Transactions == {commits[i] : i \in DOMAIN commits}

\* Mutant: both rows of a void name the reversal.
AuditRowsOfOne(t) ==
  {[id |-> <<t.id, "create">>, entity |-> t.id, created |-> t.created]} \cup
  {[id |-> <<t.id, "void">>, entity |-> t.id, created |-> t.created] : v \in {t.of} \ {0}}

\* audit_repo.log: of a post one row, of a void one of the reversal and one of the
\* original, with one created_at (func.now() is the BEGIN).
AuditRows(t) ==
  {[id |-> <<t.id, "create">>, entity |-> t.id, created |-> t.created]} \cup
  {[id |-> <<v, "void">>, entity |-> v, created |-> t.created] : v \in {t.of} \ {0}}

\* What a list orders by: transaction_date and posted_at.
TxKey(t) == <<t.date, t.posted>>

\* list_all, list_entries with from_date, list_logs with entity_id; 0 is no filter.
Selected(list, filter) ==
  CASE list = "transactions" -> {[id |-> t.id, key |-> TxKey(t)] : t \in Transactions}
    [] list = "ledger" ->
         UNION {{[id |-> e, key |-> TxKey(t)] : e \in EntryIds[t.id]} :
                t \in {u \in Transactions : u.date >= filter}}
    [] list = "audit_logs" ->
         {[id |-> r.id, key |-> <<r.created, 0>>] :
            r \in {q \in UNION {AuditRows(t) : t \in Transactions} : filter \in {0, q.entity}}}

Later(k, l) == k[1] > l[1] \/ (k[1] = l[1] /\ k[2] > l[2])

\* Mutant: no list has its id as the last criterion.
BeforeById(list, x, y) == Later(x.key, y.key)

\* ORDER BY: the latest first, ties by id but in the audit log, which leaves them to
\* PostgreSQL: in any order, in every query anew.
Before(list, x, y) ==
  Later(x.key, y.key) \/ (list # "audit_logs" /\ x.key = y.key /\ x.id < y.id)

\* The sets of n rows LIMIT n may return.
Heads(list, rows, n) ==
  {h \in kSubset(IF n < Cardinality(rows) THEN n ELSE Cardinality(rows), rows) :
     \A x \in h, y \in rows \ h : ~ Before(list, y, x)}

\* Mutant: the offset counts pages from one.
PagesFromOne(list, rows, offset) ==
  {h[2] \ h[1] : h \in {g \in Heads(list, rows, offset + 1) \X Heads(list, rows, offset + Limit) :
                          g[1] \subseteq g[2]}}

\* The pages OFFSET and LIMIT may return.
Pages(list, rows, offset) ==
  {h[2] \ h[1] : h \in {g \in Heads(list, rows, offset) \X Heads(list, rows, offset + Limit) :
                          g[1] \subseteq g[2]}}

-----------------------------------------------------------------------------
(* The client: the next offset after every full page, until a page is short *)

Filters(list) ==
  CASE list = "transactions" -> {0}
    [] list = "ledger" -> {0} \cup Date
    [] list = "audit_logs" -> {0} \cup TxId

StartWalk(list, filter) ==
  /\ walk = NoWalk
  /\ walk' = [at |-> "reading", list |-> list, filter |-> filter, offset |-> 0,
              begun |-> Selected(list, filter), seen |-> {}]
  /\ UNCHANGED commits

GetPage ==
  /\ walk.at = "reading"
  /\ \E page \in Pages(walk.list, Selected(walk.list, walk.filter), walk.offset) :
       walk' = [walk EXCEPT !.seen = @ \cup page, !.offset = @ + Limit,
                            !.at = IF Cardinality(page) < Limit THEN "done" ELSE "reading"]
  /\ UNCHANGED commits

-----------------------------------------------------------------------------
Missed == walk.begun \ walk.seen

(* Who reads the transactions or the ledger page by page sees every row    *)
(* there was when the reading began, although concurrent posts with earlier*)
(* and later dates shift the rows from page to page (they may be seen      *)
(* twice): rows are only ever added, and their order is total.             *)
PagesMissNothing ==
  walk.at = "done" /\ walk.list # "audit_logs" => Missed = {}

(* The audit log's order is not total: reading it, only rows are missed    *)
(* that share their created_at with another, as the two of every void do   *)
(* (docs/tech-debt.md TD-025: "deterministic ordering added (pagination    *)
(* correctness)").                                                         *)
AuditMissesOnlyTies ==
  walk.at = "done" /\ walk.list = "audit_logs" =>
    \A x \in Missed : \E y \in Selected("audit_logs", walk.filter) : y # x /\ y.key = x.key

(* The history of one transaction, the audit log filtered by its id, is    *)
(* complete: its rows are from transactions that began one after another.  *)
EntityHistoryComplete ==
  walk.at = "done" /\ walk.list = "audit_logs" /\ walk.filter # 0 => Missed = {}
=============================================================================
