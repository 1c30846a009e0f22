------------------------------- MODULE Ledger -------------------------------
(***************************************************************************)
(* create_transaction and void_transaction as the routes run them: every   *)
(* request has a database session of its own (get_db), the sessions        *)
(* interleave at every await, and PostgreSQL runs them at READ COMMITTED.  *)
(*                                                                         *)
(* A session's uncommitted rows and audit rows are its write set ws[s];    *)
(* COMMIT lays them over the tables, ROLLBACK drops them.  A session holds *)
(* the row locks of the rows it has written, and an UPDATE of a row another*)
(* session has written waits until that session ends.                      *)
(*                                                                         *)
(* A request may be cut at any step: the client goes away, the connection  *)
(* breaks or the process dies.  All three end the session with a ROLLBACK  *)
(* (a crash of the process is such a cut of every request, in any order).  *)
(***************************************************************************)
EXTENDS Journal

CONSTANTS
  Session,      \* the requests in flight, each with its session
  Payloads,     \* the payloads of POST /transactions
  Rates,        \* the rates an admin may publish
  MaxTx         \* bound: transactions the journal may hold

ASSUME LedgerAssumption ==
  /\ Payloads \subseteq Payload
  /\ Rates \subseteq ExchangeRate
  /\ MaxTx \in Nat
  /\ IsFiniteSet(ActiveAccount)

VARIABLES
  txns, audit,  \* the committed tables
  rates,        \* the exchange_rates table (rates to the base currency)
  pc,           \* where each request is
  req,          \* the payload it posts, or the transaction it voids
  rate,         \* create: the conversion rate resolved
  orig,         \* void: the row read before the update
  ws,           \* the session's uncommitted rows and audit rows
  resp,         \* the answer to the session's last request
  ratesThen     \* for the properties only: the rates its post could have when it began

local == <<pc, req, rate, orig, ws, resp, ratesThen>>
vars == <<txns, audit, rates, local>>

\* The abstract ledger sees the two committed tables and nothing else.
LS == INSTANCE LedgerSpec WITH txns <- txns, audit <- audit

PC == {"idle", "rate", "insert", "commitPost",      \* POST /transactions
       "update", "reverse", "commitVoid"}            \* POST /transactions/{id}/void

NoWrites == [rows |-> NoRows, log |-> {}]

\* No request, no value yet.
None == [none |-> TRUE]

NoAnswer == [code |-> 0, tx |-> NoTx]

Answer(code, t) == [code |-> code, tx |-> t]

Init ==
  /\ txns = NoRows /\ audit = {} /\ rates = {}
  /\ pc = [s \in Session |-> "idle"]
  /\ req = [s \in Session |-> None]
  /\ rate = [s \in Session |-> 0]
  /\ orig = [s \in Session |-> None]
  /\ ws = [s \in Session |-> NoWrites]
  /\ resp = [s \in Session |-> NoAnswer]
  /\ ratesThen = [s \in Session |-> {}]

-----------------------------------------------------------------------------
(* PostgreSQL *)

Wrote(s) == DOMAIN ws[s].rows

\* An UPDATE of row t in session s need not wait for another session's lock.
LockFree(s, t) == \A o \in Session \ {s} : t \notin Wrote(o)

\* uuid4: an id no transaction, committed or not, has.
Fresh == {t \in TxId \ DOMAIN txns : \A s \in Session : t \notin Wrote(s)}

\* The session's own writes grow by rows and log.
Write(s, rows, log) ==
  ws' = [ws EXCEPT ![s] = [rows |-> Overlay(rows, ws[s].rows), log |-> ws[s].log \cup log]]

\* The request of s ends with an answer; what it has not committed is gone.
Finish(s, answer) ==
  /\ pc' = [pc EXCEPT ![s] = "idle"]
  /\ req' = [req EXCEPT ![s] = None]
  /\ rate' = [rate EXCEPT ![s] = 0]
  /\ orig' = [orig EXCEPT ![s] = None]
  /\ ws' = [ws EXCEPT ![s] = NoWrites]
  /\ resp' = [resp EXCEPT ![s] = answer]
  /\ ratesThen' = [ratesThen EXCEPT ![s] = {}]

\* Mutant: the session goes back to the pool in its transaction.
RollbackForgotten(s, answer) ==
  /\ pc' = [pc EXCEPT ![s] = "idle"]
  /\ req' = [req EXCEPT ![s] = None]
  /\ rate' = [rate EXCEPT ![s] = 0]
  /\ orig' = [orig EXCEPT ![s] = None]
  /\ resp' = [resp EXCEPT ![s] = answer]
  /\ ratesThen' = [ratesThen EXCEPT ![s] = {}]
  /\ UNCHANGED <<ws, txns, audit, rates>>

Rollback(s, answer) == Finish(s, answer) /\ UNCHANGED <<txns, audit, rates>>

Commit(s, answer) ==
  /\ txns' = Overlay(ws[s].rows, txns)
  /\ audit' = audit \cup ws[s].log
  /\ Finish(s, answer)
  /\ UNCHANGED rates

Posting == {s \in Session : pc[s] \in {"rate", "insert", "commitPost"}}
Voiding == {s \in Session : pc[s] \in {"update", "reverse", "commitVoid"}}

\* Bound: every post in flight and every transaction to be voided may still add one.
RoomFor(posts, targets) ==
  Cardinality(DOMAIN txns) + Cardinality(posts)
    + Cardinality(targets \cup {req[s] : s \in Voiding}) <= MaxTx

-----------------------------------------------------------------------------
(* POST /transactions *)

\* find_active_by_ids and the checks on the payload.
PostBegin(s, p) ==
  /\ pc[s] = "idle" /\ Accepted(p) /\ RoomFor(Posting \cup {s}, {})
  /\ pc' = [pc EXCEPT ![s] = "rate"]
  /\ req' = [req EXCEPT ![s] = p]
  /\ resp' = [resp EXCEPT ![s] = NoAnswer]
  /\ ratesThen' = [ratesThen EXCEPT ![s] = Candidates(rates, p.code, p.date)]
  /\ UNCHANGED <<txns, audit, rates, rate, orig, ws>>

PostRejected(s, p) ==
  /\ pc[s] = "idle" /\ ~ Accepted(p)
  /\ Rollback(s, Answer(422, NoTx))

\* _resolve_usd_conversion_rate
ResolveRate(s) ==
  /\ pc[s] = "rate" /\ RateKnown(rates, req[s].code, req[s].date)
  /\ pc' = [pc EXCEPT ![s] = "insert"]
  /\ rate' = [rate EXCEPT ![s] = ResolveUsdConversionRate(rates, req[s].code, req[s].date)]
  /\ UNCHANGED <<txns, audit, rates, req, orig, ws, resp, ratesThen>>

NoRate(s) ==
  /\ pc[s] = "rate" /\ ~ RateKnown(rates, req[s].code, req[s].date)
  /\ Rollback(s, Answer(422, NoTx))

\* tx_repo.save (two flushes no other session sees) and audit_repo.log.
InsertPosted(s) ==
  /\ pc[s] = "insert" /\ FitsColumns(Convert(req[s].entries, rate[s]))
  /\ \E t \in Fresh :
       Write(s, One(t, Posted(req[s].date, Convert(req[s].entries, rate[s]), NoTx)),
             {CreateRow(t, NoTx)})
  /\ pc' = [pc EXCEPT ![s] = "commitPost"]
  /\ UNCHANGED <<txns, audit, rates, req, rate, orig, resp, ratesThen>>

InsertFails(s) ==
  /\ pc[s] = "insert" /\ ~ FitsColumns(Convert(req[s].entries, rate[s]))
  /\ Rollback(s, Answer(500, NoTx))

\* db.commit() runs the deferred trigger on every transaction just inserted.
TriggerPasses(s) ==
  \A t \in Wrote(s) \ DOMAIN txns : TriggerAccepts(ws[s].rows[t].entries)

CommitRefused(s) ==
  /\ pc[s] \in {"commitPost", "commitVoid"} /\ ~ TriggerPasses(s)
  /\ Rollback(s, Answer(500, NoTx))

\* The answer to a COMMIT may be lost on its way to the client.
CommitPost(s) ==
  /\ pc[s] = "commitPost" /\ TriggerPasses(s)
  /\ \E t \in Wrote(s) : \E answer \in {Answer(201, t), NoAnswer} : Commit(s, answer)

-----------------------------------------------------------------------------
(* POST /transactions/{id}/void *)

\* find_by_id_with_entries
VoidBegin(s, t) ==
  /\ pc[s] = "idle" /\ t \in DOMAIN txns /\ RoomFor(Posting, {t})
  /\ pc' = [pc EXCEPT ![s] = "update"]
  /\ req' = [req EXCEPT ![s] = t]
  /\ orig' = [orig EXCEPT ![s] = txns[t]]
  /\ resp' = [resp EXCEPT ![s] = NoAnswer]
  /\ UNCHANGED <<txns, audit, rates, rate, ws, ratesThen>>

VoidNotFound(s, t) ==
  /\ pc[s] = "idle" /\ t \notin DOMAIN txns
  /\ Rollback(s, Answer(404, NoTx))

\* Mutants of MarkVoided: the status as it was read, and an update that commits.
MarkVoidedAsRead(s) ==
  /\ pc[s] = "update" /\ LockFree(s, req[s])
  /\ orig[s].status = "posted"
  /\ Write(s, One(req[s], Voided(txns[req[s]])), {})
  /\ pc' = [pc EXCEPT ![s] = "reverse"]
  /\ UNCHANGED <<txns, audit, rates, req, rate, orig, resp, ratesThen>>

MarkVoidedAutocommit(s) ==
  /\ pc[s] = "update" /\ LockFree(s, req[s])
  /\ txns[req[s]].status = "posted"
  /\ txns' = Overlay(One(req[s], Voided(txns[req[s]])), txns)
  /\ Write(s, One(req[s], Voided(txns[req[s]])), {})
  /\ pc' = [pc EXCEPT ![s] = "reverse"]
  /\ UNCHANGED <<audit, rates, req, rate, orig, resp, ratesThen>>

\* mark_voided_if_posted: the update waits for the row lock and then looks at
\* the row as it is, not as it was read.
MarkVoided(s) ==
  /\ pc[s] = "update" /\ LockFree(s, req[s])
  /\ txns[req[s]].status = "posted"
  /\ Write(s, One(req[s], Voided(txns[req[s]])), {})
  /\ pc' = [pc EXCEPT ![s] = "reverse"]
  /\ UNCHANGED <<txns, audit, rates, req, rate, orig, resp, ratesThen>>

\* Mutant: a row that is locked counts as voided (SKIP LOCKED).
AlreadyVoidedOrLocked(s) ==
  /\ pc[s] = "update"
  /\ ~ LockFree(s, req[s]) \/ txns[req[s]].status # "posted"
  /\ Rollback(s, Answer(409, req[s]))

AlreadyVoided(s) ==
  /\ pc[s] = "update" /\ LockFree(s, req[s])
  /\ txns[req[s]].status # "posted"
  /\ Rollback(s, Answer(409, req[s]))

\* Mutant: the reversal is logged as any other transaction.
InsertReversalUnlinked(s) ==
  /\ pc[s] = "reverse"
  /\ \E r \in Fresh :
       Write(s, One(r, Posted(orig[s].date, Mirror(orig[s].entries), req[s])),
             {CreateRow(r, NoTx), VoidRow(req[s], orig[s].status, r)})
  /\ pc' = [pc EXCEPT ![s] = "commitVoid"]
  /\ UNCHANGED <<txns, audit, rates, req, rate, orig, resp, ratesThen>>

\* tx_repo.save of the reversal and the two audit_repo.log.
InsertReversal(s) ==
  /\ pc[s] = "reverse"
  /\ \E r \in Fresh :
       Write(s, One(r, Posted(orig[s].date, Mirror(orig[s].entries), req[s])),
             {CreateRow(r, req[s]), VoidRow(req[s], orig[s].status, r)})
  /\ pc' = [pc EXCEPT ![s] = "commitVoid"]
  /\ UNCHANGED <<txns, audit, rates, req, rate, orig, resp, ratesThen>>

CommitVoid(s) ==
  /\ pc[s] = "commitVoid" /\ TriggerPasses(s)
  /\ \E answer \in {Answer(200, req[s]), NoAnswer} : Commit(s, answer)

-----------------------------------------------------------------------------
\* The request is cut, or a statement or the COMMIT fails with the connection.
Cut(s) == pc[s] # "idle" /\ Rollback(s, NoAnswer)

\* POST /exchange-rates, one rate per currency and day.
PublishRate(r) ==
  /\ \A q \in rates : <<q.currency, q.date>> # <<r.currency, r.date>>
  /\ {r.currency, BaseCurrency} \subseteq KnownCurrency
  /\ rates' = rates \cup {r}
  /\ UNCHANGED <<txns, audit, local>>

Step(s) ==
  \/ ResolveRate(s) \/ NoRate(s) \/ InsertPosted(s) \/ InsertFails(s) \/ CommitPost(s)
  \/ CommitRefused(s) \/ MarkVoided(s) \/ AlreadyVoided(s) \/ InsertReversal(s) \/ CommitVoid(s)

Next ==
  \/ \E s \in Session :
       \/ \E p \in Payloads : PostBegin(s, p) \/ PostRejected(s, p)
       \/ \E t \in TxId : VoidBegin(s, t) \/ VoidNotFound(s, t)
       \/ Step(s)
       \/ Cut(s)
  \/ \E r \in Rates : PublishRate(r)

Spec == Init /\ [][Next]_vars

-----------------------------------------------------------------------------
TypeOK ==
  /\ DOMAIN txns \subseteq TxId /\ \A t \in DOMAIN txns : txns[t] \in TxRow
  /\ audit \subseteq AuditRow
  /\ rates \subseteq ExchangeRate
  /\ pc \in [Session -> PC]
  /\ req \in [Session -> Payload \cup TxId \cup {None}]
  /\ rate \in [Session -> Nat]
  /\ ratesThen \in [Session -> SUBSET ExchangeRate]
  /\ orig \in [Session -> TxRow \cup {None}]
  /\ resp \in [Session -> [code : {0, 200, 201, 404, 409, 422, 500}, tx : TxId \cup {NoTx}]]
  /\ DOMAIN ws = Session
  /\ \A s \in Session :
       /\ Wrote(s) \subseteq TxId
       /\ \A t \in Wrote(s) : ws[s].rows[t] \in TxRow
       /\ ws[s].log \subseteq AuditRow

\* What a session that posts, or voids, has written when it reaches its COMMIT.
PostWrites(s, t) ==
  LET row == ws[s].rows[t]
  IN  /\ t \in TxId \ DOMAIN txns
      /\ ws[s].rows = One(t, row) /\ ws[s].log = {CreateRow(t, NoTx)}
      /\ row.status = "posted" /\ row.reversalOf = NoTx /\ WellFormed(row.entries)

VoidWrites(s, r) ==
  /\ r \in TxId \ DOMAIN txns
  /\ ws[s].rows = Overlay(One(r, Posted(orig[s].date, Mirror(orig[s].entries), req[s])),
                          One(req[s], Voided(orig[s])))
  /\ ws[s].log = {CreateRow(r, req[s]), VoidRow(req[s], "posted", r)}

SessionSound(s) ==
  /\ pc[s] \in {"idle", "rate", "insert", "update"} => ws[s] = NoWrites
  /\ pc[s] \in {"rate", "insert"} => req[s] \in Payload /\ Accepted(req[s])
  /\ pc[s] = "commitPost" => \E t \in Wrote(s) : PostWrites(s, t)
  /\ pc[s] \in {"update", "reverse", "commitVoid"} =>
       req[s] \in DOMAIN txns /\ orig[s] \in TxRow
  /\ pc[s] = "update" => txns[req[s]] \in {orig[s], Voided(orig[s])}
  /\ pc[s] \in {"reverse", "commitVoid"} =>
       txns[req[s]] = orig[s] /\ orig[s].status = "posted"
  /\ pc[s] = "reverse" => ws[s] = [rows |-> One(req[s], Voided(orig[s])), log |-> {}]
  /\ pc[s] = "commitVoid" => \E r \in Wrote(s) : VoidWrites(s, r)

(* The row lock is what the read of the original rests on.  A session that *)
(* has updated the row it read holds the lock until it ends, so the row is *)
(* still posted and still what it read when the reversal is built from it; *)
(* one that has not may only find that it was voided meanwhile.  No two    *)
(* sessions write the same row.                                            *)
LockDiscipline ==
  /\ \A s, o \in Session : s # o => Wrote(s) \cap Wrote(o) = {}
  /\ \A s \in Session : SessionSound(s)

(* The sessions together implement the abstract ledger: whatever they do,  *)
(* cuts included, the two tables change by whole posts and whole voids.    *)
ImplementsLedgerSpec == LS!Spec

(* Every committed transaction, a reversal included, balances, has both    *)
(* sides and is in one currency.                                           *)
JournalWellFormed == LS!JournalWellFormed

(* A transaction is voided if and only if the journal holds its one        *)
(* reversal, on its own date and with its entries mirrored: sessions that  *)
(* void it at the same time do not both take effect.                       *)
VoidedOnceByMirror == LS!VoidedOnceByMirror

(* The audit log matches the journal exactly, through every interleaving   *)
(* and every cut.                                                          *)
AuditMatchesJournal == LS!AuditMatchesJournal

(* The journal and the audit log are append-only.                          *)
Immutable == LS!Immutable

(* How far a transaction is from the one at the root of its reversals.     *)
Depth ==
  LET d[t \in DOMAIN txns] ==
        IF txns[t].reversalOf = NoTx THEN 0 ELSE 1 + d[txns[t].reversalOf]
  IN  d

\* The journal without what voids have undone: a transaction whose reversal was
\* voided in its turn counts again.
Effective ==
  LET depth == Depth
  IN  [t \in {u \in DOMAIN txns : txns[u].status = "posted" /\ depth[u] % 2 = 0} |-> txns[t]]

(* A void takes the transaction out of every balance: at every day and for *)
(* every account calculate_balance, which adds up voided transactions and  *)
(* reversals alike, is the balance of the transactions in effect.          *)
VoidNetsToZero ==
  \A a \in Account, day \in Date :
    CalculateBalance(txns, a, day) = CalculateBalance(Effective, a, day)

(* The trial balance: at every day the balances of the accounts in one     *)
(* currency add up to zero.                                                *)
TrialBalance ==
  \A c \in Currency, day \in Date :
    LET accounts == {a \in ActiveAccount : CurrencyOf[a] = c}
    IN  SumFunctionOnSet([a \in accounts |-> CalculateBalance(txns, a, day)], accounts) = 0

\* The entries at this rate.
ConvertedAt(entries, r) ==
  \A i \in DOMAIN entries : entries[i].usd = ConvertAmountUsd(entries[i].amount, r)

Currencies(entries) == {entries[i].currency : i \in DOMAIN entries}

(* Every entry carries its USD amount at one rate for the whole            *)
(* transaction, that of the currency it is in (models/entry.py: "Non-USD   *)
(* transactions: amount * exchange_rate").  The rate is published for a day*)
(* on or before the transaction's, and no later one up to that day was     *)
(* there when the request began, whatever was published while it was       *)
(* written: find_exchange_rate takes the most recent.  (A row that is in   *)
(* the journal does not change; the second part is therefore asked of the  *)
(* rows on their way to it.)                                               *)
UsdAtRateOfCurrency ==
  /\ \A t \in DOMAIN txns : \A c \in Currencies(txns[t].entries) :
       IF c = BaseCurrency THEN ConvertedAt(txns[t].entries, RateScale)
       ELSE \E r \in Candidates(rates, c, txns[t].date) : ConvertedAt(txns[t].entries, r.rate)
  /\ \A s \in Session : pc[s] = "commitPost" => \A t \in Wrote(s) :
       LET row == ws[s].rows[t]
       IN  \A c \in Currencies(row.entries) \ {BaseCurrency} :
             \E r \in Candidates(rates, c, row.date) :
               /\ ConvertedAt(row.entries, r.rate)
               /\ \A q \in ratesThen[s] : q.currency = c => q.date <= r.date

UsdTotal(entries, dir) ==
  SumFunctionOnSet([i \in DOMAIN entries |-> entries[i].usd], Side(entries, dir))

(* Entries are rounded to USD one by one, so the USD sides of a transaction*)
(* that balances may differ (tech-debt.md, TD-050): by no more than half a *)
(* minor unit for each of its entries, in a reversal as in its original.   *)
UsdSidesWithinRounding ==
  \A t \in DOMAIN txns :
    LET e == txns[t].entries
        difference == UsdTotal(e, "debit") - UsdTotal(e, "credit")
    IN  2 * difference \in -Len(e) .. Len(e)

(* What is posted can be voided: the reversal of a transaction that went   *)
(* in fits the columns and passes the trigger too.                         *)
PostedCanBeVoided ==
  \A s \in Session : pc[s] = "commitVoid" =>
    TriggerPasses(s) /\ \A t \in Wrote(s) : FitsColumns(ws[s].rows[t].entries)

(* An answer is true when it is given and stays true: 201 names a          *)
(* transaction of the journal, 200 and 409 one that is voided.  A void that*)
(* is still uncommitted, and may be rolled back, never turns another away; *)
(* of those that void one transaction, at most one is told it did          *)
(* (tests/test_transactions.py, test_concurrent_void_returns_single_conflict). *)
AnswersHold ==
  \A s \in Session :
    /\ resp[s].code \in {200, 201, 409} => resp[s].tx \in DOMAIN txns
    /\ resp[s].code \in {200, 409} => txns[resp[s].tx].status = "voided"
    /\ \A o \in Session : resp[s].code = 200 /\ resp[o] = resp[s] => s = o
=============================================================================
