# A TLA+ model of payment-ledger-api

payment-ledger-api is a double-entry ledger behind a REST API: FastAPI and
SQLAlchemy on PostgreSQL at READ COMMITTED, Redis for idempotency keys and for
cached balances.  One event loop per process runs every request as a task; every
`await` is a point where another request, in this process or another, can run.
This directory holds TLA+ modules translated from `src/`, the TLC runs that check
small instances of them, and proofs that TLAPS checks for every value of the
constants.  `PROJECT.json` maps each definition to its lines of source.

Contents: [inventory](#1-inventory), [modules](#2-modules), [runs](#3-runs-and-bounds),
[fairness](#4-fairness), [proofs](#5-what-is-proved), [disagreements](#6-where-the-code-and-its-documents-disagree),
[what is left out](#7-what-is-not-modelled), [plan](#8-plan).

## 1. Inventory

| component | state | operations | what is hard, and what makes it correct |
|---|---|---|---|
| Double-entry rules (`services/transaction_service.py`, `schemas/transaction.py`, the balance trigger) | none | validate a payload, convert to USD, mirror | rates published while a transaction is written; rounding; BIGINT limits |
| Transactions and voids (`transaction_service.py`, `repositories/transaction_repository.py`, `routes/transactions.py`, `db/session.py`) | `transactions`, `entries`, `audit_logs`; per session its uncommitted rows and row locks | POST /transactions, POST /transactions/{id}/void | two voids of one row; a row read before an UPDATE that waits; three flushes that must be one; a COMMIT whose answer is lost; chains of voids |
| Idempotency (`dependencies/idempotency.py`) | one Redis string per key | the gate, the cached response, the deletion after an exception | requests with one key at the same time, a client that retries what was cut after its COMMIT, Redis failing on either side of the COMMIT, expiry between SET NX and GET |
| Balance cache (`routes/accounts.py`, `_invalidate_balance_cache`) | one Redis string per account and day | GET balance, invalidate | a reader between COMMIT and invalidation, SCAN in several round trips, Redis lost half way, entries that nobody deletes |
| Balance calculation (`repositories/account_repository.py`) | none, it reads the journal | `calculate_balance` | a void keeps the original in the sum and adds its mirror |
| Currencies, rates, accounts, users (`services/*_service.py` and their repositories) | four tables with unique columns | create | check-then-insert, waits for a unique index, an `IntegrityError` that is caught in two of four places and stands for more than duplicates, the COMMIT after the response |
| Authentication and roles (`core/deps.py`, `core/security.py`, `routes/auth.py`) | none on the server: a token carries role and state | log-in, guards | a token outlives a change of what it says, and so does the row a slow log-in has read; every page of a list asks again |
| Listings (`repositories/ledger_repository.py`, `audit_repository.py`, `routes/ledger.py`, ...) | none | pages by offset | pages cut while others post with earlier and later dates; an order with ties, which PostgreSQL breaks as it likes |
| Seed script (`scripts/seed_demo_user.py`) | none | five look-and-insert steps in one database transaction | rows that are there under other ids, clients that hold its keys while it holds theirs |
| Schema (`alembic/`), settings, logging, telemetry, load test | | | see [7](#7-what-is-not-modelled) |

How they interact.  `post_transaction` runs inside two generator dependencies:
`get_db` (the session, committed or rolled back at its end) and around the handler
`check_idempotency` (claims the key before, deletes it when an exception comes
through).  FastAPI resolves the dependencies in the order of the endpoint's
parameters, so the key is claimed *before* `require_admin` and before the body's errors
are raised.  The handler calls `create_transaction`, COMMITs, invalidates the balance
cache of each account, writes the response under the key, and answers.  Void has no
idempotency key; its guard is the conditional UPDATE of the row.
With fastapi 0.139 the exit code of a generator dependency runs after the response
was sent; the two write endpoints COMMIT themselves before they answer, every other
endpoint leaves it to `get_db`.

## 2. Modules

| module | models | state and actions against the code |
|---|---|---|
| `DoubleEntry` | the pure rules | `Accepted` is the conjunction of the raises of `create_transaction`, `ResolveUsdConversionRate`/`ConvertAmountUsd`/`Convert` its conversion (rates scaled to integers by `RateScale`, half up as `quantize` does), `Mirror` the reversal, `TriggerAccepts` the deferred trigger, `FitsColumns` the BIGINT columns |
| `Journal` | rows | a transaction row, an audit row, `CalculateBalance`; `Overlay` is what a COMMIT does to a table |
| `LedgerSpec` | what the ledger promises | two atomic actions: `Post` adds one well-formed transaction and its audit row, `Void` turns one posted transaction into a voided one and adds its mirror and both audit rows |
| `Ledger` | the sessions that do it | per session `pc`, the request, the row it read, and `ws`, its write set: the uncommitted rows (which are its row locks) and audit rows.  One action per stretch between two awaits that others can notice: `PostBegin`, `ResolveRate`, `InsertPosted`, `CommitPost`, `VoidBegin`, `MarkVoided` (the conditional UPDATE: waits for the lock, then re-evaluates on the committed row), `InsertReversal`, `CommitVoid`; their refusals; `Cut`, a request cancelled or a process dead anywhere; a COMMIT whose answer is lost; `PublishRate` for rates that appear meanwhile |
| `Idempotency` | the key's life | `store` is Redis; `Arrive`, `Claim` (SET NX EX), `Look` (the GET of a duplicate), `Refused`, `Replay`, `Create`, `Fails`, `Commit`, `Cache`, `DeleteKey` follow a request; `ClaimFails`, `LookFails`, `CacheFails`, `DeleteFails` are Redis failing, with the command applied or not; `CommitUnanswered`, `Crash`, `Expire`, `LoseKeys` |
| `ReferenceData` | users, currencies, accounts, rates, the seed script | a session looks (`CheckPasses`, or `EmailTaken`, `UnknownCurrency`), inserts its row into one unique index after the other (`TakeKey`, which waits while another session holds the key uncommitted; `KeyViolated`), is checked for its foreign keys (`ReferenceViolated`), answers (`Respond`) and only then commits (`Commit`); `Cut` anywhere, `DeadlockAborts` when sessions wait in a circle.  The script is a session with five rows and one COMMIT |
| `BalanceCache` | balances in Redis | `Hit`, `Miss`, `Compute`, `SetCache` are a reader; `CommitWrite`, `NextAccount`, `Scan`, `DeleteKeys` a writer from its COMMIT on; failures, crashes, `Expire`.  A balance is the set of transactions it sums |
| `PaymentApi` | the two write endpoints as a client meets them | the variables of `Ledger`, those of `Idempotency` (`gate`, `ask`, `ctx`, `reply`, ...), the cached balances (`cache`), what a reader has computed and not yet SET (`reading`) and, per request, where its invalidation is (`sweep`).  A step is one of the component the request is in: `PassGate`, `Serve`, `Resolve`, `VoidWorks`; where the handler hands over it is a step of both: `Insert` (the id the gate will store is the one the session wrote), `PostCommits`, `PostFails`, `PayloadRejected`; after the COMMIT `Invalidate` (`SweepAccount`, the round trips `Scan`, `DeleteFound`, and `SweepFails` where the code swallows the loss of Redis), then `Respond`.  `ApiCut` anywhere; a reader computes in `ComputeBalance` and SETs, or fails to, in `EndReading`; `ExpireBalance` |
| `Auth` | log-in and tokens | `FindUser` reads the users row, `IssueToken` signs what was read after the password check, or `LoginFails`; `Tick` is the clock, `ChangeUser` what an operator does to the row in the database, as no route does; `Admitted` is `get_current_user` with the role of the route.  `held` is history: which user was active in which role at which time |
| `Listing` | the three lists | `Post` and `Void` add rows whose BEGIN and `posted_at` may be earlier than what others have committed meanwhile; `Selected` is a query's WHERE, `Before` its ORDER BY, `Pages` every page that OFFSET and LIMIT may cut out of an order with ties; `GetPage` is the client's next page |
| `Reading` | a client that reads a list under its token | `Serve` when the token is admitted, `Refuse` (401, 403) when it is not, before every page |
| `DoubleEntryProofs`, `LedgerSpecProofs`, `LedgerProofs`, `IdempotencyProofs`, `BalanceCacheProofs`, `ReferenceDataProofs`, `PaymentApiProofs`, `ReadingProofs` | theorems, each about the module it is named after; `DoubleEntryProofs` also has the sums over a `Journal` | see [5](#5-what-is-proved) |
| `MC*` | small instances | constants for TLC |

`LedgerSpec` extends `Journal`, which extends `DoubleEntry`; `Ledger` extends
`Journal` and instantiates `LedgerSpec` on its committed rows
(`ImplementsLedgerSpec`): every COMMIT is one atomic write, every other step a stutter.
`PaymentApi` extends `Ledger` and instantiates `Idempotency` with its requests as the
posting clients and its bodies as the payloads (`ImplementsIdempotency`): the composed
endpoint implements the gate's specification.  Its cache takes the steps of
`BalanceCache`, with the balances of the real journal: a reader computes and SETs in two
steps with anything between, an invalidation scans key by key, and Redis may be lost in it
or in the SET.  `BalanceCache` adds the GET before it, its hits and the 404, and under fairness the
end of every time to live.  That Redis is lost by the gate is `Idempotency`'s alone.  `Reading` extends `Auth` and `Listing`.

Definitions marked *Mutant* are what a plausible slip in the code would make of the
definition after them; no specification uses them.  Each checked property is
violated by one of them.

## 3. Runs and bounds

| run | instance | checks |
|---|---|---|
| `ledger` | 2 sessions, 4 transactions, 9 payloads (two that pass every check of the service and not the columns or the trigger's sum, five that are refused), 3 days, 3 rates | types; `LockDiscipline`; every committed transaction well formed; voided if and only if mirrored once; the audit log a function of the journal; balances through chains of voids; trial balance per currency and day; USD amounts at one rate of the right currency, published for a day up to the transaction's and no older than any that was there when the request began, and the USD sides no further apart than half a unit for each entry; what is posted can be voided; answers true, and one void told it won; the sessions implement `LedgerSpec` |
| `ledger_default_code` | a payload without `currency_code` | violated: `UsdAtRateOfCurrency` |
| `idempotency` | 3 requests, one key (or none), 2 bodies, 2 faults of Redis before the COMMIT or cuts anywhere | types; one request past the gate; one transaction per key within its 24 hours; the key of a committed transaction taken; without a fault a failed request leaves its key free; a cached response stays |
| `idempotency_faults` | 2 requests, 2 faults of every kind, Redis losing all keys included; fairness | a 2xx names a transaction of the request's own key and body; no key pending for ever |
| `idempotency_after_commit` | Redis or the COMMIT's answer lost after the COMMIT | violated: `PostedOnce` |
| `balance_cache` | 1 reader, 2 writers, an account and an id that is none, 2 days, 2 transactions, 1 fault; fairness | no entry that was right is left behind by an invalidation; what is cached was a balance once; a stale balance ends |
| `balance_cache_race` | 1 reader, 1 writer | violated: `HitsSeeFinishedWrites` |
| `balance_cache_outage` | Redis lost once | violated: `OutageNeverWrong` |
| `payment_api` | 3 clients: 2 may post with one key, an accepted payload either of them, a refused one the second; 2 may void; one reader; 2 transactions, one watched balance; cuts anywhere, Redis lost in any invalidation or SET; fairness | a 201 or a replayed 200 names a transaction of the journal with the lines asked for; a cached balance that was right when SET is exact, or still to be deleted, or left behind by an outage or a cut; who was told of a transaction finds it in every cached balance that no race or outage left wrong; the endpoint implements the gate; every request ends |
| `reading` | 1 client, 1 user whose row changes once, lifetime and log-in of one tick each, 2 transactions of two entries, pages of one row | the pages of transactions and ledger miss nothing that was there when the reading began; those of the audit log miss only ties; the history of one entity is complete; the window of a revocation; every page within it |
| `reference_data` | 3 sessions and requests out of 5, any of them the script, one cut; fairness | a key has one row; what a row names was there before it; the audit log has every client's row once; a 201 that was not cut is stored; a 409 is true where everything named exists; the demo whole or absent; every session ends |
| `reference_data_duplicates` | two creations of one currency | violated: `DuplicatesAreCaught` |

Why these bounds.  Two sessions make every race for one row: the void's guard
relates one row, its reader and its writer.  Four transactions hold a transaction, its
reversal, the reversal's reversal and another.  `MaxBigInt` = 8 puts the limit of a
BIGINT where amounts of one digit reach it; `RateScale` = 4 makes halves, and quarters
that are not halves, visible to the rounding.  `RoomFor` lets a post or a void
begin its work only when the journal can still hold what it may add; in `payment_api` the post it
leaves no room for has passed the gate, and may still be refused or cut.  Three requests with one key are a first, one that finds it pending and one
that claims it after it was freed.  In `payment_api` a client makes one request and a retry
is another client's with the same key and body; two transactions are a post and its void, or two posts.
That is enough for a replay after the void (it adds nothing to the journal, so no bound stops
it), a replay of what was cut, a queue behind a row lock, two invalidations of one balance and a reader
that computed before either.  Posts without a key are `idempotency`'s, and no rate is
published, as conversion is `ledger`'s.  Two days of the cache are the transaction's and a
later one, whose balance it changes too.  A tick of `Auth` is the unit of both the
lifetime and the log-in, `MaxTime` = 2 outlives each; `Listing` counts time in COMMITs, which
is all that the orders compare.  Pages of one row cut everywhere.  Three sessions of
`ReferenceData` are the script, a client that waits for it, and one that is waited for.
Counters that a bound caps (`MaxFaults`, `MaxWrites`, `MaxTx`, `MaxRequests`, `MaxChanges`,
`MaxTime`) appear in a guard each.  When the `MaxRequests` sessions of `ReferenceData` have
ended nothing more happens, so its runs do not check for deadlock; that sessions do end
is `EveryCreationEnds`.  Symmetry is over sessions, requests and transaction ids, and
only in the runs `ledger` and `idempotency`, which have no liveness property.

Three abstractions that carry weight: `ledger` leaves out the payload without a
`currency_code` (its own run shows what it does to `UsdAtRateOfCurrency`);
`Idempotency!Expire` assumes that a request takes less than the 24 hours of its own key;
and `Auth` assumes that a log-in takes at most `LoginTime`.

## 4. Fairness

Every property under fairness assumes that what the process, PostgreSQL or Redis has
begun goes on: weak fairness of a request's own steps, as the event loop runs every ready
task.  `PaymentApi!ApiFairness` is weak fairness of each request's steps and strong fairness
of `VoidWorks`, where a void may wait for a row lock: PostgreSQL queues the waiters of a row.  In `ReferenceData`, where waiters for a
unique index are not queued, weak fairness is enough because the number of
sessions that ever begin is bounded.  Redis expires every key that has a time to live
(weak fairness of `Expire`).  No client is obliged to ask, no fault to happen, nobody to
publish a rate.

## 5. What is proved

Every safety property a passing run checks, invariants, action properties and the two
refinements, is also a theorem: the run shows it on a small instance, `tlapm` checks the
proof for every value of the constants.  Theorem by theorem this is the list `theorems` of
`PROJECT.json`; here is how the arguments go and which invariant each needs.

**`DoubleEntryProofs`.**  The mirror of well-formed entries is well formed and so is the
conversion of an accepted payload; rounding half up is off by at most a half; the rate that
is looked up is the latest not after the day.  And the sums: `calculate_balance` and the
trigger add up with a fold over a set, of which the provers know nothing.  Induction over an
operator is out of their reach, so a fact about all finite sets is proved as a statement
about the set of the subsets that satisfy it: it has the empty set, with a set it has the
same with one element more, hence it has the finite set itself.  From `TotalUnion`, sums
over parts, follow `BalancesCancel` (in a table of balanced transactions the balances of a
currency cancel) and `PairsCancel` (transactions that undo each other in pairs drop out).

**`LedgerSpecProofs`.**  The invariant of the atomic ledger (`JournalWellFormed`,
`VoidedOnceByMirror`, `AuditMatchesJournal`) is inductive, and the ledger append-only.

**`LedgerProofs`.**  `Ledger` implements `LedgerSpec`.  The invariant is `TypeOK` and
`LockDiscipline`: neither is inductive without the other.  What makes it necessary is that
`void_transaction` reads the row first and builds the reversal and the audit row's
`before_value` from that reading: the refinement holds because a session that got through
the conditional UPDATE holds the row's lock, so the row is still the one it read.  Each
COMMIT is then one `Post` or one `Void`; every other step leaves the two tables alone.
Through the refinement the invariants of `LedgerSpec` are theorems of `Ledger`.  What the
abstract ledger does not see has an induction of its own on top of that invariant:

- `AnswersHold`: with `LockDiscipline` it is inductive;
- `PostedCanBeVoided` speaks of voids in flight only; `JournalTaken` adds that the columns
  and the trigger took every row of the journal, and a mirror is taken if its original was;
- `UsdAtRateOfCurrency` needs the rate a request has resolved and not yet used, and the rows
  waiting for their COMMIT, to be right already (`JournalAtRate`), and that a published rate
  stays.  Publishing goes on while a request works, so "the latest" is the latest there was when
  it began, or a later one: the history variable `ratesThen` keeps those, a request that has
  yet to look finds them still among the candidates, and one that has looked has a rate no
  older than any.  It is proved for requests that name the currency of their entries (`CodesSaid`, a
  hypothesis of the theorem; `ledger_default_code` shows it cannot be dropped);
- `TrialBalance` is `BalancesCancel` on a journal that is finite and checked
  (`JournalChecked`); `UsdSidesWithinRounding` adds up the half units of `ConversionBound`;
- `VoidNetsToZero`: chains of voids end (`ChainsEnd`, by an explicit depth, as nothing else
  makes the recursive function `Depth` well defined), and a transaction that is out of
  effect is paired with its reversal or its original, so `PairsCancel` applies.

**`IdempotencyProofs`.**  If nothing fails between a COMMIT and the end of `cache()` and Redis
keeps its keys (`NothingAfterCommit`, the named assumption of these theorems), one
transaction per key within 24 hours, whatever else fails and wherever requests are cut.
`PostedOnce` says nothing about requests in flight; the invariant adds where each request is
(`PhaseSound`), that a free key and a key before its COMMIT have nothing committed that counts
(`WindowSound`), and that one request at a time is past the gate (`KeyAdmitsOne`).
`AnswersTrue` needs no such assumption: under every fault what is stored under a key, and every
2xx, names a committed transaction of that key and body; its invariant follows the response
from the journal through the key to the context of a replay (`AnswersInv`).  Neither does
`PendingIsGuarded`, which speaks of the time before the first fault and is inductive with it.

**`BalanceCacheProofs`.**  `CachedWasTrue` holds under every fault: balances grow by appended
transactions only, so what was the sum of a prefix of the ledger stays one
(`BalancePrefix`).  `RightEntriesAreDeleted` is inductive with it: what an entry lacks is newer
than the entry, so its writer has not yet scanned past it, and a reader that was overtaken
sets an entry that was never right.  `CacheNeverWrongWithoutFaults` draws the consequence: what the
run `balance_cache_outage` refutes is true as long as nothing fails.

**`ReferenceDataProofs`.**  The heart is `HeldApart`: the index entries a session holds
uncommitted are nobody else's and not committed.  That makes a COMMIT unable to bring in a
second row for a key, whatever the look-ups before it saw (`OneRowPerKey`, `ConflictIsTrue`).
`WroteRefers` and `RowsRefer` carry the foreign keys, `SessionOK` where in its plan each
session is, the script included (`SeedIsWhole`, `CreatedIsStored`); `AuditMatchesRows` counts the
rows of clients up to each row.

**`PaymentApiProofs`.**  The composed endpoints implement both of their components.  Each step of
`PaymentApi` is a step of `Idempotency` or leaves the gate alone (`ApiImplementsIdempotency`), and a
step of `Ledger` or leaves the ledger alone (`ApiImplementsLedger`), so the theorems about either
hold of the whole: effectively once (`ApiPostedOnce`) and all of `LedgerProofs`.  What neither
component can say alone:

- `AnsweredIsInJournal`: the invariant `Linked` ties the two, a session that is at its COMMIT has
  written the one transaction its gate will store, with the lines of the body the key came
  with, and the journals agree; that a transaction keeps its lines is the ledger's immutability;
- `CachedIsExact`: a COMMIT moves the accounts of its rows only, and of those every watched key
  is then in what its handler has still to delete: in an account to come, in the rest of the
  SCAN, or found (`WillDelete`; `SweepSound` ties it to where the request is).  It leaves there only when
  the SCAN came to it and found nothing cached, or by the DELETE; whatever is SET after that
  is the balance of its moment or `doubt` is "late".  A reader that SETs what it computed before a COMMIT, and
  Redis lost in the invalidation, do leave wrong balances: `doubt`, a history field of the cached string,
  sets those apart, and the runs `balance_cache_race` and `balance_cache_outage` show them;
- `ToldIsVisible` is not inductive: a client may be told by a *replay*, while the request that
  committed is still invalidating or was cut.  `Visible` says more: what a cached balance leaves
  out has not been told to anybody (`Unheard`) and the key is still to be deleted by a
  request that is at work, or its request was cut (`Awaited`).  It needs to know what the gate has on record
  (`OnRecord`): what a request can be told is what the gate stored, and it stores after the
  invalidation.  A cut is not set apart here: who was cut told nobody.  Late SETs and outages are.

All cuts are in, and Redis failing in an invalidation, a reader's GET or its SET; Redis failing in
the gate is not (it is in `IdempotencyProofs`).

**`ReadingProofs`.**  A privilege taken away is gone after the lifetime of a token and the time of a
log-in, for any number of users and clients, and no page is shown outside that window
(`RevocationWindow`, `PagesForEntitled`).  The window is not inductive; `AuthSound` is: a log-in holds a
row of a moment on record and has lasted no longer than `LoginTime`, and a token dates back to such a
moment.  What pages show follows from `WalkSound`: a row that was there at the start and has not
been shown is tied with another, or its rank, the number of rows before it, is at least the offset
reached.  A write can only raise a rank (`WriteKeeps`); a page that leaves such a row out was full,
and the rank is beyond the next offset too (`PageMoves`).  So a short page ends the reading with
nothing missed but ties, of which the first two lists have none, and neither has the history of
one entity, as who voids began after the original's COMMIT (`CommitsSound`, `HistoryHasNoTies`).

The assumptions are the named `ASSUME`s of the modules, which TLC evaluates in the runs: types of
the constants, finitely many active accounts and entries of a transaction, and initial rows of
`ReferenceData` that satisfy the tables' own constraints.

Only model-checked: the liveness properties `PendingEnds`, `StaleEnds`, `EveryRequestEnds` and
`EveryCreationEnds`, whose fairness needs ENABLED; and the five runs that refute a document, which
are counterexamples.

## 6. Where the code and its documents disagree

1. The rate of a transaction is that of the payload's `currency_code`, USD by
   default, and nothing compares it with the currency of the entries
   (`transaction_service.py:162`).  EUR entries of a payload that leaves it out get
   their EUR amounts as USD amounts (`ledger_default_code`).
2. An exception after the COMMIT, such as a Redis timeout in `cache()`, deletes the key of a
   committed transaction; its retry posts again.  ADR-001 names a crash as the only
   window, and says the key stays pending (`idempotency_after_commit`).
3. A reader that computed before a COMMIT and sets after the invalidation leaves
   a stale balance for a minute, or a day for a past date; ARCHITECTURE.md 8.4 says there
   is no race window (`balance_cache_race`).
4. Redis lost during an invalidation and back afterwards serves the old balance;
   ARCHITECTURE.md says "slower, but never wrong" (`balance_cache_outage`).  `PaymentApi` has both 3 and
   4 too: its `CachedIsExact` and `ToldIsVisible` leave the balances they spoil out by name (`doubt`).
5. A duplicate currency is an unhandled `IntegrityError`, a 500; ADR-002 says it is caught
   (`reference_data_duplicates`).

Nuances of documents the runs do not contradict but make precise:

- The docstring of `_resolve_usd_conversion_rate` (`transaction_service.py:41-43`) says the rate is
  looked up with `date=transaction_date`, and the test `test_exchange_rate_wrong_date_returns_422`
  (`tests/test_currency_conversion.py:352-390`) says a rate of another date is a 422.  Neither is what the code
  does: `find_exchange_rate` (`currency_repository.py:104-119`) takes the most recent rate on or before the
  date, as tech-debt.md TD-039 and the error message say; the test has a rate of an earlier day, which would be
  taken, and its 422 comes from the JPY entries of accounts that are in USD.  `UsdAtRateOfCurrency` states what the code does.
- ADR-006 gives the lifetime of an access token as the window of a deactivation; the row is
  read before the password is checked, so the window is that plus the time of the log-in
  (`RevocationWindow`).
- tech-debt.md TD-025 says the lists were given a deterministic ordering.  Transactions and the
  ledger have one; the audit log's is by `created_at` alone, and the two rows of every void
  share it (`AuditMissesOnlyTies`).
- A 409 for an exchange rate is an `IntegrityError` of any kind, also one of a currency that is
  missing or not yet committed; `ConflictIsTrue` leaves that case out by name.
- The loser of two voids is told 409 as soon as the winner has COMMITTED, before the winner has
  invalidated the cache: it may still read the old balance, and `ToldIsVisible` leaves the
  loser out.

## 7. What is not modelled

- Passwords, hashing and JWT signatures: library code; a token of `Auth` is one that was
  issued.  Refresh and revocation lists: the code has none.
- The lists of accounts, currencies and rates: reads of tables that only grow, ordered
  by unique columns or with the id last, the shape of `Listing`'s first two.
- Migrations other than the balance trigger: they create the tables the models
  describe, off line.
- Settings, wiring, logging, telemetry, metrics, the load test: no state of the ledger
  depends on them.
- The bodies of responses, and wording; an answer is its code and the transaction it
  names.
- A stored idempotency value that is no JSON: nothing in the code writes one.
- `PENDING` transactions: nothing in the code creates one (TD-053).

## 8. Plan

Done: every module of section 2, with its runs; a theorem for every safety property of the
passing runs.  Left:

1. Redis failing in the gate of `PaymentApi` as in `Idempotency`, whose `AnswersTrue` would then be a
   fact about the journal of the ledger.
2. Lemmas for a later extension: `Pages` of a total order are disjoint and cover the list when
   nothing is written meanwhile.
3. A look-up-only variant of the list modules, if the lists of accounts, currencies and rates
   ever become lists of rows that change.
