---------------------------- MODULE BalanceCache ----------------------------
(***************************************************************************)
(* The cache of account balances: get_account_balance fills a Redis string *)
(* per account and day, the two write endpoints delete the strings of every*)
(* account they touched, after their COMMIT and with nothing that orders   *)
(* the two against a reader.                                               *)
(*                                                                         *)
(* The balance of an account at a day is abstracted to the set of the      *)
(* transactions it is summed over (a void adds its reversal, so a balance  *)
(* only ever changes by a transaction that is added); two balances differ  *)
(* when these sets do.                                                     *)
(***************************************************************************)
EXTENDS Naturals, Sequences, FiniteSets

CONSTANTS
  Reader,       \* requests GET /accounts/{id}/balance in flight
  Writer,       \* requests that post or void, in flight
  Account,      \* the account ids a reader may name
  KnownAccount, \* those in the accounts table
  Day,          \* transaction dates, and days a balance is asked for
  Writes,       \* what a writer may commit: the accounts it touches, and its date
  Faults,       \* the kinds of fault that may happen
  MaxFaults,    \* bound: how many of them
  MaxWrites     \* bound: how many transactions

ASSUME BalanceCacheAssumption ==
  /\ KnownAccount \subseteq Account /\ Day \subseteq Nat
  /\ Writes \subseteq [accounts : (SUBSET KnownAccount) \ {{}}, date : Day]
  /\ Faults \subseteq {"redis", "crash"}
  /\ MaxFaults \in Nat /\ MaxWrites \in Nat

VARIABLES
  ledger,       \* the transactions in the order of their COMMITs
  cache,        \* Redis: what is under balance:{account}:{day}
  ask,          \* reader: where it is, what it was asked and what it computed
  job,          \* writer: where its invalidation is
  faults        \* the faults so far

vars == <<ledger, cache, ask, job, faults>>

CacheKey == Account \X Day

\* The transactions a balance of account a at day d is summed over
\* (calculate_balance).
Balance(a, d) == {i \in DOMAIN ledger : a \in ledger[i].accounts /\ ledger[i].date <= d}

Absent == [present |-> FALSE]

\* A string in Redis; fresh says, for the properties only, whether it was the
\* balance when it was set.
Cached(value, fresh) == [present |-> TRUE, value |-> value, fresh |-> fresh]

Waiting == [at |-> "idle"]

Init ==
  /\ ledger = <<>>
  /\ cache = [k \in CacheKey |-> Absent]
  /\ ask = [r \in Reader |-> Waiting]
  /\ job = [w \in Writer |-> Waiting]
  /\ faults = 0

-----------------------------------------------------------------------------
Fault(kind) == kind \in Faults /\ faults < MaxFaults /\ faults' = faults + 1

\* The transactions whose requests have ended: their clients may count on them.
Finished == {i \in DOMAIN ledger : \A w \in Writer : job[w].at = "idle" \/ job[w].tx # i}

-----------------------------------------------------------------------------
(* get_account_balance *)

\* GET finds the balance and it is the answer: nothing changes.
Hit(r, k) ==
  /\ ask[r].at = "idle" /\ cache[k].present
  /\ UNCHANGED vars

StartCompute(r, k) ==
  /\ ask' = [ask EXCEPT ![r] = [at |-> "compute", key |-> k]]
  /\ UNCHANGED <<ledger, cache, job>>

Miss(r, k) ==
  /\ ask[r].at = "idle" /\ ~ cache[k].present
  /\ StartCompute(r, k) /\ UNCHANGED faults

\* Redis is lost in the GET: as if nothing were cached.
GetFails(r, k) ==
  /\ ask[r].at = "idle" /\ Fault("redis")
  /\ StartCompute(r, k)

NotFound(r) ==
  /\ ask[r].at = "compute" /\ ask[r].key[1] \notin KnownAccount
  /\ ask' = [ask EXCEPT ![r] = Waiting]
  /\ UNCHANGED <<ledger, cache, job, faults>>

\* Mutant: the transactions of the day instead of those up to it.
ComputeDay(r) ==
  /\ ask[r].at = "compute" /\ ask[r].key[1] \in KnownAccount
  /\ ask' = [ask EXCEPT ![r] =
               [at |-> "set", key |-> ask[r].key,
                value |-> {i \in Balance(ask[r].key[1], ask[r].key[2]) :
                             ledger[i].date = ask[r].key[2]}]]
  /\ UNCHANGED <<ledger, cache, job, faults>>

Compute(r) ==
  /\ ask[r].at = "compute" /\ ask[r].key[1] \in KnownAccount
  /\ ask' = [ask EXCEPT ![r] =
               [at |-> "set", key |-> ask[r].key,
                value |-> Balance(ask[r].key[1], ask[r].key[2])]]
  /\ UNCHANGED <<ledger, cache, job, faults>>

Fill(k, value) ==
  cache' = [cache EXCEPT ![k] = Cached(value, value = Balance(k[1], k[2]))]

\* SET EX, whatever happened since the balance was computed, and the answer.
SetCache(r) ==
  /\ ask[r].at = "set"
  /\ Fill(ask[r].key, ask[r].value)
  /\ ask' = [ask EXCEPT ![r] = Waiting]
  /\ UNCHANGED <<ledger, job, faults>>

\* Redis is lost in the SET, whether it took effect or not; the answer is given.
SetFails(r) ==
  /\ ask[r].at = "set" /\ Fault("redis")
  /\ \/ UNCHANGED cache
     \/ Fill(ask[r].key, ask[r].value)
  /\ ask' = [ask EXCEPT ![r] = Waiting]
  /\ UNCHANGED <<ledger, job>>

-----------------------------------------------------------------------------
(* post_transaction and void_transaction_endpoint, from their COMMIT on *)

CommitWrite(w, t) ==
  /\ job[w].at = "idle" /\ Len(ledger) < MaxWrites
  /\ ledger' = Append(ledger, t)
  /\ job' = [job EXCEPT ![w] = [at |-> "next", tx |-> Len(ledger) + 1, todo |-> t.accounts]]
  /\ UNCHANGED <<cache, ask, faults>>

\* Mutant: only the key of the transaction's own date.
NextAccountOnDate(w, a) ==
  /\ job[w].at = "next" /\ a \in job[w].todo
  /\ job' = [job EXCEPT ![w] =
               [at |-> "scan", tx |-> job[w].tx, todo |-> job[w].todo \ {a}, account |-> a,
                left |-> {ledger[job[w].tx].date}, found |-> {}]]
  /\ UNCHANGED <<ledger, cache, ask, faults>>

\* _invalidate_balance_cache: the accounts in any order, it is a set.
NextAccount(w, a) ==
  /\ job[w].at = "next" /\ a \in job[w].todo
  /\ job' = [job EXCEPT ![w] =
               [at |-> "scan", tx |-> job[w].tx, todo |-> job[w].todo \ {a}, account |-> a,
                left |-> Day, found |-> {}]]
  /\ UNCHANGED <<ledger, cache, ask, faults>>

\* scan_iter takes several round trips; it comes to each key at some moment.
Scan(w, d) ==
  /\ job[w].at = "scan" /\ d \in job[w].left
  /\ job' = [job EXCEPT
               ![w].left = @ \ {d},
               ![w].found = @ \cup (IF cache[<<job[w].account, d>>].present THEN {d} ELSE {})]
  /\ UNCHANGED <<ledger, cache, ask, faults>>

\* DELETE of all keys found, if any.
DeleteFound(w) ==
  cache' = [k \in CacheKey |->
              IF k[1] = job[w].account /\ k[2] \in job[w].found THEN Absent ELSE cache[k]]

\* The account is done; after the last one the request ends.
EndJob(w) == job' = [job EXCEPT ![w] = Waiting]

DeleteKeys(w) ==
  /\ job[w].at = "scan" /\ job[w].left = {}
  /\ DeleteFound(w)
  /\ IF job[w].todo = {} THEN EndJob(w)
     ELSE job' = [job EXCEPT ![w] = [at |-> "next", tx |-> job[w].tx, todo |-> job[w].todo]]
  /\ UNCHANGED <<ledger, ask, faults>>

\* Redis is lost in a SCAN or in the DELETE, which may have taken effect: the
\* accounts that are left are not invalidated, and the request succeeds.
InvalidationFails(w) ==
  /\ job[w].at \in {"next", "scan"} /\ Fault("redis")
  /\ \/ UNCHANGED cache
     \/ job[w].at = "scan" /\ job[w].left = {} /\ DeleteFound(w)
  /\ EndJob(w)
  /\ UNCHANGED <<ledger, ask>>

-----------------------------------------------------------------------------
\* A request is cancelled or its process dies.
CrashReader(r) ==
  /\ ask[r].at # "idle" /\ Fault("crash")
  /\ ask' = [ask EXCEPT ![r] = Waiting]
  /\ UNCHANGED <<ledger, cache, job>>

CrashWriter(w) ==
  /\ job[w].at # "idle" /\ Fault("crash")
  /\ EndJob(w)
  /\ UNCHANGED <<ledger, cache, ask>>

\* Mutant: the balances of closed days are kept for ever.
ExpireCurrent(k) ==
  /\ cache[k].present /\ \A d \in Day : d <= k[2]
  /\ cache' = [cache EXCEPT ![k] = Absent]
  /\ UNCHANGED <<ledger, ask, job, faults>>

\* The time to live of a key, a minute or a day, is over.
Expire(k) ==
  /\ cache[k].present
  /\ cache' = [cache EXCEPT ![k] = Absent]
  /\ UNCHANGED <<ledger, ask, job, faults>>

ReaderStep(r) == NotFound(r) \/ Compute(r) \/ SetCache(r) \/ SetFails(r)

WriterStep(w) ==
  \/ \E a \in KnownAccount : NextAccount(w, a)
  \/ \E d \in Day : Scan(w, d)
  \/ DeleteKeys(w) \/ InvalidationFails(w)

Next ==
  \/ \E r \in Reader :
       \/ \E k \in CacheKey : Hit(r, k) \/ Miss(r, k) \/ GetFails(r, k)
       \/ ReaderStep(r) \/ CrashReader(r)
  \/ \E w \in Writer :
       \/ \E t \in Writes : CommitWrite(w, t)
       \/ WriterStep(w) \/ CrashWriter(w)
  \/ \E k \in CacheKey : Expire(k)

Spec == Init /\ [][Next]_vars

(* The event loop runs every request to its end; Redis expires every key.  *)
(* Nothing obliges a client to ask.                                        *)
Fairness ==
  /\ \A r \in Reader : WF_vars(ReaderStep(r))
  /\ \A w \in Writer : WF_vars(WriterStep(w))
  /\ \A k \in CacheKey : WF_vars(Expire(k))

FairSpec == Spec /\ Fairness

-----------------------------------------------------------------------------
Stale(k) == cache[k].present /\ cache[k].value # Balance(k[1], k[2])

\* Writer w has yet to delete what is cached under k.
WillDelete(w, k) ==
  /\ job[w].at \in {"next", "scan"}
  /\ \/ k[1] \in job[w].todo
     \/ /\ job[w].at = "scan" /\ job[w].account = k[1]
        /\ k[2] \in job[w].left \cup job[w].found

(* Invalidation misses nothing that was right when it was cached: of every *)
(* transaction such an entry lacks, the writer has yet to delete it.  Scans*)
(* that interleave with readers, with other writers and with expiry, and   *)
(* dates after the transaction's, are all covered; only a fault can leave  *)
(* such an entry behind.                                                   *)
RightEntriesAreDeleted ==
  faults = 0 => \A k \in CacheKey : cache[k].present /\ cache[k].fresh =>
    \A i \in Balance(k[1], k[2]) \ cache[k].value :
      \E w \in Writer : WillDelete(w, k) /\ job[w].tx = i

(* What is cached, or computed to be cached, was the balance once: the     *)
(* balance after some number of COMMITs.  Nothing uncommitted and no mix of*)
(* two moments gets into the cache or an answer.                           *)
OnceTrue(k, value) ==
  \E n \in 0 .. Len(ledger) : value = {i \in Balance(k[1], k[2]) : i <= n}

CachedWasTrue ==
  /\ \A k \in CacheKey : cache[k].present => OnceTrue(k, cache[k].value)
  /\ \A r \in Reader : ask[r].at = "set" => OnceTrue(ask[r].key, ask[r].value)

(* No balance stays stale for ever, whatever failed: "an orphaned key [...]*)
(* cannot live forever" (ARCHITECTURE.md 8.4).                             *)
StaleEnds == \A k \in CacheKey : Stale(k) ~> ~ Stale(k)

(* A hit includes every transaction that was answered before it: "what is *)
(* my balance right now must be exact" (ARCHITECTURE.md 8.4).              *)
HitsSeeFinishedWrites ==
  \A k \in CacheKey : cache[k].present =>
    Balance(k[1], k[2]) \cap Finished \subseteq cache[k].value

(* The same of an entry that was right when it was cached, so that no      *)
(* reader raced a COMMIT: "If Redis is down [...] slower, but never wrong" *)
(* (ARCHITECTURE.md 8.4).                                                  *)
OutageNeverWrong ==
  \A k \in CacheKey : cache[k].present /\ cache[k].fresh =>
    Balance(k[1], k[2]) \cap Finished \subseteq cache[k].value
=============================================================================
