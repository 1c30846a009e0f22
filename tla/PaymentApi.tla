----------------------------- MODULE PaymentApi -----------------------------
(***************************************************************************)
(* The two write endpoints as a client meets them: the gate of the         *)
(* Idempotency-Key (Idempotency.tla) around the sessions of the ledger     *)
(* (Ledger.tla), the invalidation of the balance cache after the COMMIT,   *)
(* and readers of balances in between.                                     *)
(*                                                                         *)
(* A step of a request is a step of the component it is in; where the      *)
(* handler hands over from one to the other, it is a step of both.  The    *)
(* cache is as in BalanceCache.tla, with the balances of the real journal: *)
(* a reader computes and some time later SETs, an invalidation scans and   *)
(* deletes account by account, and it may lose Redis on the way.  That the *)
(* gate loses Redis is left to Idempotency.tla.                            *)
(*                                                                         *)
(* Bound: a client makes one request, and a retry is another client's with *)
(* the same key and body.  No rate is published: whatever needs one is     *)
(* refused, and the currencies are Ledger.tla's own runs'.                 *)
(***************************************************************************)
EXTENDS Ledger

CONSTANTS
  Poster,       \* the clients that may post
  Voider,       \* the clients that may void
  Reader,       \* requests GET /accounts/{id}/balance in flight
  Key, NoKey,   \* Idempotency-Key values, and the header left out
  Asks,         \* bound: which of the clients may post what, under which key
  Watched       \* the balances clients ask for: pairs of an account and a day

ASSUME PaymentApiAssumption ==
  /\ IsFiniteSet(Session) /\ Poster \subseteq Session /\ Voider \subseteq Session
  /\ Payloads # {} /\ NoKey \notin Key
  /\ Asks \subseteq Poster \X (Key \cup {NoKey}) \X Payloads
  /\ Watched \subseteq Account \X Date

VARIABLES
  store, journal, expired,    \* Idempotency: the keys in Redis, the origin of each transaction
  gate, ask, ctx, reply,      \* Idempotency: where each post is, its key and body, its context, its answer
  cuts,                       \* Idempotency: how many posts were cut
  cache,                      \* Redis: the balances cached
  reading,                    \* readers: the balance computed and still to be SET
  sweep,                      \* after a COMMIT: what is still to be invalidated
  gone                        \* the clients whose request was cut

Idem == INSTANCE Idempotency WITH
  Request <- Poster, Body <- Payloads, Faults <- {"crash"}, MaxFaults <- Cardinality(Session),
  pc <- gate, req <- ask, resp <- reply, faults <- cuts

gateVars == <<store, journal, expired, gate, ask, ctx, reply, cuts>>
cacheVars == <<cache, reading, sweep, gone>>
apiVars == <<vars, gateVars, cacheVars>>

\* A string in Redis.  doubt, for the properties only, says how it came to be wrong:
\* "late", SET after the balance had moved or left behind by an outage; "cut", left
\* behind by a request that was cut; or "none".
Cached(balance, doubt) == [balance |-> balance, doubt |-> doubt]

NotReading == [key |-> <<>>, balance |-> 0]

\* An invalidation: the accounts it has not come to and, of the one it is at, the
\* keys its SCAN has still to come to and those it has found.
NoSweep == [todo |-> {}, left |-> {}, found |-> {}]

ApiInit ==
  /\ Init /\ Idem!Init
  /\ cache = [k \in {} |-> 0]
  /\ reading = [r \in Reader |-> NotReading]
  /\ sweep = [s \in Session |-> NoSweep]
  /\ gone = {}

Gated(s) == s \in Poster /\ gate[s] # "idle"

Busy(s) == pc[s] # "idle" \/ Gated(s) \/ sweep[s] # NoSweep

\* The client of s has made no request yet.
New(s) ==
  /\ ~ Busy(s) /\ s \notin gone /\ resp[s] = NoAnswer
  /\ s \in Poster => reply[s] = NoAnswer

-----------------------------------------------------------------------------
(* POST /transactions *)

PostArrives(s, k, p) ==
  /\ s \in Poster /\ New(s) /\ <<s, k, p>> \in Asks
  /\ Idem!Arrive(s, k, p)
  /\ UNCHANGED <<vars, cacheVars>>

\* check_idempotency, the refusals of require_admin and of the payload's schema, the
\* replay: the handler has not begun.
PassGate(s) ==
  /\ pc[s] = "idle"
  /\ Idem!Claim(s) \/ Idem!Look(s) \/ Idem!Refused(s) \/ Idem!Replay(s) \/ Idem!DeleteKey(s)
  /\ UNCHANGED <<vars, cacheVars>>

\* Bound: MaxTx; a request it leaves no room for is replayed, refused or cut.
Serve(s) ==
  /\ gate[s] = "admit" /\ ctx[s].kind # "replay"
  /\ PostBegin(s, ask[s].body)
  /\ UNCHANGED <<gateVars, cacheVars>>

\* create_transaction refuses the payload.
PayloadRejected(s) ==
  /\ gate[s] = "admit" /\ pc[s] = "idle"
  /\ PostRejected(s, ask[s].body) /\ Idem!Fails(s)
  /\ UNCHANGED cacheVars

Resolve(s) == ResolveRate(s) /\ UNCHANGED <<gateVars, cacheVars>>

Insert(s) ==
  /\ InsertPosted(s) /\ Idem!Create(s)
  /\ ctx'[s].tx \in DOMAIN ws'[s].rows
  /\ UNCHANGED cacheVars

\* Mutant: an exception that is logged and swallowed before it reaches the gate.
PostFailsQuietly(s) ==
  /\ pc[s] \in {"rate", "insert", "commitPost"}
  /\ Cut(s) /\ Idem!Finish(s, Idem!Answer(500, NoTx))
  /\ UNCHANGED <<store, journal, expired, ask, cuts, cacheVars>>

\* Any exception up to the COMMIT, and of a COMMIT that does not take effect.
PostFails(s) ==
  /\ pc[s] \in {"rate", "insert", "commitPost"}
  /\ Cut(s) /\ Idem!Fails(s)
  /\ UNCHANGED cacheVars

AccountsOf(entries) == {entries[i].account : i \in DOMAIN entries}

Asked(entries) == {a \in AccountsOf(entries) : \E k \in Watched : k[1] = a}

\* The COMMIT of s took effect; the accounts of these entries are to be invalidated (of
\* an account no client asks for nothing is cached, and its SCAN would find nothing).
Committed(s, entries) ==
  /\ resp'[s].code \in {200, 201}
  /\ sweep' = [sweep EXCEPT ![s] = [NoSweep EXCEPT !.todo = Asked(entries)]]
  /\ UNCHANGED <<cache, reading, gone>>

PostCommits(s) ==
  /\ CommitPost(s) /\ Idem!Commit(s)
  /\ Committed(s, ask[s].body.entries)

\* Mutant: idempotency.cache() before the invalidation.
RespondAtOnce(s) == Idem!Cache(s) /\ UNCHANGED <<vars, cacheVars>>

\* idempotency.cache() and the 201, when the invalidation is through.
Respond(s) == sweep[s] = NoSweep /\ Idem!Cache(s) /\ UNCHANGED <<vars, cacheVars>>

-----------------------------------------------------------------------------
(* POST /transactions/{id}/void *)

VoidArrives(s, t) ==
  /\ s \in Voider /\ New(s)
  /\ VoidBegin(s, t) \/ VoidNotFound(s, t)
  /\ UNCHANGED <<gateVars, cacheVars>>

VoidWorks(s) ==
  /\ MarkVoided(s) \/ AlreadyVoided(s) \/ InsertReversal(s)
  /\ UNCHANGED <<gateVars, cacheVars>>

\* Mutant: the accounts debited only.
VoidCommitsDebits(s) ==
  /\ CommitVoid(s)
  /\ Committed(s, SelectSeq(orig[s].entries, LAMBDA e : e.direction = "debit"))
  /\ UNCHANGED gateVars

VoidCommits(s) ==
  /\ CommitVoid(s)
  /\ Committed(s, orig[s].entries)
  /\ UNCHANGED gateVars

-----------------------------------------------------------------------------
(* The balance cache *)

Goes(s, left) == sweep' = [sweep EXCEPT ![s] = left]

\* _invalidate_balance_cache: the next account.
SweepAccount(s) ==
  /\ sweep[s].left = {} /\ sweep[s].found = {}
  /\ \E a \in sweep[s].todo :
       Goes(s, [todo |-> sweep[s].todo \ {a},
                left |-> {k \in Watched : k[1] = a}, found |-> {}])
  /\ UNCHANGED <<vars, gateVars, cache, reading, gone>>

\* scan_iter takes several round trips; it comes to each key at some moment.
Scan(s) ==
  /\ \E k \in sweep[s].left :
       Goes(s, [todo |-> sweep[s].todo, left |-> sweep[s].left \ {k},
                found |-> sweep[s].found \cup ({k} \cap DOMAIN cache)])
  /\ UNCHANGED <<vars, gateVars, cache, reading, gone>>

Remove(keys) == cache' = [k \in DOMAIN cache \ keys |-> cache[k]]

\* DELETE of all keys found.
DeleteFound(s) ==
  /\ sweep[s].left = {} /\ sweep[s].found # {}
  /\ Remove(sweep[s].found)
  /\ Goes(s, [sweep[s] EXCEPT !.found = {}])
  /\ UNCHANGED <<vars, gateVars, reading, gone>>

\* s has yet to delete what is cached under k.
WillDelete(s, k) == k[1] \in sweep[s].todo \/ k \in sweep[s].left \cup sweep[s].found

Right(k) == cache[k].balance = CalculateBalance(txns, k[1], k[2])

\* s ends its invalidation here, the DELETE of these keys apart.
Abandon(s, deleted, doubt) ==
  /\ cache' = [k \in DOMAIN cache \ deleted |->
                 IF WillDelete(s, k) /\ ~ Right(k) /\ cache[k].doubt # "late"
                 THEN Cached(cache[k].balance, doubt) ELSE cache[k]]
  /\ Goes(s, NoSweep)

\* Redis is lost in a SCAN or in the DELETE, which may have taken effect: the rest is
\* not invalidated, and the request goes on.
SweepFails(s) ==
  /\ sweep[s] # NoSweep
  /\ \E deleted \in {{}, IF sweep[s].left = {} THEN sweep[s].found ELSE {}} :
       Abandon(s, deleted, "late")
  /\ UNCHANGED <<vars, gateVars, reading, gone>>

Invalidate(s) == SweepAccount(s) \/ Scan(s) \/ DeleteFound(s) \/ SweepFails(s)

\* get_account_balance, when its GET found nothing, some time ago, or failed: the
\* query.  (A GET that finds the balance changes nothing.)
ComputeBalance(r, k) ==
  /\ reading[r] = NotReading
  /\ reading' = [reading EXCEPT ![r] =
                   [key |-> k, balance |-> CalculateBalance(txns, k[1], k[2])]]
  /\ UNCHANGED <<vars, gateVars, cache, sweep, gone>>

Set(k, balance) ==
  cache' = [l \in DOMAIN cache \cup {k} |->
              IF l # k THEN cache[l]
              ELSE Cached(balance, IF balance = CalculateBalance(txns, k[1], k[2])
                                   THEN "none" ELSE "late")]

\* SET, whatever was committed or deleted since the query; or it fails, or the reader
\* is cut before it.
EndReading(r) ==
  /\ reading[r] # NotReading
  /\ Set(reading[r].key, reading[r].balance) \/ UNCHANGED cache
  /\ reading' = [reading EXCEPT ![r] = NotReading]
  /\ UNCHANGED <<vars, gateVars, sweep, gone>>

ExpireBalance(k) ==
  /\ k \in DOMAIN cache /\ Remove({k})
  /\ UNCHANGED <<vars, gateVars, reading, sweep, gone>>

-----------------------------------------------------------------------------
\* The client goes away, the process dies or the connection of a void breaks, anywhere
\* in the handler.
ApiCut(s) ==
  /\ Busy(s)
  /\ IF pc[s] = "idle" THEN UNCHANGED vars ELSE Cut(s)
  /\ IF Gated(s) THEN Idem!Crash(s) ELSE UNCHANGED gateVars
  /\ gone' = gone \cup {s}
  /\ Abandon(s, {}, "cut")
  /\ UNCHANGED reading

ApiStep(s) ==
  \/ /\ s \in Poster
     /\ \/ PassGate(s) \/ Serve(s) \/ PayloadRejected(s) \/ Resolve(s) \/ Insert(s) \/ PostFails(s)
        \/ PostCommits(s) \/ Respond(s)
  \/ VoidWorks(s) \/ VoidCommits(s) \/ Invalidate(s)

ApiNext ==
  \/ \E s \in Session :
       \/ \E k \in Key \cup {NoKey}, p \in Payloads : PostArrives(s, k, p)
       \/ \E t \in TxId : VoidArrives(s, t)
       \/ ApiStep(s)
       \/ ApiCut(s)
  \/ \E r \in Reader : EndReading(r) \/ \E k \in Watched : ComputeBalance(r, k)
  \/ \E k \in Watched : ExpireBalance(k)
  \/ \E k \in Key : Idem!Expire(k) /\ UNCHANGED <<vars, cacheVars>>

ApiSpec == ApiInit /\ [][ApiNext]_apiVars

(* The event loop, PostgreSQL and Redis run every request that can move    *)
(* (WF); the waiters for a row lock are queued, so one that finds it free  *)
(* again and again gets it (SF).  Nothing obliges a client to ask, a       *)
(* request to be cut or a key to expire.                                   *)
ApiFairness ==
  \A s \in Session : WF_apiVars(ApiStep(s)) /\ SF_apiVars(VoidWorks(s))

ApiFairSpec == ApiSpec /\ ApiFairness

-----------------------------------------------------------------------------
(* What a client experiences of its key is what Idempotency promises,      *)
(* whatever the ledger does to the request in between: the handler commits,*)
(* fails, is cut and answers in the order the gate relies on.              *)
ImplementsIdempotency == Idem!Spec

(* The journal holds what the answers say: a 201, and the 200 of a replay  *)
(* however late, name a transaction of the journal that has the lines this *)
(* client asked for, also when it has been voided since.                   *)
LinesOf(entries) ==
  [i \in DOMAIN entries |-> <<entries[i].account, entries[i].direction, entries[i].amount>>]

AnsweredIsInJournal ==
  \A s \in Poster : reply[s].code \in {200, 201} =>
    /\ reply[s].tx \in DOMAIN txns
    /\ txns[reply[s].tx].reversalOf = NoTx
    /\ LinesOf(txns[reply[s].tx].entries) = LinesOf(ask[s].body.entries)

(* An invalidation comes to all its COMMIT moved, account by account and   *)
(* key by key, whatever readers and other requests do meanwhile: a cached  *)
(* balance that was right when it was SET is the balance of the journal,   *)
(* what is voided included, or a request has it still to delete, lost Redis*)
(* or was cut before it did.  (A reader that SETs after a COMMIT what it   *)
(* computed before, and an outage, do leave wrong balances: see            *)
(* BalanceCache's HitsSeeFinishedWrites and OutageNeverWrong.)             *)
CachedIsExact ==
  \A k \in DOMAIN cache : cache[k].doubt = "none" =>
    Right(k) \/ \E s \in Session : WillDelete(s, k)

\* What a client was told is in the journal: by the answer to a post, first or
\* replayed, and by the 200 of a void.
Told ==
  {reply[s].tx : s \in {q \in Poster : reply[q].code \in {200, 201}}}
    \cup {t \in DOMAIN txns : \E s \in Session :
             s \notin gone /\ ~ Busy(s) /\ resp[s] = Answer(200, txns[t].reversalOf)}

(* Who has an answer finds it in the balances, unless a reader raced the   *)
(* COMMIT or Redis was lost: a cached balance that was right when it was   *)
(* SET, and that no outage left behind, is the one of a part of the journal*)
(* that leaves out no transaction or reversal a client has been told of, by*)
(* a replay or after another request was cut.                              *)
ToldIsVisible ==
  \A k \in DOMAIN cache : cache[k].doubt # "late" =>
    \E seen \in SUBSET DOMAIN txns :
      /\ Told \subseteq seen
      /\ cache[k].balance = CalculateBalance([t \in seen |-> txns[t]], k[1], k[2])

(* Every request ends, through the gate, a row lock it waits for and the   *)
(* invalidation: no two wait for each other.                               *)
EveryRequestEnds == \A s \in Session : Busy(s) ~> ~ Busy(s)
=============================================================================
