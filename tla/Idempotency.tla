----------------------------- MODULE Idempotency -----------------------------
(***************************************************************************)
(* POST /transactions behind its Idempotency-Key: check_idempotency, a     *)
(* generator dependency that keeps one Redis string per key, wrapped around*)
(* the handler post_transaction.                                           *)
(*                                                                         *)
(* The dependency runs before the one that authenticates and before the    *)
(* payload is validated, and an exception of either, or of the handler, is *)
(* thrown into the generator, which then deletes the key.  Cancellation and*)
(* the death of the process are no Exception: the key stays.               *)
(*                                                                         *)
(* What create_transaction does is Ledger.tla's; here a payload is a body, *)
(* and the journal records which request each transaction came from.       *)
(***************************************************************************)
EXTENDS Naturals, FiniteSets

CONSTANTS
  Request,      \* slots for requests in flight
  Key,          \* Idempotency-Key values
  NoKey,        \* the header left out
  Body,         \* request bodies; two are equal when their SHA-256 is
  TxId, NoTx,   \* transaction ids (uuid4), and none
  Faults,       \* the kinds of fault that may happen
  MaxFaults     \* bound: how many of them

ASSUME IdempotencyAssumption ==
  /\ NoKey \notin Key /\ NoTx \notin TxId /\ Body # {}
  /\ Faults \subseteq {"redis", "crash", "afterCommit", "keysLost"}
  /\ MaxFaults \in Nat

VARIABLES
  store,        \* Redis: what is under each key
  journal,      \* the committed transactions: the key and the body they came with
  expired,      \* the transactions whose key has outlived its 24 hours
  pc,           \* where each request is
  req,          \* its key and its body
  ctx,          \* its IdempotencyContext: what kind, and what to replay
  resp,         \* the answer to it
  faults        \* the faults so far

vars == <<store, journal, expired, pc, req, ctx, resp, faults>>

Absent == [state |-> "absent"]
Pending(b) == [state |-> "pending", fingerprint |-> b]
Response(b, t) == [state |-> "response", fingerprint |-> b, tx |-> t]

Stored ==
  {Absent} \cup {Pending(b) : b \in Body} \cup {Response(b, t) : b \in Body, t \in TxId}

\* A context guards its key, replays a response, or (no key) does nothing.
Context == [kind : {"none", "guard", "replay"}, tx : TxId \cup {NoTx}]

NoContext == [kind |-> "none", tx |-> NoTx]

Answer(code, t) == [code |-> code, tx |-> t]

NoAnswer == Answer(0, NoTx)

Init ==
  /\ store = [k \in Key |-> Absent]
  /\ journal = [t \in {} |-> NoTx] /\ expired = {}
  /\ pc = [r \in Request |-> "idle"]
  /\ req = [r \in Request |-> [key |-> NoKey, body |-> CHOOSE b \in Body : TRUE]]
  /\ ctx = [r \in Request |-> NoContext]
  /\ resp = [r \in Request |-> NoAnswer]
  /\ faults = 0

-----------------------------------------------------------------------------
KeyOf(r) == req[r].key

\* r has claimed key k and its generator has not been left.
Guards(r, k) == pc[r] # "idle" /\ ctx[r].kind = "guard" /\ KeyOf(r) = k

Goto(r, where) == pc' = [pc EXCEPT ![r] = where]

Finish(r, answer) ==
  /\ Goto(r, "idle")
  /\ ctx' = [ctx EXCEPT ![r] = NoContext]
  /\ resp' = [resp EXCEPT ![r] = answer]

Put(r, value) == store' = [store EXCEPT ![KeyOf(r)] = value]

\* A fault of this kind: a command of the request raises.
Fault(kind) == kind \in Faults /\ faults < MaxFaults /\ faults' = faults + 1

\* uuid4: an id no transaction, committed or still to be, has.
Fresh == {t \in TxId \ DOMAIN journal : \A r \in Request : ctx[r].tx # t}

-----------------------------------------------------------------------------
Arrive(r, k, b) ==
  /\ pc[r] = "idle"
  /\ req' = [req EXCEPT ![r] = [key |-> k, body |-> b]]
  /\ resp' = [resp EXCEPT ![r] = NoAnswer]
  /\ Goto(r, IF k = NoKey THEN "admit" ELSE "claim")
  /\ UNCHANGED <<store, journal, expired, ctx, faults>>

\* Mutant: SET without NX.
ClaimAnyway(r) ==
  /\ pc[r] = "claim"
  /\ Put(r, Pending(req[r].body))
  /\ ctx' = [ctx EXCEPT ![r].kind = "guard"]
  /\ Goto(r, "admit")
  /\ UNCHANGED <<journal, expired, req, resp, faults>>

\* SET NX EX: the first request with the key marks it pending.
Claim(r) ==
  /\ pc[r] = "claim"
  /\ IF store[KeyOf(r)] = Absent
     THEN /\ Put(r, Pending(req[r].body))
          /\ ctx' = [ctx EXCEPT ![r].kind = "guard"]
          /\ Goto(r, "admit")
     ELSE Goto(r, "look") /\ UNCHANGED <<store, ctx>>
  /\ UNCHANGED <<journal, expired, req, resp, faults>>

\* Redis fails in the SET NX, whether it took effect or not.  The generator has
\* not reached its try, so the key is not deleted.
ClaimFails(r) ==
  /\ pc[r] = "claim" /\ Fault("redis")
  /\ \/ UNCHANGED store
     \/ store[KeyOf(r)] = Absent /\ Put(r, Pending(req[r].body))
  /\ Finish(r, Answer(500, NoTx))
  /\ UNCHANGED <<journal, expired, req>>

\* The code a request gets when the key it found taken has nothing to replay: the
\* key is gone again, or holds another body's, or a request that is in flight.
Duplicate(found, b) ==
  IF found # Absent /\ found.fingerprint # b THEN 422 ELSE 409

\* Mutants of Look: no comparison of the fingerprints, and the duplicate's exception
\* raised where the generator deletes the key.
LookUnchecked(r) ==
  LET found == store[KeyOf(r)]
  IN  /\ pc[r] = "look"
      /\ IF found.state = "response"
         THEN /\ ctx' = [ctx EXCEPT ![r] = [kind |-> "replay", tx |-> found.tx]]
              /\ Goto(r, "admit") /\ UNCHANGED resp
         ELSE Finish(r, Answer(409, NoTx))
      /\ UNCHANGED <<store, journal, expired, req, faults>>

LookInsideTry(r) ==
  LET found == store[KeyOf(r)]
      b == req[r].body
  IN  /\ pc[r] = "look"
      /\ IF found.state = "response" /\ found.fingerprint = b
         THEN /\ ctx' = [ctx EXCEPT ![r] = [kind |-> "replay", tx |-> found.tx]]
              /\ Goto(r, "admit") /\ UNCHANGED <<resp, store>>
         ELSE Finish(r, Answer(Duplicate(found, b), NoTx)) /\ Put(r, Absent)
      /\ UNCHANGED <<journal, expired, req, faults>>

\* GET, some time after the SET NX.
Look(r) ==
  LET found == store[KeyOf(r)]
      b == req[r].body
  IN  /\ pc[r] = "look"
      /\ IF found.state = "response" /\ found.fingerprint = b
         THEN /\ ctx' = [ctx EXCEPT ![r] = [kind |-> "replay", tx |-> found.tx]]
              /\ Goto(r, "admit") /\ UNCHANGED resp
         ELSE Finish(r, Answer(Duplicate(found, b), NoTx))
      /\ UNCHANGED <<store, journal, expired, req, faults>>

LookFails(r) ==
  /\ pc[r] = "look" /\ Fault("redis")
  /\ Finish(r, Answer(500, NoTx))
  /\ UNCHANGED <<store, journal, expired, req>>

-----------------------------------------------------------------------------
\* An exception reaches the generator: it deletes the key it guards.
Raise(r) == Goto(r, "delete") /\ UNCHANGED <<store, ctx, resp>>

\* Mutant: only the handler's own exceptions reach the except clause.
RefusedOutsideTry(r) ==
  /\ pc[r] = "admit"
  /\ Finish(r, Answer(401, NoTx))
  /\ UNCHANGED <<store, journal, expired, req, faults>>

\* require_admin answers 401 or 403, or the payload is invalid.
Refused(r) ==
  /\ pc[r] = "admit"
  /\ IF ctx[r].kind = "guard" THEN Raise(r)
     ELSE Finish(r, Answer(401, NoTx)) /\ UNCHANGED store
  /\ UNCHANGED <<journal, expired, req, faults>>

\* Mutant: finally instead of except.
ReplayFinally(r) ==
  /\ pc[r] = "admit" /\ ctx[r].kind = "replay"
  /\ Put(r, Absent) /\ Finish(r, Answer(200, ctx[r].tx))
  /\ UNCHANGED <<journal, expired, req, faults>>

Replay(r) ==
  /\ pc[r] = "admit" /\ ctx[r].kind = "replay"
  /\ Finish(r, Answer(200, ctx[r].tx))
  /\ UNCHANGED <<store, journal, expired, req, faults>>

\* create_transaction
Create(r) ==
  /\ pc[r] = "admit" /\ ctx[r].kind # "replay"
  /\ \E t \in Fresh : ctx' = [ctx EXCEPT ![r].tx = t]
  /\ Goto(r, "commit")
  /\ UNCHANGED <<store, journal, expired, req, resp, faults>>

\* create_transaction rejects the payload, or it or the COMMIT fails.
Fails(r) ==
  /\ \/ pc[r] = "admit" /\ ctx[r].kind # "replay"
     \/ pc[r] = "commit"
  /\ IF ctx[r].kind = "guard" THEN Raise(r)
     ELSE Finish(r, Answer(422, NoTx)) /\ UNCHANGED store
  /\ UNCHANGED <<journal, expired, req, faults>>

Record(r) ==
  journal' = [t \in DOMAIN journal \cup {ctx[r].tx} |->
                IF t = ctx[r].tx THEN req[r] ELSE journal[t]]

\* db.commit(); the invalidation of the balance cache after it swallows the loss
\* of Redis.
Commit(r) ==
  /\ pc[r] = "commit" /\ Record(r)
  /\ Goto(r, "cache")
  /\ UNCHANGED <<store, expired, req, ctx, resp, faults>>

\* The COMMIT took effect, and the exception says it did not.
CommitUnanswered(r) ==
  /\ pc[r] = "commit" /\ Fault("afterCommit") /\ Record(r)
  /\ IF ctx[r].kind = "guard" THEN Raise(r)
     ELSE Finish(r, Answer(500, NoTx)) /\ UNCHANGED store
  /\ UNCHANGED <<expired, req>>

\* Mutant: the response body is dumped before the id is there.
CacheWithoutId(r) ==
  /\ pc[r] = "cache"
  /\ IF ctx[r].kind = "guard" THEN Put(r, Response(req[r].body, NoTx))
     ELSE UNCHANGED store
  /\ Finish(r, Answer(201, ctx[r].tx))
  /\ UNCHANGED <<journal, expired, req, faults>>

\* idempotency.cache(): SET, whatever the key holds.
Cache(r) ==
  /\ pc[r] = "cache"
  /\ IF ctx[r].kind = "guard" THEN Put(r, Response(req[r].body, ctx[r].tx))
     ELSE UNCHANGED store
  /\ Finish(r, Answer(201, ctx[r].tx))
  /\ UNCHANGED <<journal, expired, req, faults>>

\* Redis fails in that SET, whether it took effect or not.
CacheFails(r) ==
  /\ pc[r] = "cache" /\ ctx[r].kind = "guard" /\ Fault("afterCommit")
  /\ \/ UNCHANGED store
     \/ Put(r, Response(req[r].body, ctx[r].tx))
  /\ Goto(r, "delete")
  /\ UNCHANGED <<journal, expired, req, ctx, resp>>

\* except Exception: DELETE, and the exception goes on to the client.
DeleteKey(r) ==
  /\ pc[r] = "delete"
  /\ Put(r, Absent) /\ Finish(r, Answer(422, NoTx))
  /\ UNCHANGED <<journal, expired, req, faults>>

DeleteFails(r) ==
  /\ pc[r] = "delete" /\ Fault("redis")
  /\ \/ UNCHANGED store
     \/ Put(r, Absent)
  /\ Finish(r, Answer(500, NoTx))
  /\ UNCHANGED <<journal, expired, req>>

-----------------------------------------------------------------------------
\* Mutant: except BaseException.
CrashDeletesKey(r) ==
  /\ pc[r] # "idle" /\ Fault("crash")
  /\ IF ctx[r].kind = "guard" THEN Put(r, Absent) ELSE UNCHANGED store
  /\ Finish(r, NoAnswer)
  /\ UNCHANGED <<journal, expired, req>>

\* The request is cancelled or its process dies: no except clause runs.
Crash(r) ==
  /\ pc[r] # "idle" /\ Fault("crash")
  /\ Finish(r, NoAnswer)
  /\ UNCHANGED <<store, journal, expired, req>>

OfKey(k) == {t \in DOMAIN journal : journal[t].key = k}

\* Mutant: a pending mark set without a time to live.
ExpireResponse(k) ==
  /\ store[k].state = "response" /\ \A r \in Request : ~ Guards(r, k)
  /\ store' = [store EXCEPT ![k] = Absent]
  /\ expired' = expired \cup OfKey(k)
  /\ UNCHANGED <<journal, pc, req, ctx, resp, faults>>

\* The 24 hours of the key are over.  A request takes less than that: its own
\* key does not expire under it.
Expire(k) ==
  /\ store[k] # Absent /\ \A r \in Request : ~ Guards(r, k)
  /\ store' = [store EXCEPT ![k] = Absent]
  /\ expired' = expired \cup OfKey(k)
  /\ UNCHANGED <<journal, pc, req, ctx, resp, faults>>

\* Redis restarts with nothing on disk.
LoseKeys ==
  /\ Fault("keysLost")
  /\ store' = [k \in Key |-> Absent]
  /\ UNCHANGED <<journal, expired, pc, req, ctx, resp>>

Step(r) ==
  \/ Claim(r) \/ ClaimFails(r) \/ Look(r) \/ LookFails(r)
  \/ Refused(r) \/ Replay(r) \/ Create(r) \/ Fails(r)
  \/ Commit(r) \/ CommitUnanswered(r) \/ Cache(r) \/ CacheFails(r)
  \/ DeleteKey(r) \/ DeleteFails(r)

Next ==
  \/ \E r \in Request :
       \/ \E k \in Key \cup {NoKey}, b \in Body : Arrive(r, k, b)
       \/ Step(r)
       \/ Crash(r)
  \/ \E k \in Key : Expire(k)
  \/ LoseKeys

Spec == Init /\ [][Next]_vars

(* The event loop, Redis and PostgreSQL run every request to its end, and  *)
(* Redis expires what is past its time.                                    *)
Fairness ==
  /\ \A r \in Request : WF_vars(Step(r))
  /\ \A k \in Key : WF_vars(Expire(k))

FairSpec == Spec /\ Fairness

-----------------------------------------------------------------------------
TypeOK ==
  /\ store \in [Key -> Stored]
  /\ DOMAIN journal \subseteq TxId
  /\ \A t \in DOMAIN journal : journal[t] \in [key : Key \cup {NoKey}, body : Body]
  /\ expired \subseteq DOMAIN journal
  /\ pc \in [Request -> {"idle", "claim", "look", "admit", "commit", "cache", "delete"}]
  /\ req \in [Request -> [key : Key \cup {NoKey}, body : Body]]
  /\ ctx \in [Request -> Context]
  /\ resp \in [Request -> [code : {0, 200, 201, 401, 409, 422, 500}, tx : TxId \cup {NoTx}]]
  /\ faults \in 0 .. MaxFaults

(* The key admits one request at a time (docs/adr/002: "SET NX in Redis    *)
(* provides atomic mutual exclusion"): while a request has passed the gate *)
(* the key is marked pending with its own body, and no second request, with*)
(* that body or another, is past the gate.                                 *)
KeyAdmitsOne ==
  \A r \in Request, k \in Key : Guards(r, k) =>
    /\ store[k] = Pending(req[r].body)
    /\ \A q \in Request : Guards(q, k) => q = r

(* Effectively once: within the 24 hours of its key, a request leaves one  *)
(* transaction, however often it is retried and wherever it was cut.       *)
PostedOnce ==
  \A t, u \in DOMAIN journal \ expired :
    journal[t].key = journal[u].key /\ journal[t].key # NoKey => t = u

(* The key of a committed transaction is never free within its 24 hours:   *)
(* it is pending (also when the request died after its COMMIT) or holds the*)
(* response, so that a retry is turned away or replayed.                   *)
CommittedHoldsKey ==
  \A t \in DOMAIN journal \ expired : journal[t].key # NoKey =>
    store[journal[t].key] \in {Pending(journal[t].body), Response(journal[t].body, t)}

\* What a request's context says at each point of its way.
PhaseSound(r) ==
  /\ pc[r] \in {"idle", "claim", "look"} => ctx[r] = NoContext
  /\ pc[r] \in {"claim", "look"} => KeyOf(r) \in Key
  /\ pc[r] \in {"admit", "commit", "cache", "delete"} =>
       (ctx[r].kind = "none" <=> KeyOf(r) = NoKey)
  /\ pc[r] \in {"commit", "cache"} => ctx[r].kind # "replay"
  /\ pc[r] = "delete" => ctx[r].kind = "guard"
  /\ pc[r] = "commit" =>
       /\ ctx[r].tx \in TxId \ DOMAIN journal
       /\ \A q \in Request \ {r} : pc[q] = "commit" => ctx[q].tx # ctx[r].tx

(* Where in its window a key is: nothing that counts was committed under a *)
(* free key, nor under the key of a request that has yet to commit or is   *)
(* about to delete it; after the COMMIT there is that one transaction.     *)
WindowSound ==
  /\ \A r \in Request : PhaseSound(r)
  /\ \A k \in Key : store[k] = Absent => OfKey(k) \subseteq expired
  /\ \A r \in Request, k \in Key : Guards(r, k) =>
       /\ pc[r] \in {"admit", "commit", "delete"} => OfKey(k) \subseteq expired
       /\ pc[r] = "cache" =>
            /\ ctx[r].tx \in OfKey(k) /\ journal[ctx[r].tx] = req[r]
            /\ OfKey(k) \ expired \subseteq {ctx[r].tx}

(* A response under a key is the one of a committed transaction that came  *)
(* with this key and body, and so is the transaction in every 201 and every*)
(* replayed 200: a reused key never returns another body's transaction.    *)
AnswersTrue ==
  /\ \A k \in Key : store[k].state = "response" =>
       /\ store[k].tx \in DOMAIN journal
       /\ journal[store[k].tx] = [key |-> k, body |-> store[k].fingerprint]
  /\ \A r \in Request : resp[r].code \in {200, 201} =>
       resp[r].tx \in DOMAIN journal /\ journal[resp[r].tx] = req[r]

(* A failed request may be retried at once (docs/adr/001: "On failure - the*)
(* key is deleted"): without faults a key is only pending while a request  *)
(* with that body is past the gate.                                        *)
PendingIsGuarded ==
  faults = 0 => \A k \in Key : store[k].state = "pending" => \E r \in Request : Guards(r, k)

(* A cached response is neither replaced nor removed before its time.      *)
ResponseStays ==
  [][\A k \in Key : store[k].state = "response" =>
       store'[k] = store[k] \/ (store'[k] = Absent /\ OfKey(k) \subseteq expired')]_vars

(* No key is pending for ever: the request answers, fails, or the key      *)
(* expires, also after a crash or when Redis was lost in the DELETE.       *)
PendingEnds ==
  \A k \in Key : store[k].state = "pending" ~> store[k].state # "pending"
=============================================================================
