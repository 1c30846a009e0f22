-------------------------- MODULE IdempotencyProofs --------------------------
(***************************************************************************)
(* Effectively once, for any number of requests, keys and bodies, as long  *)
(* as nothing fails after the COMMIT and Redis keeps its keys: Redis may   *)
(* fail in any other command and a request may be cut anywhere.            *)
(*                                                                         *)
(* A claim sees the key absent, and WindowSound says that nothing that     *)
(* counts was committed under it; KeyAdmitsOne keeps the key pending and   *)
(* every other request out until the response replaces the mark or the     *)
(* mark is deleted, which only happens to a request that did not commit.   *)
(*                                                                         *)
(* What the answers say needs none of that: AnswersTrue holds under every  *)
(* fault, also where a key admits two requests.                            *)
(***************************************************************************)
EXTENDS Idempotency, TLAPS

IInv == TypeOK /\ KeyAdmitsOne /\ PostedOnce /\ CommittedHoldsKey /\ WindowSound

USE IdempotencyAssumption

NothingAfterCommit == Faults \subseteq {"redis", "crash"}

LEMMA InitIInv == Init => IInv
  <1> SUFFICES ASSUME Init PROVE IInv
    OBVIOUS
  <1>1. (CHOOSE b \in Body : TRUE) \in Body
    OBVIOUS
  <1>2. TypeOK
    BY <1>1 DEF Init, TypeOK, Stored, Absent, Context, NoContext, NoAnswer, Answer
  <1>3. KeyAdmitsOne /\ PostedOnce /\ CommittedHoldsKey
    BY DEF Init, KeyAdmitsOne, PostedOnce, CommittedHoldsKey, Guards
  <1>4. WindowSound
    BY DEF Init, WindowSound, PhaseSound, OfKey, Guards
  <1> QED  BY <1>2, <1>3, <1>4 DEF IInv

\* The four values of a key are told apart.
LEMMA Values ==
  /\ \A b : Pending(b) # Absent
  /\ \A b, t : Response(b, t) # Absent
  /\ \A b, c, t : Pending(b) # Response(c, t)
  BY DEF Pending, Absent, Response

(* Steps that leave Redis and the tables alone: they preserve the invariant*)
(* if the request's own phase stays sound and it does not come to guard.   *)
LEMMA LocalStep ==
  ASSUME IInv, TypeOK', NEW r \in Request,
         UNCHANGED <<store, journal, expired>>,
         \A q \in Request \ {r} : pc'[q] = pc[q] /\ req'[q] = req[q] /\ ctx'[q] = ctx[q],
         PhaseSound(r)',
         pc'[r] = "commit" => \A q \in Request \ {r} : ctx[q].tx # ctx'[r].tx,
         \A k \in Key : Guards(r, k)' =>
           /\ Guards(r, k) /\ req'[r] = req[r]
           /\ pc[r] \in {"admit", "commit", "delete"} /\ pc'[r] \in {"admit", "commit", "delete"}
  PROVE  IInv'
  <1>1. \A q \in Request \ {r}, k \in Key : Guards(q, k)' <=> Guards(q, k)
    BY DEF Guards, KeyOf
  <1>2. KeyAdmitsOne'
    BY <1>1 DEF IInv, KeyAdmitsOne
  <1>3. PostedOnce' /\ CommittedHoldsKey'
    BY DEF IInv, PostedOnce, CommittedHoldsKey
  <1>4. WindowSound'
    <2>1. \A q \in Request : PhaseSound(q)'
      BY DEF IInv, WindowSound, PhaseSound, KeyOf
    <2>2. \A k \in Key : OfKey(k)' = OfKey(k)
      BY DEF OfKey
    <2>3. \A k \in Key : store'[k] = Absent => OfKey(k)' \subseteq expired'
      BY <2>2 DEF IInv, WindowSound
    <2>4. ASSUME NEW q \in Request, NEW k \in Key, Guards(q, k)'
          PROVE  /\ pc'[q] \in {"admit", "commit", "delete"} => OfKey(k)' \subseteq expired'
                 /\ pc'[q] = "cache" =>
                      /\ ctx'[q].tx \in OfKey(k)' /\ journal'[ctx'[q].tx] = req'[q]
                      /\ OfKey(k)' \ expired' \subseteq {ctx'[q].tx}
      <3>1. CASE q = r
        BY <2>2, <2>4, <3>1 DEF IInv, WindowSound
      <3>2. CASE q # r
        BY <1>1, <2>2, <2>4, <3>2 DEF IInv, WindowSound
      <3> QED  BY <3>1, <3>2
    <2> QED  BY <2>1, <2>3, <2>4 DEF WindowSound
  <1> QED  BY <1>2, <1>3, <1>4 DEF IInv

\* The phases, the ends of a request and the answers, typed.
Answers == [code : {0, 200, 201, 401, 409, 422, 500}, tx : TxId \cup {NoTx}]

(* The end of a request that leaves Redis and the tables alone.            *)
LEMMA EndStep ==
  ASSUME IInv, NEW r \in Request, NEW answer \in Answers,
         Finish(r, answer), UNCHANGED <<store, journal, expired, req>>,
         faults' \in 0 .. MaxFaults
  PROVE  IInv'
  <1>1. NoContext \in Context
    BY DEF NoContext, Context
  <1>2. TypeOK'
    BY <1>1 DEF IInv, TypeOK, Finish, Goto, Answers
  <1>3. /\ pc'[r] = "idle" /\ ctx'[r] = NoContext
        /\ \A q \in Request \ {r} : pc'[q] = pc[q] /\ req'[q] = req[q] /\ ctx'[q] = ctx[q]
    BY DEF IInv, TypeOK, Finish, Goto
  <1>4. PhaseSound(r)'
    BY <1>3 DEF PhaseSound
  <1>5. \A k \in Key : ~ Guards(r, k)'
    BY <1>3 DEF Guards
  <1> QED  BY <1>2, <1>3, <1>4, <1>5, LocalStep

(* An exception reaches the generator of a request that has not committed. *)
LEMMA RaiseStep ==
  ASSUME IInv, NEW r \in Request, pc[r] \in {"admit", "commit"}, ctx[r].kind = "guard",
         Raise(r), UNCHANGED <<journal, expired, req, faults>>
  PROVE  IInv'
  <1>1. TypeOK'
    BY DEF IInv, TypeOK, Raise, Goto
  <1>2. /\ pc'[r] = "delete" /\ ctx' = ctx /\ store' = store
        /\ \A q \in Request \ {r} : pc'[q] = pc[q]
    BY DEF IInv, TypeOK, Raise, Goto
  <1>3. PhaseSound(r)'
    BY <1>2 DEF IInv, WindowSound, PhaseSound, KeyOf
  <1>4. \A k \in Key : Guards(r, k)' => Guards(r, k)
    BY <1>2 DEF Guards, KeyOf
  <1> QED  BY <1>1, <1>2, <1>3, <1>4, LocalStep

LEMMA ArriveIInv ==
  ASSUME IInv, NEW r \in Request, NEW k \in Key \cup {NoKey}, NEW b \in Body, Arrive(r, k, b)
  PROVE  IInv'
  <1>1. /\ pc'[r] = (IF k = NoKey THEN "admit" ELSE "claim")
        /\ req'[r] = [key |-> k, body |-> b]
        /\ ctx' = ctx /\ ctx[r] = NoContext
        /\ \A q \in Request \ {r} : pc'[q] = pc[q] /\ req'[q] = req[q]
    BY DEF Arrive, Goto, IInv, TypeOK, WindowSound, PhaseSound
  <1>2. TypeOK'
    BY DEF IInv, TypeOK, Arrive, Goto, NoAnswer, Answer
  <1>3. PhaseSound(r)'
    BY <1>1 DEF PhaseSound, KeyOf, NoContext
  <1>4. \A c \in Key : ~ Guards(r, c)'
    BY <1>1 DEF Guards, NoContext
  <1> QED  BY <1>1, <1>2, <1>3, <1>4, LocalStep DEF Arrive

LEMMA LookIInv ==
  ASSUME IInv, NEW r \in Request, Look(r)
  PROVE  IInv'
  <1> DEFINE found == store[KeyOf(r)]
             replay == [kind |-> "replay", tx |-> found.tx]
  <1>1. KeyOf(r) \in Key /\ found \in Stored
    BY DEF Look, IInv, TypeOK, WindowSound, PhaseSound
  <1>2. CASE found.state = "response" /\ found.fingerprint = req[r].body
    <2>1. found.tx \in TxId
      BY <1>1, <1>2 DEF Stored, Absent, Pending, Response
    <2>2. /\ pc' = [pc EXCEPT ![r] = "admit"] /\ ctx' = [ctx EXCEPT ![r] = replay]
          /\ UNCHANGED <<store, journal, expired, req, faults, resp>>
      BY <1>2 DEF Look, Goto
    <2> HIDE DEF found
    <2>3. replay \in Context
      BY <2>1 DEF Context
    <2>4. TypeOK'
      BY <2>2, <2>3 DEF IInv, TypeOK
    <2>5. /\ pc'[r] = "admit" /\ ctx'[r] = replay
          /\ \A q \in Request \ {r} : pc'[q] = pc[q] /\ ctx'[q] = ctx[q]
      BY <2>2 DEF IInv, TypeOK
    <2>6. PhaseSound(r)'
      BY <1>1, <2>2, <2>5 DEF PhaseSound, KeyOf
    <2>7. \A k \in Key : ~ Guards(r, k)'
      BY <2>5 DEF Guards
    <2> QED  BY <2>2, <2>4, <2>5, <2>6, <2>7, LocalStep
  <1>3. CASE ~ (found.state = "response" /\ found.fingerprint = req[r].body)
    <2>1. /\ Finish(r, Answer(Duplicate(found, req[r].body), NoTx))
          /\ UNCHANGED <<store, journal, expired, req, faults>>
      BY <1>3 DEF Look
    <2>2. Answer(Duplicate(found, req[r].body), NoTx) \in Answers
      BY DEF Answer, Duplicate, Answers
    <2> QED  BY <2>1, <2>2, EndStep DEF IInv, TypeOK
  <1> QED  BY <1>2, <1>3

LEMMA CreateIInv ==
  ASSUME IInv, NEW r \in Request, Create(r)
  PROVE  IInv'
  <1>1. PICK t \in Fresh : ctx' = [ctx EXCEPT ![r].tx = t]
    BY DEF Create
  <1>2. t \in TxId \ DOMAIN journal /\ \A q \in Request : ctx[q].tx # t
    BY DEF Fresh
  <1>3. /\ pc[r] = "admit" /\ ctx[r].kind # "replay"
        /\ pc' = [pc EXCEPT ![r] = "commit"]
        /\ UNCHANGED <<store, journal, expired, req, resp, faults>>
    BY DEF Create, Goto
  <1>4. /\ pc'[r] = "commit" /\ ctx'[r].kind = ctx[r].kind /\ ctx'[r].tx = t
        /\ \A q \in Request \ {r} : pc'[q] = pc[q] /\ ctx'[q] = ctx[q]
        /\ ctx' \in [Request -> Context]
    BY <1>1, <1>2, <1>3 DEF IInv, TypeOK, Context
  <1>5. TypeOK'
    BY <1>3, <1>4 DEF IInv, TypeOK
  <1>6. PhaseSound(r)'
    BY <1>2, <1>3, <1>4 DEF IInv, WindowSound, PhaseSound, KeyOf
  <1>7. \A k \in Key : Guards(r, k)' => Guards(r, k)
    BY <1>3, <1>4 DEF Guards, KeyOf
  <1> QED  BY <1>2, <1>3, <1>4, <1>5, <1>6, <1>7, LocalStep

-----------------------------------------------------------------------------
(* Steps that write a key *)

(* A request writes key k, which no other request guards: the invariant is *)
(* preserved if what it writes accounts for the transaction of the key.    *)
LEMMA PutStep ==
  ASSUME IInv, TypeOK', NEW r \in Request, NEW k \in Key, NEW v \in Stored,
         store' = [store EXCEPT ![k] = v],
         UNCHANGED <<journal, expired, req>>,
         \A q \in Request \ {r} : pc'[q] = pc[q] /\ ctx'[q] = ctx[q] /\ ~ Guards(q, k),
         pc'[r] \in {"idle", "admit"}, PhaseSound(r)',
         v = Absent => OfKey(k) \subseteq expired,
         \A t \in OfKey(k) \ expired : v \in {Pending(journal[t].body), Response(journal[t].body, t)},
         \A c \in Key : Guards(r, c)' =>
           c = k /\ v = Pending(req[r].body) /\ OfKey(k) \subseteq expired
  PROVE  IInv'
  <1>1. \A q \in Request \ {r}, c \in Key : Guards(q, c)' <=> Guards(q, c)
    BY DEF Guards, KeyOf
  <1>2. store'[k] = v /\ \A c \in Key \ {k} : store'[c] = store[c]
    BY DEF IInv, TypeOK
  <1>3. \A c \in Key : OfKey(c)' = OfKey(c)
    BY DEF OfKey
  <1>4. KeyAdmitsOne'
    <2> SUFFICES ASSUME NEW q \in Request, NEW c \in Key, Guards(q, c)'
                 PROVE  /\ store'[c] = Pending(req'[q].body)
                        /\ \A p \in Request : Guards(p, c)' => p = q
      BY DEF KeyAdmitsOne
    <2>1. CASE q = r
      BY <1>1, <1>2, <2>1
    <2>2. CASE q # r
      <3>1. Guards(q, c) /\ c # k
        BY <1>1, <2>2
      <3> QED  BY <1>1, <1>2, <3>1 DEF IInv, KeyAdmitsOne
    <2> QED  BY <2>1, <2>2
  <1>5. PostedOnce'
    BY DEF IInv, PostedOnce
  <1>6. CommittedHoldsKey'
    <2> SUFFICES ASSUME NEW t \in DOMAIN journal \ expired, journal[t].key # NoKey
                 PROVE  store'[journal[t].key] \in
                          {Pending(journal[t].body), Response(journal[t].body, t)}
      BY DEF CommittedHoldsKey
    <2>1. journal[t].key \in Key
      BY DEF IInv, TypeOK
    <2>2. CASE journal[t].key = k
      BY <1>2, <2>2 DEF OfKey
    <2>3. CASE journal[t].key # k
      BY <1>2, <2>1, <2>3 DEF IInv, CommittedHoldsKey
    <2> QED  BY <2>2, <2>3
  <1>7. WindowSound'
    <2>1. \A q \in Request : PhaseSound(q)'
      BY DEF IInv, WindowSound, PhaseSound, KeyOf
    <2>2. \A c \in Key : store'[c] = Absent => OfKey(c)' \subseteq expired'
      BY <1>2, <1>3 DEF IInv, WindowSound
    <2>3. ASSUME NEW q \in Request, NEW c \in Key, Guards(q, c)'
          PROVE  /\ pc'[q] \in {"admit", "commit", "delete"} => OfKey(c)' \subseteq expired'
                 /\ pc'[q] = "cache" =>
                      /\ ctx'[q].tx \in OfKey(c)' /\ journal'[ctx'[q].tx] = req'[q]
                      /\ OfKey(c)' \ expired' \subseteq {ctx'[q].tx}
      <3>1. CASE q = r
        BY <1>3, <2>3, <3>1
      <3>2. CASE q # r
        BY <1>1, <1>3, <2>3, <3>2 DEF IInv, WindowSound
      <3> QED  BY <3>1, <3>2
    <2> QED  BY <2>1, <2>2, <2>3 DEF WindowSound
  <1> QED  BY <1>4, <1>5, <1>6, <1>7 DEF IInv

LEMMA ClaimIInv ==
  ASSUME IInv, NEW r \in Request, Claim(r)
  PROVE  IInv'
  <1> DEFINE k == KeyOf(r)
  <1>1. k \in Key /\ pc[r] = "claim" /\ ctx[r] = NoContext
    BY DEF Claim, IInv, WindowSound, PhaseSound
  <1>2. CASE store[k] = Absent
    <2>1. /\ store' = [store EXCEPT ![k] = Pending(req[r].body)]
          /\ ctx' = [ctx EXCEPT ![r].kind = "guard"]
          /\ pc' = [pc EXCEPT ![r] = "admit"]
          /\ UNCHANGED <<journal, expired, req, resp, faults>>
      BY <1>2 DEF Claim, Put, Goto
    <2>2. /\ pc'[r] = "admit" /\ ctx'[r].kind = "guard"
          /\ \A q \in Request \ {r} : pc'[q] = pc[q] /\ ctx'[q] = ctx[q]
          /\ ctx' \in [Request -> Context]
      <3>1. [ctx[r] EXCEPT !.kind = "guard"] = [kind |-> "guard", tx |-> NoTx]
        BY <1>1 DEF NoContext
      <3>2. [ctx[r] EXCEPT !.kind = "guard"] \in Context
        BY <3>1 DEF Context
      <3> QED  BY <2>1, <3>1, <3>2 DEF IInv, TypeOK
    <2>3. Pending(req[r].body) \in Stored
      BY DEF IInv, TypeOK, Stored
    <2>4. TypeOK'
      BY <2>1, <2>2, <2>3 DEF IInv, TypeOK
    <2>5. PhaseSound(r)'
      BY <1>1, <2>1, <2>2 DEF PhaseSound, KeyOf
    <2>6. \A q \in Request : ~ Guards(q, k)
      BY <1>1, <1>2, Values DEF IInv, KeyAdmitsOne
    <2>7. OfKey(k) \subseteq expired
      BY <1>1, <1>2 DEF IInv, WindowSound
    <2>8. \A c \in Key : Guards(r, c)' => c = k
      BY <2>1 DEF Guards, KeyOf
    <2> HIDE DEF k
    <2> QED  BY <1>1, <2>1, <2>2, <2>3, <2>4, <2>5, <2>6, <2>7, <2>8, Values, PutStep
  <1>3. CASE store[k] # Absent
    <2>1. /\ pc' = [pc EXCEPT ![r] = "look"]
          /\ UNCHANGED <<store, journal, expired, req, ctx, resp, faults>>
      BY <1>3 DEF Claim, Goto
    <2>2. pc'[r] = "look" /\ \A q \in Request \ {r} : pc'[q] = pc[q]
      BY <2>1 DEF IInv, TypeOK
    <2>3. TypeOK'
      BY <2>1 DEF IInv, TypeOK
    <2>4. PhaseSound(r)'
      BY <1>1, <2>1, <2>2 DEF PhaseSound, KeyOf
    <2>5. \A c \in Key : ~ Guards(r, c)'
      BY <1>1, <2>1 DEF Guards, NoContext
    <2> QED  BY <2>1, <2>2, <2>3, <2>4, <2>5, LocalStep
  <1> QED  BY <1>2, <1>3

(* The end of a request that writes the key it was about.                  *)
LEMMA EndPutStep ==
  ASSUME IInv, NEW r \in Request, NEW answer \in Answers, NEW v \in Stored,
         KeyOf(r) \in Key, Put(r, v), Finish(r, answer),
         UNCHANGED <<journal, expired, req>>, faults' \in 0 .. MaxFaults,
         \A q \in Request \ {r} : ~ Guards(q, KeyOf(r)),
         v = Absent => OfKey(KeyOf(r)) \subseteq expired,
         \A t \in OfKey(KeyOf(r)) \ expired :
           v \in {Pending(journal[t].body), Response(journal[t].body, t)}
  PROVE  IInv'
  <1>1. NoContext \in Context
    BY DEF NoContext, Context
  <1>2. TypeOK'
    BY <1>1 DEF IInv, TypeOK, Put, Finish, Goto, Answers
  <1>3. /\ pc'[r] = "idle" /\ ctx'[r] = NoContext
        /\ \A q \in Request \ {r} : pc'[q] = pc[q] /\ ctx'[q] = ctx[q]
    BY DEF IInv, TypeOK, Finish, Goto
  <1>4. PhaseSound(r)'
    BY <1>3 DEF PhaseSound
  <1>5. \A c \in Key : ~ Guards(r, c)'
    BY <1>3 DEF Guards
  <1> QED  BY <1>2, <1>3, <1>4, <1>5, PutStep DEF Put

LEMMA ClaimFailsIInv ==
  ASSUME IInv, NEW r \in Request, ClaimFails(r)
  PROVE  IInv'
  <1>1. /\ KeyOf(r) \in Key /\ faults' \in 0 .. MaxFaults
        /\ Finish(r, Answer(500, NoTx)) /\ Answer(500, NoTx) \in Answers
        /\ UNCHANGED <<journal, expired, req>>
    BY DEF ClaimFails, Fault, IInv, TypeOK, WindowSound, PhaseSound, Answer, Answers
  <1>2. CASE UNCHANGED store
    BY <1>1, <1>2, EndStep
  <1>3. CASE store[KeyOf(r)] = Absent /\ Put(r, Pending(req[r].body))
    <2>1. Pending(req[r].body) \in Stored
      BY DEF IInv, TypeOK, Stored
    <2>2. \A q \in Request : ~ Guards(q, KeyOf(r))
      BY <1>1, <1>3, Values DEF IInv, KeyAdmitsOne
    <2>3. OfKey(KeyOf(r)) \subseteq expired
      BY <1>1, <1>3 DEF IInv, WindowSound
    <2> QED  BY <1>1, <1>3, <2>1, <2>2, <2>3, Values, EndPutStep
  <1> QED  BY <1>2, <1>3 DEF ClaimFails

\* What the invariant says of a request that guards a key.
LEMMA Guarding ==
  ASSUME IInv, NEW r \in Request, ctx[r].kind = "guard", pc[r] # "idle"
  PROVE  /\ KeyOf(r) \in Key /\ Guards(r, KeyOf(r))
         /\ \A q \in Request \ {r} : ~ Guards(q, KeyOf(r))
         /\ pc[r] \in {"admit", "commit", "delete"} => OfKey(KeyOf(r)) \subseteq expired
         /\ pc[r] = "cache" =>
              /\ ctx[r].tx \in OfKey(KeyOf(r)) /\ journal[ctx[r].tx] = req[r]
              /\ OfKey(KeyOf(r)) \ expired \subseteq {ctx[r].tx}
  <1>1. pc[r] \in {"admit", "commit", "cache", "delete"}
    BY DEF IInv, TypeOK, WindowSound, PhaseSound, NoContext
  <1>2. KeyOf(r) # NoKey
    BY <1>1 DEF IInv, WindowSound, PhaseSound
  <1>3. KeyOf(r) \in Key
    BY <1>2 DEF IInv, TypeOK, KeyOf
  <1>4. Guards(r, KeyOf(r))
    BY DEF Guards
  <1> QED  BY <1>3, <1>4 DEF IInv, KeyAdmitsOne, WindowSound

LEMMA CacheIInv ==
  ASSUME IInv, NEW r \in Request, Cache(r)
  PROVE  IInv'
  <1>1. /\ Finish(r, Answer(201, ctx[r].tx)) /\ Answer(201, ctx[r].tx) \in Answers
        /\ UNCHANGED <<journal, expired, req, faults>> /\ faults' \in 0 .. MaxFaults
        /\ pc[r] = "cache"
    BY DEF Cache, IInv, TypeOK, Context, Answer, Answers
  <1>2. CASE ctx[r].kind = "guard"
    <2>1. /\ KeyOf(r) \in Key /\ \A q \in Request \ {r} : ~ Guards(q, KeyOf(r))
          /\ ctx[r].tx \in OfKey(KeyOf(r)) /\ journal[ctx[r].tx] = req[r]
          /\ OfKey(KeyOf(r)) \ expired \subseteq {ctx[r].tx}
      BY <1>1, <1>2, Guarding
    <2>2. Put(r, Response(req[r].body, ctx[r].tx))
      BY <1>2 DEF Cache
    <2>3. ctx[r].tx \in TxId /\ req[r].body \in Body
      BY <2>1 DEF IInv, TypeOK, OfKey
    <2>4. Response(req[r].body, ctx[r].tx) \in Stored
      BY <2>3 DEF Stored
    <2> QED  BY <1>1, <2>1, <2>2, <2>4, Values, EndPutStep
  <1>3. CASE ctx[r].kind # "guard"
    BY <1>1, <1>3, EndStep DEF Cache
  <1> QED  BY <1>2, <1>3

LEMMA DeleteIInv ==
  ASSUME IInv, NEW r \in Request, DeleteKey(r) \/ DeleteFails(r)
  PROVE  IInv'
  <1>1. /\ pc[r] = "delete" /\ ctx[r].kind = "guard"
        /\ UNCHANGED <<journal, expired, req>> /\ faults' \in 0 .. MaxFaults
    BY DEF DeleteKey, DeleteFails, Fault, IInv, TypeOK, WindowSound, PhaseSound
  <1>2. PICK answer \in Answers : Finish(r, answer)
    BY DEF DeleteKey, DeleteFails, Answer, Answers
  <1>3. CASE UNCHANGED store
    BY <1>1, <1>2, <1>3, EndStep
  <1>4. CASE Put(r, Absent)
    <2>1. /\ KeyOf(r) \in Key /\ \A q \in Request \ {r} : ~ Guards(q, KeyOf(r))
          /\ OfKey(KeyOf(r)) \subseteq expired
      BY <1>1, Guarding
    <2>2. Absent \in Stored
      BY DEF Stored
    <2> QED  BY <1>1, <1>2, <1>4, <2>1, <2>2, EndPutStep
  <1> QED  BY <1>3, <1>4 DEF DeleteKey, DeleteFails

-----------------------------------------------------------------------------
(* The COMMIT, and the end of a window *)

LEMMA CommitIInv ==
  ASSUME IInv, NEW r \in Request, Commit(r)
  PROVE  IInv'
  <1> DEFINE t == ctx[r].tx
  <1>1. /\ pc[r] = "commit" /\ ctx[r].kind # "replay"
        /\ pc' = [pc EXCEPT ![r] = "cache"]
        /\ UNCHANGED <<store, expired, req, ctx, resp, faults>>
    BY DEF Commit, Goto, IInv, WindowSound, PhaseSound
  <1>2. t \in TxId \ DOMAIN journal
    BY <1>1 DEF IInv, WindowSound, PhaseSound
  <1>3. journal' = [u \in DOMAIN journal \cup {t} |-> IF u = t THEN req[r] ELSE journal[u]]
    BY DEF Commit, Record
  <1> HIDE DEF t
  <1>4. /\ DOMAIN journal' = DOMAIN journal \cup {t} /\ journal'[t] = req[r]
        /\ \A u \in DOMAIN journal : journal'[u] = journal[u]
    BY <1>2, <1>3
  <1>5. pc'[r] = "cache" /\ \A q \in Request \ {r} : pc'[q] = pc[q]
    BY <1>1 DEF IInv, TypeOK
  <1>6. \A q \in Request, k \in Key : Guards(q, k)' <=> Guards(q, k)
    BY <1>1, <1>5 DEF Guards, KeyOf
  <1>7. /\ ctx[r].kind = "none" => req[r].key = NoKey
        /\ ctx[r].kind # "none" => ctx[r].kind = "guard"
    BY <1>1 DEF IInv, TypeOK, Context, WindowSound, PhaseSound, KeyOf
  <1>8. ctx[r].kind = "guard" =>
          /\ req[r].key \in Key /\ Guards(r, req[r].key)
          /\ OfKey(req[r].key) \subseteq expired
          /\ \A q \in Request \ {r} : ~ Guards(q, req[r].key)
    BY <1>1, Guarding DEF KeyOf
  <1>9. \A k \in Key :
          /\ req[r].key # k => OfKey(k)' = OfKey(k)
          /\ req[r].key = k => OfKey(k)' = OfKey(k) \cup {t}
    BY <1>2, <1>4 DEF OfKey
  <1>10. TypeOK'
    <2>1. req[r] \in [key : Key \cup {NoKey}, body : Body]
      BY DEF IInv, TypeOK
    <2> QED  BY <1>1, <1>2, <1>4, <2>1 DEF IInv, TypeOK
  <1>11. KeyAdmitsOne'
    BY <1>1, <1>6 DEF IInv, KeyAdmitsOne
  <1>12. \A u \in DOMAIN journal \ expired : req[r].key # NoKey => journal[u].key # req[r].key
    BY <1>7, <1>8 DEF OfKey
  <1>13. PostedOnce'
    BY <1>1, <1>4, <1>12 DEF IInv, PostedOnce
  <1>14. CommittedHoldsKey'
    <2>1. req[r].key # NoKey => store[req[r].key] = Pending(req[r].body)
      BY <1>7, <1>8 DEF IInv, KeyAdmitsOne
    <2> QED  BY <1>1, <1>4, <2>1 DEF IInv, CommittedHoldsKey
  <1>15. WindowSound'
    <2>1. ASSUME NEW q \in Request PROVE PhaseSound(q)'
      <3>1. CASE q = r
        BY <1>1, <1>5, <3>1 DEF IInv, WindowSound, PhaseSound, KeyOf
      <3>2. CASE q # r
        <4>1. pc[q] = "commit" => ctx[q].tx # t
          BY <1>1, <3>2 DEF IInv, WindowSound, PhaseSound, t
        <4> QED  BY <1>1, <1>4, <1>5, <3>2, <4>1 DEF IInv, WindowSound, PhaseSound, KeyOf
      <3> QED  BY <3>1, <3>2
    <2>2. ASSUME NEW k \in Key, store'[k] = Absent PROVE OfKey(k)' \subseteq expired'
      <3>1. req[r].key # k
        BY <1>1, <1>7, <1>8, <2>2, Values DEF IInv, KeyAdmitsOne
      <3> QED  BY <1>1, <1>9, <2>2, <3>1 DEF IInv, WindowSound
    <2>3. ASSUME NEW q \in Request, NEW k \in Key, Guards(q, k)'
          PROVE  /\ pc'[q] \in {"admit", "commit", "delete"} => OfKey(k)' \subseteq expired'
                 /\ pc'[q] = "cache" =>
                      /\ ctx'[q].tx \in OfKey(k)' /\ journal'[ctx'[q].tx] = req'[q]
                      /\ OfKey(k)' \ expired' \subseteq {ctx'[q].tx}
      <3>1. CASE q = r
        <4>1. req[r].key = k /\ ctx[r].kind = "guard"
          BY <1>6, <2>3, <3>1 DEF Guards, KeyOf
        <4> QED  BY <1>1, <1>4, <1>5, <1>8, <1>9, <3>1, <4>1 DEF t
      <3>2. CASE q # r
        <4>1. req[r].key # k
          BY <1>6, <1>7, <1>8, <2>3, <3>2
        <4>2. OfKey(k)' = OfKey(k) /\ Guards(q, k)
          BY <1>6, <1>9, <2>3, <4>1
        <4>3. ctx[q].tx \in OfKey(k) => journal'[ctx[q].tx] = journal[ctx[q].tx]
          BY <1>4 DEF OfKey
        <4> QED  BY <1>1, <1>5, <3>2, <4>2, <4>3 DEF IInv, WindowSound
      <3> QED  BY <3>1, <3>2
    <2> QED  BY <2>1, <2>2, <2>3 DEF WindowSound
  <1> QED  BY <1>10, <1>11, <1>13, <1>14, <1>15 DEF IInv

LEMMA ExpireIInv ==
  ASSUME IInv, NEW k \in Key, Expire(k)
  PROVE  IInv'
  <1>1. /\ \A r \in Request : ~ Guards(r, k)
        /\ store' = [store EXCEPT ![k] = Absent] /\ expired' = expired \cup OfKey(k)
        /\ UNCHANGED <<journal, pc, req, ctx, resp, faults>>
    BY DEF Expire
  <1>2. store'[k] = Absent /\ \A c \in Key \ {k} : store'[c] = store[c]
    BY <1>1 DEF IInv, TypeOK
  <1>3. /\ \A r \in Request, c \in Key : Guards(r, c)' <=> Guards(r, c)
        /\ \A c \in Key : OfKey(c)' = OfKey(c)
        /\ \A r \in Request : PhaseSound(r)' <=> PhaseSound(r)
    BY <1>1 DEF Guards, KeyOf, OfKey, PhaseSound
  <1>4. TypeOK'
    BY <1>1 DEF IInv, TypeOK, Stored, OfKey
  <1>5. KeyAdmitsOne'
    BY <1>1, <1>2, <1>3 DEF IInv, KeyAdmitsOne
  <1>6. PostedOnce'
    BY <1>1 DEF IInv, PostedOnce
  <1>7. CommittedHoldsKey'
    BY <1>1, <1>2 DEF IInv, TypeOK, CommittedHoldsKey, OfKey
  <1>8. WindowSound'
    BY <1>1, <1>2, <1>3 DEF IInv, WindowSound
  <1> QED  BY <1>4, <1>5, <1>6, <1>7, <1>8 DEF IInv

-----------------------------------------------------------------------------
LEMMA NextIInv ==
  ASSUME NothingAfterCommit
  PROVE  IInv /\ [Next]_vars => IInv'
  <1> SUFFICES ASSUME IInv, [Next]_vars PROVE IInv'
    OBVIOUS
  <1>1. ~ Fault("afterCommit") /\ ~ Fault("keysLost")
    BY DEF Fault, NothingAfterCommit
  <1>2. ASSUME NEW r \in Request, NEW k \in Key \cup {NoKey}, NEW b \in Body, Arrive(r, k, b)
        PROVE  IInv'
    BY <1>2, ArriveIInv
  <1>3. ASSUME NEW r \in Request, Step(r) PROVE IInv'
    <2>1. ASSUME LookFails(r) \/ Replay(r) PROVE IInv'
      <3>1. CASE LookFails(r)
        <4>1. /\ Finish(r, Answer(500, NoTx)) /\ Answer(500, NoTx) \in Answers
              /\ UNCHANGED <<store, journal, expired, req>> /\ faults' \in 0 .. MaxFaults
          BY <3>1 DEF LookFails, Fault, Answer, Answers, IInv, TypeOK
        <4> QED  BY <4>1, EndStep
      <3>2. CASE Replay(r)
        <4>1. ctx[r].tx \in TxId \cup {NoTx}
          BY DEF IInv, TypeOK, Context
        <4>2. /\ Finish(r, Answer(200, ctx[r].tx)) /\ Answer(200, ctx[r].tx) \in Answers
              /\ UNCHANGED <<store, journal, expired, req>> /\ faults' \in 0 .. MaxFaults
          BY <3>2, <4>1 DEF Replay, Answer, Answers, IInv, TypeOK
        <4> QED  BY <4>2, EndStep
      <3> QED  BY <2>1, <3>1, <3>2
    <2>2. ASSUME Refused(r) \/ Fails(r) PROVE IInv'
      <3>1. /\ pc[r] \in {"admit", "commit"}
            /\ UNCHANGED <<journal, expired, req, faults>> /\ faults' \in 0 .. MaxFaults
        BY <2>2 DEF Refused, Fails, IInv, TypeOK
      <3>2. CASE ctx[r].kind = "guard"
        BY <2>2, <3>1, <3>2, RaiseStep DEF Refused, Fails
      <3>3. CASE ctx[r].kind # "guard"
        <4>1. PICK answer \in Answers : Finish(r, answer) /\ UNCHANGED store
          BY <2>2, <3>3 DEF Refused, Fails, Answer, Answers
        <4> QED  BY <3>1, <4>1, EndStep
      <3> QED  BY <3>2, <3>3
    <2> QED  BY <1>1, <1>3, <2>1, <2>2, ClaimIInv, ClaimFailsIInv, LookIInv, CreateIInv, CommitIInv,
                CacheIInv, DeleteIInv DEF Step, CommitUnanswered, CacheFails
  <1>4. ASSUME NEW r \in Request, Crash(r) PROVE IInv'
    <2>1. /\ Finish(r, NoAnswer) /\ NoAnswer \in Answers
          /\ UNCHANGED <<store, journal, expired, req>> /\ faults' \in 0 .. MaxFaults
      BY <1>4 DEF Crash, Fault, IInv, TypeOK, NoAnswer, Answer, Answers
    <2> QED  BY <2>1, EndStep
  <1>5. ASSUME NEW k \in Key, Expire(k) PROVE IInv'
    BY <1>5, ExpireIInv
  <1>6. CASE UNCHANGED vars
    BY <1>6 DEF vars, IInv, TypeOK, KeyAdmitsOne, PostedOnce, CommittedHoldsKey, WindowSound,
                PhaseSound, Guards, KeyOf, OfKey
  <1> QED  BY <1>1, <1>2, <1>3, <1>4, <1>5, <1>6 DEF Next, LoseKeys

(* Effectively once: unless something fails between a COMMIT and the end of*)
(* cache(), or Redis loses its keys, a key leaves one transaction within   *)
(* its 24 hours (check_idempotency, post_transaction).                     *)
THEOREM IdempotencyPostedOnce ==
  ASSUME NothingAfterCommit
  PROVE  Spec => []PostedOnce
  <1>1. IInv /\ [Next]_vars => IInv'
    BY NextIInv
  <1>2. IInv => PostedOnce
    BY DEF IInv
  <1> QED  BY <1>1, <1>2, InitIInv, PTL DEF Spec

(* SET NX lets one request at a time past the gate of a key, and leaves its*)
(* own pending mark there until it ends.                                   *)
THEOREM IdempotencyKeyAdmitsOne ==
  ASSUME NothingAfterCommit
  PROVE  Spec => []KeyAdmitsOne
  <1>1. IInv /\ [Next]_vars => IInv'
    BY NextIInv
  <1>2. IInv => KeyAdmitsOne
    BY DEF IInv
  <1> QED  BY <1>1, <1>2, InitIInv, PTL DEF Spec

(* A committed transaction's key stays taken for its 24 hours, also when   *)
(* the request died before it could answer: the retry is turned away.      *)
THEOREM IdempotencyCommittedHoldsKey ==
  ASSUME NothingAfterCommit
  PROVE  Spec => []CommittedHoldsKey
  <1>1. IInv /\ [Next]_vars => IInv'
    BY NextIInv
  <1>2. IInv => CommittedHoldsKey
    BY DEF IInv
  <1> QED  BY <1>1, <1>2, InitIInv, PTL DEF Spec

(* The window and phases of every request and key, and their types.        *)
THEOREM IdempotencyWindowSound ==
  ASSUME NothingAfterCommit
  PROVE  Spec => [](TypeOK /\ WindowSound)
  <1>1. IInv /\ [Next]_vars => IInv'
    BY NextIInv
  <1>2. IInv => TypeOK /\ WindowSound
    BY DEF IInv
  <1> QED  BY <1>1, <1>2, InitIInv, PTL DEF Spec

(* A cached response is replaced or removed only by the end of its time.   *)
THEOREM IdempotencyResponseStays ==
  ASSUME NothingAfterCommit
  PROVE  Spec => ResponseStays
  <1> DEFINE Kept == \A k \in Key : store[k].state = "response" =>
                       store'[k] = store[k] \/ (store'[k] = Absent /\ OfKey(k) \subseteq expired')
  <1>1. IInv /\ [Next]_vars => IInv'
    BY NextIInv
  <1>2. IInv /\ [Next]_vars => [Kept]_vars
    <2> SUFFICES ASSUME IInv, Next PROVE Kept
      OBVIOUS
    <2>1. ~ Fault("afterCommit") /\ ~ Fault("keysLost")
      BY DEF Fault, NothingAfterCommit
    <2>2. ASSUME NEW r \in Request, NEW v, Put(r, v),
                 \/ ctx[r].kind = "guard" /\ pc[r] # "idle"
                 \/ store[KeyOf(r)] = Absent
          PROVE  Kept
      <3>1. store[KeyOf(r)].state # "response"
        <4>1. CASE ctx[r].kind = "guard" /\ pc[r] # "idle"
          <5>1. store[KeyOf(r)] = Pending(req[r].body)
            BY <4>1, Guarding DEF IInv, KeyAdmitsOne
          <5> QED  BY <5>1 DEF Pending
        <4>2. CASE store[KeyOf(r)] = Absent
          BY <4>2 DEF Absent
        <4> QED  BY <2>2, <4>1, <4>2
      <3>2. \A k \in Key \ {KeyOf(r)} : store'[k] = store[k]
        BY <2>2 DEF Put, IInv, TypeOK
      <3> QED  BY <3>1, <3>2
    <2>3. ASSUME NEW r \in Request, Claim(r) \/ ClaimFails(r) \/ Cache(r) \/ DeleteKey(r) \/ DeleteFails(r)
          PROVE  Kept
      <3>1. pc[r] = "delete" => ctx[r].kind = "guard"
        BY DEF IInv, WindowSound, PhaseSound
      <3> HIDE DEF Kept
      <3>2. CASE UNCHANGED store
        BY <3>2 DEF Kept
      <3> QED  BY <2>2, <2>3, <3>1, <3>2 DEF Claim, ClaimFails, Cache, DeleteKey, DeleteFails
    <2>4. ASSUME NEW k \in Key, Expire(k) PROVE Kept
      BY <2>4 DEF Expire, IInv, TypeOK
    <2>5. ASSUME UNCHANGED store PROVE Kept
      BY <2>5
    <2> HIDE DEF Kept
    <2>6. ASSUME NEW r \in Request,
                 \/ \E k \in Key \cup {NoKey}, b \in Body : Arrive(r, k, b)
                 \/ Look(r) \/ LookFails(r) \/ Refused(r) \/ Replay(r) \/ Create(r) \/ Fails(r)
                 \/ Commit(r) \/ Crash(r)
          PROVE  UNCHANGED store
      BY <2>6 DEF Arrive, Look, LookFails, Refused, Replay, Create, Fails, Raise, Commit, Crash
    <2> QED  BY <2>1, <2>3, <2>4, <2>5, <2>6 DEF Next, Step, CommitUnanswered, CacheFails, LoseKeys
  <1> QED  BY <1>1, <1>2, InitIInv, PTL DEF Spec, ResponseStays

-----------------------------------------------------------------------------
(* Answers, whatever fails *)

\* The journal holds t, with the key and body of q.
Names(t, q) == t \in DOMAIN journal /\ journal[t] = q

\* The transaction a request has committed, has found or has answered with is its own.
RequestSound(r) ==
  /\ pc[r] \in {"idle", "claim", "look"} => ctx[r] = NoContext
  /\ pc[r] \in {"claim", "look"} => KeyOf(r) \in Key
  /\ pc[r] = "commit" =>
       /\ ctx[r].tx \in TxId \ DOMAIN journal
       /\ \A q \in Request \ {r} : pc[q] = "commit" => ctx[q].tx # ctx[r].tx
  /\ pc[r] = "cache" => Names(ctx[r].tx, req[r])
  /\ pc[r] = "admit" /\ ctx[r].kind = "replay" => Names(ctx[r].tx, req[r])
  /\ resp[r].code \in {200, 201} => Names(resp[r].tx, req[r])

StoredSound(k) ==
  store[k].state = "response" =>
    Names(store[k].tx, [key |-> k, body |-> store[k].fingerprint])

AnswersInv ==
  /\ TypeOK
  /\ \A r \in Request : RequestSound(r)
  /\ \A k \in Key : StoredSound(k)

LEMMA InitAnswersInv == Init => AnswersInv
  <1> SUFFICES ASSUME Init PROVE AnswersInv
    OBVIOUS
  <1>1. TypeOK
    BY InitIInv DEF IInv
  <1>2. \A r \in Request : RequestSound(r)
    BY DEF Init, RequestSound, NoAnswer, Answer
  <1>3. \A k \in Key : StoredSound(k)
    BY DEF Init, StoredSound, Absent
  <1> QED  BY <1>1, <1>2, <1>3 DEF AnswersInv

(* A step of r that commits nothing: what is to be shown of r and of what  *)
(* it writes.                                                              *)
LEMMA AnswerStep ==
  ASSUME AnswersInv, TypeOK', NEW r \in Request, UNCHANGED journal,
         \A q \in Request \ {r} :
           pc'[q] = pc[q] /\ req'[q] = req[q] /\ ctx'[q] = ctx[q] /\ resp'[q] = resp[q],
         pc'[r] = "commit" => \A q \in Request \ {r} : ctx[q].tx # ctx'[r].tx,
         RequestSound(r)',
         \A k \in Key : store'[k] = store[k] \/ StoredSound(k)'
  PROVE  AnswersInv'
  <1>1. \A q \in Request \ {r} : RequestSound(q)'
    BY DEF AnswersInv, RequestSound, KeyOf, Names
  <1>2. \A k \in Key : StoredSound(k)'
    BY DEF AnswersInv, StoredSound, Names
  <1> QED  BY <1>1, <1>2 DEF AnswersInv

(* The end of a request: the answer is a refusal or names its transaction. *)
LEMMA AnswerEnd ==
  ASSUME AnswersInv, NEW r \in Request, NEW answer \in Answers, Finish(r, answer),
         UNCHANGED <<journal, expired, req>>, faults' \in 0 .. MaxFaults,
         store' \in [Key -> Stored],
         answer.code \in {200, 201} => Names(answer.tx, req[r]),
         \A k \in Key : store'[k] = store[k] \/ StoredSound(k)'
  PROVE  AnswersInv'
  <1>1. NoContext \in Context
    BY DEF NoContext, Context
  <1>2. TypeOK'
    BY <1>1 DEF AnswersInv, TypeOK, Finish, Goto, Answers
  <1>3. /\ pc'[r] = "idle" /\ ctx'[r] = NoContext /\ resp'[r] = answer
        /\ \A q \in Request \ {r} : pc'[q] = pc[q] /\ ctx'[q] = ctx[q] /\ resp'[q] = resp[q]
    BY DEF AnswersInv, TypeOK, Finish, Goto
  <1>4. RequestSound(r)'
    BY <1>3 DEF RequestSound, Names
  <1> QED  BY <1>2, <1>3, <1>4, AnswerStep

\* What a request may put under its key.
LEMMA PutSound ==
  ASSUME AnswersInv, NEW r \in Request, NEW v, Put(r, v), UNCHANGED journal,
         \/ v = Absent \/ v = Pending(req[r].body)
         \/ v = Response(req[r].body, ctx[r].tx) /\ Names(ctx[r].tx, req[r])
  PROVE  /\ store' \in [Key -> Stored]
         /\ \A k \in Key : store'[k] = store[k] \/ StoredSound(k)'
  <1>1. req[r] = [key |-> KeyOf(r), body |-> req[r].body] /\ req[r].body \in Body
    BY DEF AnswersInv, TypeOK, KeyOf
  <1>2. v \in Stored
    <2>1. Names(ctx[r].tx, req[r]) => ctx[r].tx \in TxId
      BY DEF Names, AnswersInv, TypeOK
    <2> QED  BY <1>1, <2>1 DEF Stored
  <1>3. \A k \in Key : store'[k] = IF k = KeyOf(r) THEN v ELSE store[k]
    BY DEF Put, AnswersInv, TypeOK
  <1>4. ASSUME NEW k \in Key PROVE store'[k] = store[k] \/ StoredSound(k)'
    BY <1>1, <1>3 DEF StoredSound, Absent, Pending, Response, Names
  <1> QED  BY <1>2, <1>4 DEF Put, AnswersInv, TypeOK

LEMMA ArriveAnswers ==
  ASSUME AnswersInv, NEW r \in Request, NEW k \in Key \cup {NoKey}, NEW b \in Body, Arrive(r, k, b)
  PROVE  AnswersInv'
  <1>1. /\ pc'[r] = (IF k = NoKey THEN "admit" ELSE "claim")
        /\ req'[r] = [key |-> k, body |-> b] /\ resp'[r] = NoAnswer
        /\ ctx' = ctx /\ ctx[r] = NoContext
        /\ \A q \in Request \ {r} : pc'[q] = pc[q] /\ req'[q] = req[q] /\ resp'[q] = resp[q]
    BY DEF Arrive, Goto, AnswersInv, TypeOK, RequestSound
  <1>2. TypeOK'
    BY DEF AnswersInv, TypeOK, Arrive, Goto, NoAnswer, Answer
  <1>3. RequestSound(r)'
    BY <1>1 DEF RequestSound, KeyOf, NoContext, NoAnswer, Answer
  <1> QED  BY <1>1, <1>2, <1>3, AnswerStep DEF Arrive

LEMMA ClaimAnswers ==
  ASSUME AnswersInv, NEW r \in Request, Claim(r)
  PROVE  AnswersInv'
  <1>1. KeyOf(r) \in Key /\ pc[r] = "claim" /\ ctx[r] = NoContext
    BY DEF Claim, AnswersInv, RequestSound
  <1>2. CASE store[KeyOf(r)] = Absent
    <2>1. /\ Put(r, Pending(req[r].body)) /\ ctx' = [ctx EXCEPT ![r].kind = "guard"]
          /\ pc' = [pc EXCEPT ![r] = "admit"]
          /\ UNCHANGED <<journal, expired, req, resp, faults>>
      BY <1>2 DEF Claim, Goto
    <2>2. [ctx[r] EXCEPT !.kind = "guard"] = [kind |-> "guard", tx |-> NoTx]
      BY <1>1 DEF NoContext
    <2>3. /\ pc'[r] = "admit" /\ ctx'[r].kind = "guard"
          /\ \A q \in Request \ {r} : pc'[q] = pc[q] /\ ctx'[q] = ctx[q]
          /\ ctx' \in [Request -> Context]
      BY <2>1, <2>2 DEF AnswersInv, TypeOK, Context
    <2>4. /\ store' \in [Key -> Stored]
          /\ \A k \in Key : store'[k] = store[k] \/ StoredSound(k)'
      BY <2>1, PutSound
    <2>5. TypeOK'
      BY <2>1, <2>3, <2>4 DEF AnswersInv, TypeOK
    <2>6. RequestSound(r)'
      BY <2>1, <2>3 DEF AnswersInv, RequestSound, Names
    <2> QED  BY <2>1, <2>3, <2>4, <2>5, <2>6, AnswerStep
  <1>3. CASE store[KeyOf(r)] # Absent
    <2>1. pc' = [pc EXCEPT ![r] = "look"] /\ UNCHANGED <<store, journal, expired, req, ctx, resp, faults>>
      BY <1>3 DEF Claim, Goto
    <2>2. pc'[r] = "look" /\ \A q \in Request \ {r} : pc'[q] = pc[q]
      BY <2>1 DEF AnswersInv, TypeOK
    <2>3. TypeOK'
      BY <2>1 DEF AnswersInv, TypeOK
    <2>4. RequestSound(r)'
      BY <1>1, <2>1, <2>2 DEF AnswersInv, RequestSound, KeyOf, Names
    <2> QED  BY <2>1, <2>2, <2>3, <2>4, AnswerStep
  <1> QED  BY <1>2, <1>3

LEMMA LookAnswers ==
  ASSUME AnswersInv, NEW r \in Request, Look(r)
  PROVE  AnswersInv'
  <1> DEFINE found == store[KeyOf(r)]
             replay == [kind |-> "replay", tx |-> found.tx]
  <1>1. KeyOf(r) \in Key /\ found \in Stored
    BY DEF Look, AnswersInv, TypeOK, RequestSound
  <1>2. CASE found.state = "response" /\ found.fingerprint = req[r].body
    <2>1. Names(found.tx, req[r])
      <3>1. Names(found.tx, [key |-> KeyOf(r), body |-> req[r].body])
        BY <1>1, <1>2 DEF AnswersInv, StoredSound
      <3>2. req[r] = [key |-> KeyOf(r), body |-> req[r].body]
        BY DEF AnswersInv, TypeOK, KeyOf
      <3> QED  BY <3>1, <3>2
    <2>2. /\ pc' = [pc EXCEPT ![r] = "admit"] /\ ctx' = [ctx EXCEPT ![r] = replay]
          /\ UNCHANGED <<store, journal, expired, req, faults, resp>>
      BY <1>2 DEF Look, Goto
    <2> HIDE DEF found
    <2>3. replay \in Context
      BY <2>1 DEF Context, Names, AnswersInv, TypeOK
    <2>4. TypeOK'
      BY <2>2, <2>3 DEF AnswersInv, TypeOK
    <2>5. /\ pc'[r] = "admit" /\ ctx'[r] = replay
          /\ \A q \in Request \ {r} : pc'[q] = pc[q] /\ ctx'[q] = ctx[q]
      BY <2>2 DEF AnswersInv, TypeOK
    <2>6. RequestSound(r)'
      BY <2>1, <2>2, <2>5 DEF AnswersInv, RequestSound, Names
    <2> QED  BY <2>2, <2>4, <2>5, <2>6, AnswerStep
  <1>3. CASE ~ (found.state = "response" /\ found.fingerprint = req[r].body)
    <2>1. /\ Finish(r, Answer(Duplicate(found, req[r].body), NoTx))
          /\ UNCHANGED <<store, journal, expired, req, faults>>
      BY <1>3 DEF Look
    <2>2. /\ Answer(Duplicate(found, req[r].body), NoTx) \in Answers
          /\ Answer(Duplicate(found, req[r].body), NoTx).code \notin {200, 201}
      BY DEF Answer, Duplicate, Answers
    <2> QED  BY <2>1, <2>2, AnswerEnd DEF AnswersInv, TypeOK
  <1> QED  BY <1>2, <1>3

LEMMA CreateAnswers ==
  ASSUME AnswersInv, NEW r \in Request, Create(r)
  PROVE  AnswersInv'
  <1>1. PICK t \in Fresh : ctx' = [ctx EXCEPT ![r].tx = t]
    BY DEF Create
  <1>2. t \in TxId \ DOMAIN journal /\ \A q \in Request : ctx[q].tx # t
    BY DEF Fresh
  <1>3. pc' = [pc EXCEPT ![r] = "commit"] /\ UNCHANGED <<store, journal, expired, req, resp, faults>>
    BY DEF Create, Goto
  <1>4. /\ pc'[r] = "commit" /\ ctx'[r].tx = t
        /\ \A q \in Request \ {r} : pc'[q] = pc[q] /\ ctx'[q] = ctx[q]
        /\ ctx' \in [Request -> Context]
    <2>1. pc \in [Request -> {"idle", "claim", "look", "admit", "commit", "cache", "delete"}]
          /\ ctx \in [Request -> Context]
      BY DEF AnswersInv, TypeOK
    <2>2. [ctx[r] EXCEPT !.tx = t] \in Context /\ [ctx[r] EXCEPT !.tx = t].tx = t
      BY <1>2, <2>1 DEF Context
    <2> QED  BY <1>1, <1>3, <2>1, <2>2
  <1>5. TypeOK'
    BY <1>3, <1>4 DEF AnswersInv, TypeOK
  <1>6. RequestSound(r)'
    BY <1>2, <1>3, <1>4 DEF AnswersInv, RequestSound, Names
  <1> QED  BY <1>2, <1>3, <1>4, <1>5, <1>6, AnswerStep

\* An exception on its way to the generator.
LEMMA RaiseAnswers ==
  ASSUME AnswersInv, NEW r \in Request, Goto(r, "delete"), ctx' = ctx, resp' = resp,
         UNCHANGED <<journal, expired, req>>, faults' \in 0 .. MaxFaults,
         store' \in [Key -> Stored],
         \A k \in Key : store'[k] = store[k] \/ StoredSound(k)'
  PROVE  AnswersInv'
  <1>1. TypeOK'
    BY DEF AnswersInv, TypeOK, Goto
  <1>2. pc'[r] = "delete" /\ \A q \in Request \ {r} : pc'[q] = pc[q]
    BY DEF AnswersInv, TypeOK, Goto
  <1>3. RequestSound(r)'
    BY <1>2 DEF AnswersInv, RequestSound, Names
  <1> QED  BY <1>1, <1>2, <1>3, AnswerStep

(* The COMMIT, answered or not: the new transaction is the request's own   *)
(* and nobody else's.                                                      *)
LEMMA RecordAnswers ==
  ASSUME AnswersInv, NEW r \in Request, pc[r] = "commit", Record(r),
         TypeOK', UNCHANGED <<store, req>>, ctx'[r] = ctx[r] \/ ctx'[r] = NoContext,
         \A q \in Request \ {r} : pc'[q] = pc[q] /\ ctx'[q] = ctx[q] /\ resp'[q] = resp[q],
         \/ pc'[r] = "cache" /\ ctx'[r] = ctx[r] /\ resp'[r] = resp[r]
         \/ pc'[r] = "delete" /\ resp'[r] = resp[r]
         \/ pc'[r] = "idle" /\ ctx'[r] = NoContext /\ resp'[r].code = 500
  PROVE  AnswersInv'
  <1> DEFINE t == ctx[r].tx
  <1>1. t \in TxId \ DOMAIN journal
    BY DEF AnswersInv, RequestSound
  <1>2. /\ DOMAIN journal' = DOMAIN journal \cup {t} /\ journal'[t] = req[r]
        /\ \A u \in DOMAIN journal : journal'[u] = journal[u]
    BY <1>1 DEF Record
  <1>3. \A u, q : Names(u, q) => Names(u, q)'
    BY <1>2 DEF Names
  <1>4. pc'[r] = "cache" => Names(ctx[r].tx, req[r])'
    BY <1>2 DEF Names
  <1>5. ASSUME NEW q \in Request \ {r} PROVE RequestSound(q)'
    <2>1. RequestSound(q) /\ (pc[q] = "commit" => ctx[q].tx # t)
      BY DEF AnswersInv, RequestSound
    <2> HIDE DEF t
    <2> QED  BY <1>2, <1>3, <2>1 DEF RequestSound, KeyOf
  <1>6. RequestSound(r)'
    BY <1>3, <1>4 DEF AnswersInv, RequestSound
  <1>7. \A k \in Key : StoredSound(k)'
    BY <1>3 DEF AnswersInv, StoredSound
  <1> QED  BY <1>5, <1>6, <1>7 DEF AnswersInv

LEMMA CommitAnswers ==
  ASSUME AnswersInv, NEW r \in Request, Commit(r) \/ CommitUnanswered(r)
  PROVE  AnswersInv'
  <1>1. /\ pc[r] = "commit" /\ Record(r) /\ UNCHANGED <<expired, req, store>>
        /\ faults' \in 0 .. MaxFaults
    BY DEF Commit, CommitUnanswered, Raise, Fault, AnswersInv, TypeOK
  <1>2. /\ DOMAIN journal' \subseteq TxId
        /\ \A t \in DOMAIN journal' : journal'[t] \in [key : Key \cup {NoKey}, body : Body]
        /\ DOMAIN journal \subseteq DOMAIN journal'
    BY <1>1 DEF Record, AnswersInv, TypeOK, RequestSound
  <1>3. CASE \/ Goto(r, "cache") /\ UNCHANGED <<ctx, resp>>
             \/ Goto(r, "delete") /\ UNCHANGED <<ctx, resp>>
    <2>1. TypeOK'
      BY <1>1, <1>2, <1>3 DEF AnswersInv, TypeOK, Goto
    <2>2. pc'[r] \in {"cache", "delete"} /\ \A q \in Request \ {r} : pc'[q] = pc[q]
      BY <1>3 DEF AnswersInv, TypeOK, Goto
    <2> QED  BY <1>1, <1>3, <2>1, <2>2, RecordAnswers
  <1>4. CASE Finish(r, Answer(500, NoTx))
    <2>1. NoContext \in Context
      BY DEF NoContext, Context
    <2>2. TypeOK'
      BY <1>1, <1>2, <1>4, <2>1 DEF AnswersInv, TypeOK, Finish, Goto, Answer
    <2>3. /\ pc'[r] = "idle" /\ ctx'[r] = NoContext /\ resp'[r].code = 500
          /\ \A q \in Request \ {r} : pc'[q] = pc[q] /\ ctx'[q] = ctx[q] /\ resp'[q] = resp[q]
      BY <1>4 DEF AnswersInv, TypeOK, Finish, Goto, Answer
    <2> QED  BY <1>1, <2>2, <2>3, RecordAnswers
  <1> QED  BY <1>3, <1>4 DEF Commit, CommitUnanswered, Raise

LEMMA NextAnswersInv == AnswersInv /\ [Next]_vars => AnswersInv'
  <1> SUFFICES ASSUME AnswersInv, [Next]_vars PROVE AnswersInv'
    OBVIOUS
  <1>1. store \in [Key -> Stored] /\ faults \in 0 .. MaxFaults
    BY DEF AnswersInv, TypeOK
  <1>2. ASSUME NEW r \in Request, Step(r) PROVE AnswersInv'
    <2>1. ASSUME NEW answer \in Answers, Finish(r, answer), UNCHANGED <<journal, expired, req>>,
                 faults' \in 0 .. MaxFaults,
                 answer.code \in {200, 201} => Names(answer.tx, req[r]),
                 \/ UNCHANGED store \/ Put(r, Absent) \/ Put(r, Pending(req[r].body))
                 \/ Put(r, Response(req[r].body, ctx[r].tx)) /\ Names(ctx[r].tx, req[r])
          PROVE  AnswersInv'
      BY <1>1, <2>1, PutSound, AnswerEnd
    <2>2. CASE ClaimFails(r) \/ LookFails(r) \/ DeleteFails(r)
      <3>1. Answer(500, NoTx) \in Answers /\ Answer(500, NoTx).code = 500
        BY DEF Answer, Answers
      <3>2. /\ Finish(r, Answer(500, NoTx)) /\ UNCHANGED <<journal, expired, req>>
            /\ faults' \in 0 .. MaxFaults
            /\ UNCHANGED store \/ Put(r, Absent) \/ Put(r, Pending(req[r].body))
        BY <1>1, <2>2 DEF ClaimFails, LookFails, DeleteFails, Fault
      <3> QED  BY <2>1, <3>1, <3>2
    <2>3. CASE Replay(r) \/ Cache(r)
      <3>1. Names(ctx[r].tx, req[r])
        BY <2>3 DEF Replay, Cache, AnswersInv, RequestSound
      <3>2. PICK answer \in Answers : Finish(r, answer) /\ answer.tx = ctx[r].tx
        <4>1. ctx[r].tx \in TxId \cup {NoTx}
          BY DEF AnswersInv, TypeOK, Context
        <4>2. /\ Answer(200, ctx[r].tx) \in Answers /\ Answer(200, ctx[r].tx).tx = ctx[r].tx
              /\ Answer(201, ctx[r].tx) \in Answers /\ Answer(201, ctx[r].tx).tx = ctx[r].tx
          BY <4>1 DEF Answer, Answers
        <4> QED  BY <2>3, <4>2 DEF Replay, Cache
      <3>3. /\ UNCHANGED <<journal, expired, req, faults>>
            /\ UNCHANGED store \/ Put(r, Response(req[r].body, ctx[r].tx))
        BY <2>3 DEF Replay, Cache
      <3> QED  BY <1>1, <2>1, <3>1, <3>2, <3>3
    <2>4. CASE DeleteKey(r)
      <3>1. Answer(422, NoTx) \in Answers /\ Answer(422, NoTx).code = 422
        BY DEF Answer, Answers
      <3> QED  BY <1>1, <2>1, <2>4, <3>1 DEF DeleteKey
    <2>5. CASE Refused(r) \/ Fails(r)
      <3>1. UNCHANGED <<store, journal, expired, req, faults>>
        BY <2>5 DEF Refused, Fails, Raise
      <3>2. CASE Raise(r)
        BY <1>1, <3>1, <3>2, RaiseAnswers DEF Raise
      <3>3. ASSUME NEW code \in {401, 422}, Finish(r, Answer(code, NoTx)) PROVE AnswersInv'
        <4>1. Answer(code, NoTx) \in Answers /\ Answer(code, NoTx).code \notin {200, 201}
          BY DEF Answer, Answers
        <4> QED  BY <1>1, <2>1, <3>1, <3>3, <4>1
      <3> QED  BY <2>5, <3>2, <3>3 DEF Refused, Fails
    <2>6. CASE CacheFails(r)
      <3>1. Names(ctx[r].tx, req[r])
        BY <2>6 DEF CacheFails, AnswersInv, RequestSound
      <3>2. /\ Goto(r, "delete") /\ ctx' = ctx /\ resp' = resp
            /\ UNCHANGED <<journal, expired, req>> /\ faults' \in 0 .. MaxFaults
            /\ UNCHANGED store \/ Put(r, Response(req[r].body, ctx[r].tx))
        BY <1>1, <2>6 DEF CacheFails, Fault
      <3> QED  BY <1>1, <3>1, <3>2, PutSound, RaiseAnswers
    <2> QED  BY <1>2, <2>2, <2>3, <2>4, <2>5, <2>6, ClaimAnswers, LookAnswers, CreateAnswers,
                CommitAnswers DEF Step
  <1>3. ASSUME NEW r \in Request, Crash(r) PROVE AnswersInv'
    <2>1. NoAnswer \in Answers /\ NoAnswer.code = 0
      BY DEF NoAnswer, Answer, Answers
    <2>2. Finish(r, NoAnswer) /\ UNCHANGED <<store, journal, expired, req>> /\ faults' \in 0 .. MaxFaults
      BY <1>1, <1>3 DEF Crash, Fault
    <2> QED  BY <1>1, <2>1, <2>2, AnswerEnd
  <1>4. ASSUME UNCHANGED <<journal, pc, req, ctx, resp>>, faults' \in 0 .. MaxFaults,
               expired' \subseteq DOMAIN journal, store' \in [Key -> Stored],
               \A k \in Key : store'[k] \in {store[k], Absent}
        PROVE  AnswersInv'
    <2>1. TypeOK'
      BY <1>4 DEF AnswersInv, TypeOK
    <2>2. \A r \in Request : RequestSound(r)'
      BY <1>4 DEF AnswersInv, RequestSound, KeyOf, Names
    <2>3. \A k \in Key : StoredSound(k)'
      BY <1>4 DEF AnswersInv, StoredSound, Names, Absent
    <2> QED  BY <2>1, <2>2, <2>3 DEF AnswersInv
  <1>5. ASSUME NEW k \in Key, Expire(k) PROVE AnswersInv'
    <2>1. expired' \subseteq DOMAIN journal
      BY <1>5 DEF Expire, OfKey, AnswersInv, TypeOK
    <2> QED  BY <1>1, <1>4, <1>5, <2>1 DEF Expire, Stored
  <1>6. CASE LoseKeys
    <2>1. expired \subseteq DOMAIN journal
      BY DEF AnswersInv, TypeOK
    <2> QED  BY <1>1, <1>4, <1>6, <2>1 DEF LoseKeys, Stored, Fault
  <1>7. CASE UNCHANGED vars
    <2>1. expired \subseteq DOMAIN journal
      BY DEF AnswersInv, TypeOK
    <2> QED  BY <1>1, <1>4, <1>7, <2>1 DEF vars
  <1> QED  BY <1>2, <1>3, <1>5, <1>6, <1>7, ArriveAnswers DEF Next

(* Whatever fails, a COMMIT without an answer and the loss of every key    *)
(* included, a 201 and a replayed 200 name a committed transaction that    *)
(* came with the request's own key and body (check_idempotency compares    *)
(* the fingerprints, post_transaction caches its own response).            *)
THEOREM IdempotencyAnswersTrue == Spec => []AnswersTrue
  <1>1. AnswersInv => AnswersTrue
    BY DEF AnswersInv, AnswersTrue, RequestSound, StoredSound, Names
  <1> QED  BY <1>1, InitAnswersInv, NextAnswersInv, PTL DEF Spec

LEMMA AnswersInvariant == Spec => []AnswersInv
  BY InitAnswersInv, NextAnswersInv, PTL DEF Spec

(* Type correctness, under every fault.                                    *)
THEOREM IdempotencyTypeOK == Spec => []TypeOK
  <1>1. AnswersInv => TypeOK
    BY DEF AnswersInv
  <1> QED  BY <1>1, InitAnswersInv, NextAnswersInv, PTL DEF Spec

-----------------------------------------------------------------------------
(* Retries after a failure *)

(* As long as nothing has failed, a step that takes the guard from a key   *)
(* takes its pending mark as well.                                         *)
LEMMA PendingStep == AnswersInv /\ PendingIsGuarded /\ [Next]_vars => PendingIsGuarded'
  <1> SUFFICES ASSUME AnswersInv, PendingIsGuarded, [Next]_vars, faults' = 0,
                      NEW k \in Key, store'[k].state = "pending"
               PROVE  \E r \in Request : Guards(r, k)'
    BY DEF PendingIsGuarded
  <1>1. /\ DOMAIN store = Key /\ DOMAIN pc = Request /\ DOMAIN req = Request
        /\ DOMAIN ctx = Request /\ faults \in Nat
    BY DEF AnswersInv, TypeOK
  <1>2. \A kind : ~ Fault(kind)
    BY <1>1 DEF Fault
  <1>3. ASSUME NEW r \in Request
        PROVE  pc[r] \in {"idle", "claim", "look"} => ctx[r].kind # "guard"
    BY DEF AnswersInv, RequestSound, NoContext
  <1>4. ASSUME faults = 0, store'[k] = store[k],
               \A r \in Request : Guards(r, k) => Guards(r, k)'
        PROVE  \E r \in Request : Guards(r, k)'
    BY <1>4 DEF PendingIsGuarded
  \* The request ends and was not the one that holds k.
  <1>5. ASSUME NEW r \in Request, NEW answer, Finish(r, answer), ~ Guards(r, k),
               faults = 0, store'[k] = store[k], req' = req
        PROVE  \E q \in Request : Guards(q, k)'
    <2>1. \A q \in Request \ {r} : pc'[q] = pc[q] /\ ctx'[q] = ctx[q]
      BY <1>1, <1>5 DEF Finish, Goto
    <2> QED  BY <1>4, <1>5, <2>1 DEF Guards, KeyOf
  <1>6. ASSUME NEW r \in Request, NEW c \in Key \cup {NoKey}, NEW b \in Body, Arrive(r, c, b)
        PROVE  \E q \in Request : Guards(q, k)'
    <2>1. /\ pc[r] = "idle" /\ store' = store /\ ctx' = ctx /\ faults = 0
          /\ \A q \in Request \ {r} : pc'[q] = pc[q] /\ req'[q] = req[q]
      BY <1>1, <1>6 DEF Arrive, Goto
    <2> QED  BY <1>4, <2>1 DEF Guards, KeyOf
  <1>7. ASSUME NEW r \in Request, Claim(r) PROVE \E q \in Request : Guards(q, k)'
    <2>1. pc[r] = "claim" /\ req' = req /\ faults = 0
      BY <1>7 DEF Claim
    <2>2. CASE store[KeyOf(r)] = Absent /\ KeyOf(r) = k
      <3>1. pc'[r] = "admit" /\ ctx'[r].kind = "guard"
        BY <1>1, <1>7, <2>2 DEF Claim, Goto, AnswersInv, TypeOK, Context
      <3> QED  BY <2>1, <2>2, <3>1 DEF Guards, KeyOf
    <2>3. CASE store[KeyOf(r)] = Absent /\ KeyOf(r) # k
      <3>1. /\ store'[k] = store[k]
            /\ \A q \in Request \ {r} : pc'[q] = pc[q] /\ ctx'[q] = ctx[q]
        BY <1>1, <1>7, <2>3 DEF Claim, Goto, Put
      <3>2. ~ Guards(r, k)
        BY <2>3 DEF Guards
      <3> QED  BY <1>4, <2>1, <3>1, <3>2 DEF Guards, KeyOf
    <2>4. CASE store[KeyOf(r)] # Absent
      <3>1. store' = store /\ ctx' = ctx /\ pc' = [pc EXCEPT ![r] = "look"]
        BY <1>7, <2>4 DEF Claim, Goto
      <3> QED  BY <1>1, <1>4, <2>1, <3>1 DEF Guards, KeyOf
    <2> QED  BY <2>2, <2>3, <2>4
  <1>8. ASSUME NEW r \in Request, Look(r) PROVE \E q \in Request : Guards(q, k)'
    <2>1. /\ pc[r] = "look" /\ store' = store /\ req' = req /\ faults = 0
          /\ \A q \in Request \ {r} : pc'[q] = pc[q] /\ ctx'[q] = ctx[q]
      BY <1>1, <1>8 DEF Look, Finish, Goto
    <2>2. ~ Guards(r, k)
      BY <1>3, <2>1 DEF Guards
    <2> QED  BY <1>4, <2>1, <2>2 DEF Guards, KeyOf
  <1>9. ASSUME NEW r \in Request, Refused(r) \/ Fails(r)
        PROVE  \E q \in Request : Guards(q, k)'
    <2>1. /\ pc[r] \in {"admit", "commit"} /\ req' = req /\ faults = 0 /\ store' = store
      BY <1>9 DEF Refused, Fails, Raise
    <2>2. CASE ctx[r].kind = "guard"
      <3>1. pc' = [pc EXCEPT ![r] = "delete"] /\ ctx' = ctx
        BY <1>9, <2>2 DEF Refused, Fails, Raise, Goto
      <3> QED  BY <1>1, <1>4, <2>1, <3>1 DEF Guards, KeyOf
    <2>3. CASE ctx[r].kind # "guard"
      <3>1. PICK answer : Finish(r, answer)
        BY <1>9, <2>3 DEF Refused, Fails
      <3>2. ~ Guards(r, k)
        BY <2>3 DEF Guards
      <3> QED  BY <1>5, <2>1, <3>1, <3>2
    <2> QED  BY <2>2, <2>3
  <1>10. ASSUME NEW r \in Request, Replay(r) PROVE \E q \in Request : Guards(q, k)'
    <2>1. ~ Guards(r, k) /\ store' = store /\ req' = req /\ faults = 0
      BY <1>10 DEF Replay, Guards
    <2> QED  BY <1>5, <1>10, <2>1 DEF Replay
  <1>11. ASSUME NEW r \in Request, Create(r) PROVE \E q \in Request : Guards(q, k)'
    <2>1. PICK t \in Fresh : ctx' = [ctx EXCEPT ![r].tx = t]
      BY <1>11 DEF Create
    <2>2. /\ pc' = [pc EXCEPT ![r] = "commit"] /\ pc[r] # "idle"
          /\ store' = store /\ req' = req /\ faults = 0
      BY <1>11 DEF Create, Goto
    <2>3. \A q \in Request : ctx'[q].kind = ctx[q].kind
      BY <2>1 DEF AnswersInv, TypeOK, Context
    <2> QED  BY <1>1, <1>4, <2>2, <2>3 DEF Guards, KeyOf
  <1>12. ASSUME NEW r \in Request, Commit(r) PROVE \E q \in Request : Guards(q, k)'
    <2>1. /\ pc' = [pc EXCEPT ![r] = "cache"] /\ ctx' = ctx /\ store' = store
          /\ req' = req /\ faults = 0
      BY <1>12 DEF Commit, Goto
    <2> QED  BY <1>1, <1>4, <2>1 DEF Guards, KeyOf
  \* The end of a request that replaces or deletes what its key holds.
  <1>13. ASSUME NEW r \in Request, Cache(r) \/ DeleteKey(r)
         PROVE  \E q \in Request : Guards(q, k)'
    <2>1. PICK answer : Finish(r, answer)
      BY <1>13 DEF Cache, DeleteKey
    <2>2. req' = req /\ faults = 0
      BY <1>13 DEF Cache, DeleteKey
    <2>3. CASE KeyOf(r) = k /\ (ctx[r].kind = "guard" \/ DeleteKey(r))
      <3>1. store'[k] = Absent \/ store'[k] = Response(req[r].body, ctx[r].tx)
        BY <1>1, <1>13, <2>3 DEF Cache, DeleteKey, Put
      <3> QED  BY <3>1 DEF Absent, Response
    <2>4. CASE ~ (KeyOf(r) = k /\ (ctx[r].kind = "guard" \/ DeleteKey(r)))
      <3>1. store'[k] = store[k]
        BY <1>1, <1>13, <2>4 DEF Cache, DeleteKey, Put
      <3>2. ~ Guards(r, k)
        BY <2>4 DEF Guards
      <3> QED  BY <1>5, <2>1, <2>2, <3>1, <3>2
    <2> QED  BY <2>3, <2>4
  <1>14. ASSUME NEW c \in Key, Expire(c) PROVE \E q \in Request : Guards(q, k)'
    <2>1. /\ store' = [store EXCEPT ![c] = Absent] /\ faults = 0
          /\ pc' = pc /\ ctx' = ctx /\ req' = req
      BY <1>14 DEF Expire
    <2>2. k # c
      BY <1>1, <2>1 DEF Absent
    <2> QED  BY <1>1, <1>4, <2>1, <2>2 DEF Guards, KeyOf
  <1>15. CASE UNCHANGED vars
    <2>1. store' = store /\ pc' = pc /\ ctx' = ctx /\ req' = req /\ faults = 0
      BY <1>15 DEF vars
    <2> QED  BY <1>4, <2>1 DEF Guards, KeyOf
  <1>16. CASE Next
    <2>1. ASSUME NEW r \in Request, Step(r) PROVE \E q \in Request : Guards(q, k)'
      BY <1>2, <1>7, <1>8, <1>9, <1>10, <1>11, <1>12, <1>13, <2>1
         DEF Step, ClaimFails, LookFails, CommitUnanswered, CacheFails, DeleteFails
    <2> QED  BY <1>2, <1>6, <1>14, <1>16, <2>1 DEF Next, Crash, LoseKeys
  <1> QED  BY <1>15, <1>16

(* A request that failed may be retried at once: until something breaks, a *)
(* pending key belongs to a request that is past the gate, so no mark      *)
(* outlives its request (docs/adr/001).  No assumption on the faults: the  *)
(* property speaks of the time before the first.                           *)
THEOREM IdempotencyPendingIsGuarded == Spec => []PendingIsGuarded
  <1>1. Init => PendingIsGuarded
    BY DEF Init, PendingIsGuarded, Absent
  <1> QED  BY <1>1, InitAnswersInv, NextAnswersInv, PendingStep, PTL DEF Spec
=============================================================================
