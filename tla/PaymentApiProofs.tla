-------------------------- MODULE PaymentApiProofs --------------------------
(***************************************************************************)
(* The two endpoints are, to the gate, requests of the gate and, to the    *)
(* ledger, sessions of the ledger: each step of PaymentApi is a step of    *)
(* either component or leaves it alone.  What is proved of the two by      *)
(* themselves therefore holds of them together.                            *)
(***************************************************************************)
EXTENDS PaymentApi, LedgerProofs, FiniteSetTheorems

GateProofs == INSTANCE IdempotencyProofs WITH
  Request <- Poster, Body <- Payloads, Faults <- {"crash"}, MaxFaults <- Cardinality(Session),
  pc <- gate, req <- ask, resp <- reply, faults <- cuts

USE PaymentApiAssumption, NoTxAssumption

-----------------------------------------------------------------------------
\* What readers do, and the TTL of a balance.
Reads ==
  \/ \E r \in Reader : EndReading(r) \/ \E k \in Watched : ComputeBalance(r, k)
  \/ \E k \in Watched : ExpireBalance(k)

LEMMA ReadsApart == Reads => UNCHANGED <<vars, gateVars, sweep, gone>>
  BY DEF Reads, EndReading, ComputeBalance, ExpireBalance

LEMMA SweepApart ==
  ASSUME NEW s, Invalidate(s)
  PROVE  UNCHANGED <<vars, gateVars, reading, gone>> /\ \E left : Goes(s, left)
  BY DEF Invalidate, SweepAccount, Scan, DeleteFound, SweepFails, Abandon

LEMMA StepsOfTheGate == [ApiNext]_apiVars => [Idem!Next]_(Idem!vars)
  <1> SUFFICES ASSUME ApiNext PROVE Idem!Next \/ UNCHANGED gateVars
    BY DEF apiVars, gateVars, Idem!vars
  <1>1. ASSUME NEW s \in Session, NEW k \in Key \cup {NoKey}, NEW p \in Payloads,
               PostArrives(s, k, p)
        PROVE  Idem!Next
    BY <1>1 DEF PostArrives, Idem!Next
  <1>2. ASSUME NEW s \in Session, NEW t \in TxId, VoidArrives(s, t) PROVE UNCHANGED gateVars
    BY <1>2 DEF VoidArrives
  <1>3. ASSUME NEW s \in Session, ApiStep(s) PROVE Idem!Next \/ UNCHANGED gateVars
    <2>1. CASE VoidWorks(s) \/ VoidCommits(s) \/ Invalidate(s) \/ Serve(s) \/ Resolve(s)
      BY <2>1, SweepApart DEF VoidWorks, VoidCommits, Serve, Resolve
    <2>2. CASE s \in Poster /\ Idem!Step(s)
      BY <2>2 DEF Idem!Next
    <2>3. ASSUME s \in Poster,
                 \/ PassGate(s) \/ PayloadRejected(s) \/ Insert(s) \/ PostFails(s)
                 \/ PostCommits(s) \/ Respond(s)
          PROVE  Idem!Step(s)
      BY <2>3 DEF PassGate, PayloadRejected, Insert, PostFails, PostCommits, Respond, Idem!Step
    <2> QED  BY <1>3, <2>1, <2>2, <2>3 DEF ApiStep
  <1>4. ASSUME NEW s \in Session, ApiCut(s) PROVE Idem!Next \/ UNCHANGED gateVars
    BY <1>4 DEF ApiCut, Gated, Idem!Next
  <1>5. ASSUME NEW k \in Key, Idem!Expire(k) PROVE Idem!Next
    BY <1>5 DEF Idem!Next
  <1> QED  BY <1>1, <1>2, <1>3, <1>4, <1>5, ReadsApart DEF ApiNext, Reads

(* What a client experiences of its Idempotency-Key through the endpoint is*)
(* what the gate promises: post_transaction commits, fails, is cut and     *)
(* answers in the order check_idempotency relies on.                       *)
THEOREM ApiImplementsIdempotency == ApiSpec => ImplementsIdempotency
  <1>1. ApiInit => Idem!Init
    BY DEF ApiInit
  <1> QED  BY <1>1, StepsOfTheGate, PTL DEF ApiSpec, ImplementsIdempotency, Idem!Spec

-----------------------------------------------------------------------------
(* What is proved of the gate by itself *)

LEMMA GateAssumption == GateProofs!IdempotencyAssumption /\ GateProofs!NothingAfterCommit
  <1>1. Cardinality(Session) \in Nat
    BY FS_CardinalityType
  <1> QED  BY <1>1 DEF GateProofs!IdempotencyAssumption, GateProofs!NothingAfterCommit

LEMMA SameInit == Idem!Init => GateProofs!Init
  BY DEF Idem!Init, GateProofs!Init, Idem!Absent, GateProofs!Absent, Idem!NoContext,
         GateProofs!NoContext, Idem!NoAnswer, GateProofs!NoAnswer, Idem!Answer, GateProofs!Answer

LEMMA SameStep == \A r : Idem!Step(r) <=> GateProofs!Step(r)
  BY DEF Idem!Step, GateProofs!Step, Idem!Claim, GateProofs!Claim, Idem!ClaimFails,
         GateProofs!ClaimFails, Idem!Look, GateProofs!Look, Idem!LookFails,
         GateProofs!LookFails, Idem!Refused, GateProofs!Refused, Idem!Replay,
         GateProofs!Replay, Idem!Create, GateProofs!Create, Idem!Fails,
         GateProofs!Fails, Idem!Commit, GateProofs!Commit, Idem!CommitUnanswered,
         GateProofs!CommitUnanswered, Idem!Cache, GateProofs!Cache, Idem!CacheFails,
         GateProofs!CacheFails, Idem!DeleteKey, GateProofs!DeleteKey, Idem!DeleteFails,
         GateProofs!DeleteFails, Idem!Put, GateProofs!Put, Idem!Goto, GateProofs!Goto,
         Idem!Finish, GateProofs!Finish, Idem!Answer, GateProofs!Answer, Idem!NoAnswer,
         GateProofs!NoAnswer, Idem!KeyOf, GateProofs!KeyOf, Idem!Pending,
         GateProofs!Pending, Idem!Absent, GateProofs!Absent, Idem!NoContext,
         GateProofs!NoContext, Idem!Response, GateProofs!Response, Idem!Fault,
         GateProofs!Fault, Idem!Raise, GateProofs!Raise, Idem!Record, GateProofs!Record,
         Idem!Duplicate, GateProofs!Duplicate, Idem!Fresh, GateProofs!Fresh

LEMMA SameNext == [Idem!Next]_(Idem!vars) => [GateProofs!Next]_(GateProofs!vars)
  BY SameStep DEF Idem!Next, GateProofs!Next, Idem!vars, GateProofs!vars, Idem!Arrive,
         GateProofs!Arrive, Idem!Crash, GateProofs!Crash, Idem!Expire,
         GateProofs!Expire, Idem!LoseKeys, GateProofs!LoseKeys, Idem!Guards,
         GateProofs!Guards, Idem!OfKey, GateProofs!OfKey, Idem!Put, GateProofs!Put,
         Idem!Goto, GateProofs!Goto, Idem!Finish, GateProofs!Finish, Idem!Answer,
         GateProofs!Answer, Idem!NoAnswer, GateProofs!NoAnswer, Idem!KeyOf,
         GateProofs!KeyOf, Idem!Pending, GateProofs!Pending, Idem!Absent,
         GateProofs!Absent, Idem!NoContext, GateProofs!NoContext, Idem!Response,
         GateProofs!Response, Idem!Fault, GateProofs!Fault, Idem!Raise,
         GateProofs!Raise, Idem!Record, GateProofs!Record, Idem!Duplicate,
         GateProofs!Duplicate, Idem!Fresh, GateProofs!Fresh

LEMMA ThroughTheGate == ApiSpec => GateProofs!Spec
  <1>1. Idem!Spec => GateProofs!Spec
    BY SameInit, SameNext, PTL DEF Idem!Spec, GateProofs!Spec
  <1> QED  BY <1>1, ApiImplementsIdempotency, PTL DEF ImplementsIdempotency

(* Effectively once, of the endpoint as a whole: within the 24 hours of its*)
(* key a request leaves one transaction, whatever sessions of the ledger   *)
(* commit, wait or are cut in between (post_transaction).                  *)
THEOREM ApiPostedOnce == ApiSpec => []Idem!PostedOnce
  <1>1. GateProofs!Spec => []GateProofs!PostedOnce
    BY GateAssumption, GateProofs!IdempotencyPostedOnce
  <1>2. GateProofs!PostedOnce => Idem!PostedOnce
    BY DEF GateProofs!PostedOnce, Idem!PostedOnce
  <1> QED  BY <1>1, <1>2, ThroughTheGate, PTL

(* The body of a request past the gate is one of the payloads.             *)
LEMMA AskTyped == ApiSpec => []Idem!TypeOK
  <1>1. GateProofs!Spec => [](GateProofs!TypeOK /\ GateProofs!WindowSound)
    BY GateAssumption, GateProofs!IdempotencyWindowSound
  <1>2. GateProofs!TypeOK => Idem!TypeOK
    BY DEF Idem!TypeOK, GateProofs!TypeOK, Idem!Stored, GateProofs!Stored, Idem!Absent,
           GateProofs!Absent, Idem!Pending, GateProofs!Pending, Idem!Response,
           GateProofs!Response, Idem!Context, GateProofs!Context
  <1> QED  BY <1>1, <1>2, ThroughTheGate, PTL

-----------------------------------------------------------------------------
(* The sessions of the ledger *)

LEMMA StepsOfTheLedger == Idem!TypeOK /\ [ApiNext]_apiVars => [Next]_vars
  <1> SUFFICES ASSUME Idem!TypeOK, ApiNext PROVE Next \/ UNCHANGED vars
    BY DEF apiVars
  <1>1. ASSUME NEW s \in Poster PROVE s \in Session /\ ask[s].body \in Payloads
    BY DEF Idem!TypeOK
  <1>2. ASSUME NEW s \in Session, NEW k \in Key \cup {NoKey}, NEW p \in Payloads,
               PostArrives(s, k, p)
        PROVE  UNCHANGED vars
    BY <1>2 DEF PostArrives
  <1>3. ASSUME NEW s \in Session, NEW t \in TxId, VoidArrives(s, t) PROVE Next
    BY <1>3 DEF VoidArrives, Next
  <1>4. ASSUME NEW s \in Session, ApiStep(s) PROVE Next \/ UNCHANGED vars
    <2>1. CASE (s \in Poster /\ (PassGate(s) \/ Respond(s))) \/ Invalidate(s)
      BY <2>1, SweepApart DEF PassGate, Respond
    <2>2. CASE s \in Poster /\ (Serve(s) \/ PayloadRejected(s))
      BY <1>1, <2>2 DEF Serve, PayloadRejected, Next
    <2>3. CASE s \in Poster /\ PostFails(s)
      BY <2>3 DEF PostFails, Next
    <2>4. CASE \/ Resolve(s) \/ Insert(s) \/ PostCommits(s)
               \/ VoidWorks(s) \/ VoidCommits(s)
      BY <2>4 DEF Resolve, Insert, PostCommits, VoidWorks, VoidCommits, Step, Next
    <2> QED  BY <1>4, <2>1, <2>2, <2>3, <2>4 DEF ApiStep
  <1>5. ASSUME NEW s \in Session, ApiCut(s) PROVE Next \/ UNCHANGED vars
    BY <1>5 DEF ApiCut, Next
  <1> QED  BY <1>2, <1>3, <1>4, <1>5, ReadsApart DEF ApiNext, Reads

(* The endpoints only do to the ledger what its sessions may do, so that   *)
(* all that is proved of those (LedgerProofs) holds behind the gate too.   *)
THEOREM ApiImplementsLedger == ApiSpec => Spec
  <1>1. ApiInit => Init
    BY DEF ApiInit
  <1> QED  BY <1>1, StepsOfTheLedger, AskTyped, PTL DEF ApiSpec, Spec

-----------------------------------------------------------------------------
(* Answers and the journal *)

\* The journal of the ledger holds a post with the lines of this payload.
Holds(t, payload) ==
  /\ t \in DOMAIN txns /\ txns[t].reversalOf = NoTx
  /\ LinesOf(txns[t].entries) = LinesOf(payload.entries)

\* A session of the ledger is in the post its gate believes it in.
InStep(s) ==
  /\ pc[s] \in {"rate", "insert"} => gate[s] = "admit" /\ req[s] = ask[s].body
  /\ pc[s] = "commitPost" => gate[s] = "commit"
  /\ gate[s] = "commit" =>
       /\ pc[s] = "commitPost" /\ Wrote(s) = {ctx[s].tx}
       /\ ws[s].rows[ctx[s].tx].reversalOf = NoTx
       /\ LinesOf(ws[s].rows[ctx[s].tx].entries) = LinesOf(ask[s].body.entries)

Linked ==
  /\ \A s \in Poster : InStep(s)
  /\ \A t \in DOMAIN journal : Holds(t, journal[t].body)

(* Conversion leaves the accounts, directions and amounts alone.           *)
LEMMA LinesOfConvert == \A entries, r : LinesOf(Convert(entries, r)) = LinesOf(entries)
  BY DEF LinesOf, Convert

LEMMA InitLinked == ApiInit => Linked
  BY DEF ApiInit, Init, Idem!Init, Linked, InStep

(* A transaction once in the journal keeps its lines and stays a post.     *)
LEMMA HoldsStays ==
  ASSUME TypeOK, [LS!StepKeepsHistory]_(LS!vars), NEW t, NEW p, Holds(t, p)
  PROVE  Holds(t, p)'
  <1>1. txns[t] \in TxRow
    BY DEF TypeOK, Holds
  <1>2. LS!Voided(txns[t]).reversalOf = txns[t].reversalOf
        /\ LS!Voided(txns[t]).entries = txns[t].entries
    BY <1>1 DEF LS!Voided, TxRow
  <1>3. t \in DOMAIN txns' /\ txns'[t] \in {txns[t], LS!Voided(txns[t])}
    BY DEF LS!StepKeepsHistory, LS!vars, Holds
  <1> QED  BY <1>2, <1>3 DEF Holds, LinesOf

\* What a request of the gate is not told by a step of another.
GateOthers(s) ==
  \A q \in Poster \ {s} : gate'[q] = gate[q] /\ ask'[q] = ask[q] /\ ctx'[q] = ctx[q]

LEMMA LinkedStep ==
  ASSUME Linked, TypeOK, [LS!StepKeepsHistory]_(LS!vars), NEW s \in Session,
         GateOthers(s), Others(s),
         s \in Poster => InStep(s)',
         UNCHANGED journal
  PROVE  Linked'
  <1>1. ASSUME NEW q \in Poster PROVE InStep(q)'
    BY DEF Linked, InStep, GateOthers, Others, Wrote, PaymentApiAssumption
  <1>2. \A t \in DOMAIN journal : Holds(t, journal[t].body)'
    BY HoldsStays DEF Linked
  <1> QED  BY <1>1, <1>2 DEF Linked

(* What the gate does to one request it does to no other.                  *)
LEMMA GateStep ==
  ASSUME Idem!TypeOK, NEW s \in Poster, Idem!Step(s) \/ Idem!Crash(s)
  PROVE  GateOthers(s)
  BY DEF Idem!Step, Idem!Crash, Idem!Claim, Idem!ClaimFails, Idem!Look, Idem!LookFails,
         Idem!Refused, Idem!Replay, Idem!Create, Idem!Fails, Idem!Commit, Idem!CommitUnanswered,
         Idem!Cache, Idem!CacheFails, Idem!DeleteKey, Idem!DeleteFails, Idem!Raise, Idem!Goto,
         Idem!Finish, Idem!TypeOK, GateOthers

LEMMA SessionStep ==
  ASSUME TypeOK, NEW s \in Session,
         \/ Step(s) \/ Cut(s)
         \/ \E p : PostBegin(s, p) \/ PostRejected(s, p)
         \/ \E t : VoidBegin(s, t) \/ VoidNotFound(s, t)
  PROVE  Others(s)
  <1>1. ASSUME NEW answer, Finish(s, answer) PROVE Others(s)
    BY <1>1 DEF Finish, TypeOK, Others
  <1>2. CASE NoRate(s) \/ InsertFails(s) \/ CommitPost(s) \/ CommitRefused(s) \/ AlreadyVoided(s)
             \/ CommitVoid(s) \/ Cut(s) \/ (\E p : PostRejected(s, p)) \/ (\E t : VoidNotFound(s, t))
    BY <1>1, <1>2 DEF NoRate, InsertFails, CommitPost, CommitRefused, AlreadyVoided, CommitVoid,
                      Cut, PostRejected, VoidNotFound, Rollback, Commit
  <1>3. CASE ResolveRate(s) \/ (\E p : PostBegin(s, p)) \/ (\E t : VoidBegin(s, t))
    <2>1. CASE ResolveRate(s)
      BY <2>1 DEF ResolveRate, TypeOK, Others
    <2>2. ASSUME NEW p, PostBegin(s, p) PROVE Others(s)
      BY <2>2 DEF PostBegin, TypeOK, Others
    <2>3. ASSUME NEW t, VoidBegin(s, t) PROVE Others(s)
      BY <2>3 DEF VoidBegin, TypeOK, Others
    <2> QED  BY <1>3, <2>1, <2>2, <2>3
  <1>4. CASE InsertPosted(s) \/ MarkVoided(s) \/ InsertReversal(s)
    <2>1. UNCHANGED <<req, orig>> /\ \E where : pc' = [pc EXCEPT ![s] = where]
      BY <1>4 DEF InsertPosted, MarkVoided, InsertReversal
    <2>2. \E writes : ws' = [ws EXCEPT ![s] = writes]
      BY <1>4 DEF InsertPosted, MarkVoided, InsertReversal, Write
    <2> QED  BY <2>1, <2>2 DEF TypeOK, Others
  <1> QED  BY <1>2, <1>3, <1>4 DEF Step

Sound == TypeOK /\ LockDiscipline /\ Idem!TypeOK /\ Linked

LEMMA PostArrivesLinked ==
  ASSUME Sound, [LS!StepKeepsHistory]_(LS!vars), NEW s \in Session,
         NEW k, NEW p, PostArrives(s, k, p)
  PROVE  Linked'
  <1>1. pc[s] = "idle" /\ gate[s] = "idle" /\ UNCHANGED vars /\ UNCHANGED journal
    BY DEF PostArrives, New, Busy, Gated, Idem!Arrive
  <1>2. gate'[s] \in {"admit", "claim"} /\ GateOthers(s)
    BY DEF PostArrives, Idem!Arrive, Idem!Goto, Sound, Idem!TypeOK, GateOthers
  <1>3. Others(s) /\ InStep(s)'
    BY <1>1, <1>2 DEF vars, local, Others, InStep
  <1> QED  BY <1>1, <1>2, <1>3, LinkedStep DEF Sound

(* The gate alone moves: no session of the ledger is in a post of s.       *)
LEMMA GateAloneLinked ==
  ASSUME Sound, [LS!StepKeepsHistory]_(LS!vars), NEW s \in Poster, pc[s] \notin {"rate", "insert", "commitPost"},
         Idem!Step(s) \/ Idem!Crash(s), UNCHANGED journal, gate'[s] # "commit",
         Others(s), pc'[s] \notin {"rate", "insert", "commitPost"}
  PROVE  Linked'
  <1>1. s \in Session
    BY PaymentApiAssumption
  <1>2. InStep(s)'
    BY DEF InStep
  <1> QED  BY <1>1, <1>2, GateStep, LinkedStep DEF Sound

(* The ledger alone moves.                                                 *)
LEMMA LedgerAloneLinked ==
  ASSUME Sound, [LS!StepKeepsHistory]_(LS!vars), NEW s \in Session, UNCHANGED gateVars,
         Others(s), s \in Poster => InStep(s)'
  PROVE  Linked'
  BY LinkedStep DEF Sound, gateVars, GateOthers

LEMMA PassGateLinked ==
  ASSUME Sound, [LS!StepKeepsHistory]_(LS!vars), NEW s \in Poster, PassGate(s) \/ Respond(s)
  PROVE  Linked'
  <1>1. Idem!Step(s) /\ UNCHANGED vars
    BY DEF PassGate, Respond, Idem!Step
  <1>2. gate[s] # "commit" /\ gate'[s] # "commit" /\ UNCHANGED journal
    BY DEF PassGate, Respond, Idem!Claim, Idem!Look, Idem!Refused, Idem!Replay, Idem!DeleteKey,
           Idem!Cache, Idem!Raise, Idem!Goto, Idem!Finish, Sound, Idem!TypeOK
  <1>3. pc[s] \notin {"rate", "insert", "commitPost"}
    BY DEF PassGate, Respond, Idem!Cache, Sound, Linked, InStep
  <1> QED  BY <1>1, <1>2, <1>3, GateAloneLinked DEF vars, local, Others

LEMMA ServeLinked ==
  ASSUME Sound, [LS!StepKeepsHistory]_(LS!vars), NEW s \in Poster, Serve(s) \/ Resolve(s)
  PROVE  Linked'
  <1>1. s \in Session
    BY PaymentApiAssumption
  <1>2. Others(s) /\ UNCHANGED gateVars
    BY <1>1, SessionStep DEF Serve, Resolve, Step, Sound
  <1>3. CASE Serve(s)
    <2>1. InStep(s)'
      BY <1>1, <1>2, <1>3 DEF Serve, PostBegin, Sound, TypeOK, InStep, gateVars
    <2> QED  BY <1>1, <1>2, <2>1, LedgerAloneLinked
  <1>4. CASE Resolve(s)
    <2>1. InStep(s)'
      BY <1>1, <1>2, <1>4 DEF Resolve, ResolveRate, Sound, TypeOK, Linked, InStep, gateVars
    <2> QED  BY <1>1, <1>2, <2>1, LedgerAloneLinked
  <1> QED  BY <1>3, <1>4

LEMMA PostEndsLinked ==
  ASSUME Sound, [LS!StepKeepsHistory]_(LS!vars), NEW s \in Poster, PayloadRejected(s) \/ PostFails(s)
  PROVE  Linked'
  <1>1. s \in Session
    BY PaymentApiAssumption
  <1>2. Others(s) /\ pc'[s] = "idle"
    <2>1. Cut(s) \/ PostRejected(s, ask[s].body)
      BY DEF PayloadRejected, PostFails
    <2>2. pc'[s] = "idle"
      BY <1>1, <2>1 DEF Sound, PostRejected, Cut, Rollback, Finish, TypeOK
    <2> QED  BY <1>1, <2>1, <2>2, SessionStep DEF Sound
  <1>3. Idem!Step(s) /\ UNCHANGED journal /\ gate'[s] # "commit"
    BY DEF PayloadRejected, PostFails, Idem!Step, Idem!Fails, Idem!Raise, Idem!Goto, Idem!Finish,
           Sound, Idem!TypeOK
  <1>4. InStep(s)'
    BY <1>2, <1>3 DEF InStep
  <1> QED  BY <1>1, <1>2, <1>3, <1>4, GateStep, LinkedStep DEF Sound

LEMMA InsertLinked ==
  ASSUME Sound, [LS!StepKeepsHistory]_(LS!vars), NEW s \in Poster, Insert(s)
  PROVE  Linked'
  <1>1. s \in Session /\ InsertPosted(s) /\ Idem!Create(s) /\ pc[s] = "insert"
    BY PaymentApiAssumption DEF Insert, InsertPosted
  <1>2. Others(s) /\ GateOthers(s) /\ UNCHANGED journal
    BY <1>1, SessionStep, GateStep DEF Step, Idem!Step, Idem!Create, Sound
  <1>3. pc'[s] = "commitPost" /\ gate'[s] = "commit" /\ ask' = ask
    BY <1>1 DEF InsertPosted, Idem!Create, Idem!Goto, Sound, TypeOK, Idem!TypeOK
  <1>4. ws[s] = NoWrites /\ req[s] = ask[s].body
    BY <1>1 DEF Sound, LockDiscipline, SessionSound, Linked, InStep
  <1>5. PICK t \in Fresh :
          Write(s, One(t, Posted(req[s].date, Convert(req[s].entries, rate[s]), NoTx)),
                {CreateRow(t, NoTx)})
    BY <1>1 DEF InsertPosted
  <1>6. ws'[s].rows = Overlay(One(t, Posted(req[s].date, Convert(req[s].entries, rate[s]), NoTx)),
                              NoRows)
    BY <1>1, <1>4, <1>5 DEF Write, NoWrites, Sound, TypeOK
  <1>7. /\ DOMAIN ws'[s].rows = {t}
        /\ ws'[s].rows[t] = Posted(req[s].date, Convert(req[s].entries, rate[s]), NoTx)
    BY <1>6 DEF Overlay, One, NoRows
  <1>8. ctx'[s].tx = t
    BY <1>7 DEF Insert
  <1>9. InStep(s)'
    BY <1>3, <1>4, <1>7, <1>8, LinesOfConvert DEF InStep, Wrote, Posted
  <1> QED  BY <1>1, <1>2, <1>9, LinkedStep DEF Sound

LEMMA PostCommitsLinked ==
  ASSUME Sound, [LS!StepKeepsHistory]_(LS!vars), NEW s \in Poster, PostCommits(s)
  PROVE  Linked'
  <1>1. s \in Session /\ CommitPost(s) /\ Idem!Commit(s)
    BY PaymentApiAssumption DEF PostCommits
  <1>2. Others(s) /\ GateOthers(s)
    BY <1>1, SessionStep, GateStep DEF Step, Idem!Step, Sound
  <1>3. pc'[s] = "idle" /\ gate'[s] # "commit" /\ gate[s] = "commit"
    BY <1>1 DEF CommitPost, Commit, Finish, Idem!Commit, Idem!Goto, Sound, TypeOK, Idem!TypeOK
  <1>4. \A q \in Poster : InStep(q)'
    BY <1>2, <1>3, PaymentApiAssumption DEF Sound, Linked, InStep, GateOthers, Others, Wrote
  <1>5. txns' = Overlay(ws[s].rows, txns)
    BY <1>1 DEF CommitPost, Commit
  <1>6. ctx' = ctx /\ ask' = ask /\ journal' = [t \in DOMAIN journal \cup {ctx[s].tx} |->
                                               IF t = ctx[s].tx THEN ask[s] ELSE journal[t]]
    BY <1>1 DEF Idem!Commit, Idem!Record
  <1>7. Holds(ctx[s].tx, ask[s].body)'
    BY <1>3, <1>5, <1>6 DEF Sound, Linked, InStep, Holds, Overlay, Wrote
  <1>8. ASSUME NEW t \in DOMAIN journal' PROVE Holds(t, journal[t].body)'
    <2>1. CASE t = ctx[s].tx
      BY <1>6, <1>7, <2>1 DEF Holds
    <2>2. CASE t # ctx[s].tx
      <3>1. t \in DOMAIN journal /\ journal'[t] = journal[t]
        BY <1>6, <2>2
      <3>2. PICK p : p = journal[t].body
        OBVIOUS
      <3>3. Holds(t, p)'
        BY <3>1, <3>2, HoldsStays DEF Sound, Linked
      <3> QED  BY <3>1, <3>2, <3>3 DEF Holds
    <2> QED  BY <2>1, <2>2
  <1> QED  BY <1>4, <1>8 DEF Linked

LEMMA VoidLinked ==
  ASSUME Sound, [LS!StepKeepsHistory]_(LS!vars), NEW s \in Session,
         \/ VoidWorks(s) \/ VoidCommits(s) \/ \E t \in TxId : VoidArrives(s, t)
  PROVE  Linked'
  <1>1. Others(s) /\ UNCHANGED gateVars
    BY SessionStep DEF VoidWorks, VoidCommits, VoidArrives, Step, Sound
  <1>2. pc[s] \notin {"rate", "insert", "commitPost"}
    BY DEF VoidWorks, VoidCommits, VoidArrives, VoidBegin, VoidNotFound, MarkVoided, AlreadyVoided,
           InsertReversal, CommitVoid
  <1>3. pc'[s] \notin {"rate", "insert", "commitPost"}
    <2>1. CASE AlreadyVoided(s) \/ CommitVoid(s) \/ \E t \in TxId : VoidNotFound(s, t)
      BY <2>1 DEF AlreadyVoided, CommitVoid, VoidNotFound, Rollback, Commit, Finish, Sound, TypeOK
    <2>2. CASE MarkVoided(s) \/ InsertReversal(s)
      BY <2>2 DEF MarkVoided, InsertReversal, Sound, TypeOK
    <2>3. CASE \E t \in TxId : VoidBegin(s, t)
      BY <2>3 DEF VoidBegin, Sound, TypeOK
    <2>4. \/ AlreadyVoided(s) \/ CommitVoid(s) \/ MarkVoided(s) \/ InsertReversal(s)
          \/ \E t \in TxId : VoidBegin(s, t) \/ VoidNotFound(s, t)
      BY DEF VoidWorks, VoidCommits, VoidArrives
    <2> QED  BY <2>1, <2>2, <2>3, <2>4
  <1>4. s \in Poster => InStep(s)'
    BY <1>1, <1>2, <1>3 DEF InStep, Sound, Linked, gateVars
  <1> QED  BY <1>1, <1>4, LedgerAloneLinked

LEMMA ApiCutLinked ==
  ASSUME Sound, [LS!StepKeepsHistory]_(LS!vars), NEW s \in Session, ApiCut(s)
  PROVE  Linked'
  <1>1. Others(s) /\ pc'[s] = "idle"
    BY SessionStep DEF ApiCut, vars, local, Others, Cut, Rollback, Finish, Sound, TypeOK
  <1>2. GateOthers(s) /\ UNCHANGED journal /\ (s \in Poster => gate'[s] # "commit")
    <2>1. CASE Gated(s)
      <3>1. s \in Poster /\ Idem!Crash(s)
        BY <2>1 DEF ApiCut, Gated
      <3>2. GateOthers(s)
        BY <3>1, GateStep DEF Sound
      <3>3. UNCHANGED journal /\ gate'[s] = "idle"
        BY <3>1 DEF Idem!Crash, Idem!Finish, Idem!Goto, Sound, Idem!TypeOK
      <3> QED  BY <3>2, <3>3
    <2>2. CASE ~ Gated(s)
      BY <2>2 DEF ApiCut, Gated, gateVars, GateOthers
    <2> QED  BY <2>1, <2>2
  <1> QED  BY <1>1, <1>2, LinkedStep DEF Sound, InStep

(* Nothing of the posts moves.                                             *)
LEMMA IdleLinked ==
  ASSUME Sound, [LS!StepKeepsHistory]_(LS!vars), UNCHANGED vars,
         UNCHANGED <<gate, ask, ctx, journal>>
  PROVE  Linked'
  <1>1. \A s \in Poster : InStep(s)'
    BY DEF Sound, Linked, InStep, vars, local, Wrote
  <1>2. \A t \in DOMAIN journal : Holds(t, journal[t].body)'
    BY HoldsStays DEF Sound, Linked
  <1> QED  BY <1>1, <1>2 DEF Linked

LEMMA LinkedInductive ==
  Sound /\ [LS!StepKeepsHistory]_(LS!vars) /\ [ApiNext]_apiVars => Linked'
  <1> SUFFICES ASSUME Sound, [LS!StepKeepsHistory]_(LS!vars), [ApiNext]_apiVars PROVE Linked'
    OBVIOUS
  <1>1. ASSUME NEW s \in Session, NEW k \in Key \cup {NoKey}, NEW p \in Payloads,
               PostArrives(s, k, p)
        PROVE  Linked'
    BY <1>1, PostArrivesLinked
  <1>2. ASSUME NEW s \in Session, NEW t \in TxId, VoidArrives(s, t) PROVE Linked'
    BY <1>2, VoidLinked
  <1>3. ASSUME NEW s \in Session, ApiStep(s) PROVE Linked'
    <2>1. CASE VoidWorks(s) \/ VoidCommits(s)
      BY <2>1, VoidLinked
    <2>2. CASE Invalidate(s)
      BY <2>2, IdleLinked, SweepApart DEF gateVars
    <2>3. CASE s \in Poster /\ (PassGate(s) \/ Respond(s))
      BY <2>3, PassGateLinked
    <2>4. CASE s \in Poster /\ (Serve(s) \/ Resolve(s))
      BY <2>4, ServeLinked
    <2>5. CASE s \in Poster /\ (PayloadRejected(s) \/ PostFails(s))
      BY <2>5, PostEndsLinked
    <2>6. CASE s \in Poster /\ Insert(s)
      BY <2>6, InsertLinked
    <2>7. CASE s \in Poster /\ PostCommits(s)
      BY <2>7, PostCommitsLinked
    <2> QED  BY <1>3, <2>1, <2>2, <2>3, <2>4, <2>5, <2>6, <2>7 DEF ApiStep
  <1>4. ASSUME NEW s \in Session, ApiCut(s) PROVE Linked'
    BY <1>4, ApiCutLinked
  <1>5. CASE Reads
    BY <1>5, IdleLinked, ReadsApart DEF gateVars
  <1>6. ASSUME NEW k \in Key, Idem!Expire(k), UNCHANGED <<vars, cacheVars>> PROVE Linked'
    BY <1>6, IdleLinked DEF Idem!Expire
  <1>7. CASE UNCHANGED apiVars
    BY <1>7, IdleLinked DEF apiVars, gateVars
  <1> QED  BY <1>1, <1>2, <1>3, <1>4, <1>5, <1>6, <1>7 DEF ApiNext, Reads

(* Ledger and gate agree about every request in every state.               *)
LEMMA ApiLinked == ApiSpec => []Sound
  <1>1. Spec => [][LS!StepKeepsHistory]_(LS!vars)
    BY LedgerImmutable DEF Immutable, LS!Immutable
  <1> QED  BY <1>1, InitLinked, LinkedInductive, ApiImplementsLedger, LedgerTypeOK,
              LedgerLockDiscipline, AskTyped, PTL DEF ApiSpec, Sound

(* A 201, and the 200 of a replay, name a transaction of the journal that  *)
(* has the lines the client asked for: what the gate has on record is what *)
(* the session of the same request committed (post_transaction), and no    *)
(* later void takes it away.                                               *)
THEOREM ApiAnsweredIsInJournal == ApiSpec => []AnsweredIsInJournal
  <1>1. ApiSpec => []GateProofs!AnswersTrue
    BY ThroughTheGate, GateAssumption, GateProofs!IdempotencyAnswersTrue, PTL
  <1>2. Sound /\ GateProofs!AnswersTrue => AnsweredIsInJournal
    BY DEF Sound, Linked, Holds, GateProofs!AnswersTrue, AnsweredIsInJournal
  <1> QED  BY <1>1, <1>2, ApiLinked, PTL

-----------------------------------------------------------------------------
(* What is still to invalidate *)

(* A step of one request is no other's.                                    *)
LEMMA OnlyOwn ==
  ASSUME TypeOK, Idem!TypeOK, NEW s \in Session,
         \/ \E k \in Key \cup {NoKey}, p \in Payloads : PostArrives(s, k, p)
         \/ \E t \in TxId : VoidArrives(s, t)
         \/ ApiStep(s) \/ ApiCut(s)
  PROVE  Others(s) /\ GateOthers(s)
  <1>1. ASSUME UNCHANGED vars PROVE Others(s)
    BY <1>1 DEF vars, local, Others
  <1>2. ASSUME UNCHANGED gateVars PROVE GateOthers(s)
    BY <1>2 DEF gateVars, GateOthers
  <1>3. ASSUME s \in Poster, Idem!Step(s) \/ Idem!Crash(s) PROVE GateOthers(s)
    BY <1>3, GateStep
  <1>4. ASSUME NEW k, NEW p, PostArrives(s, k, p) PROVE Others(s) /\ GateOthers(s)
    <2>1. s \in Poster /\ Idem!Arrive(s, k, p) /\ UNCHANGED vars
      BY <1>4 DEF PostArrives
    <2>2. GateOthers(s)
      BY <2>1 DEF Idem!Arrive, Idem!Goto, Idem!TypeOK, GateOthers
    <2> QED  BY <1>1, <2>1, <2>2
  <1>5. CASE \E t \in TxId : VoidArrives(s, t)
    BY <1>2, <1>5, SessionStep DEF VoidArrives
  <1>6. CASE s \in Poster /\ (PassGate(s) \/ Respond(s))
    <2>1. Idem!Step(s) /\ UNCHANGED vars
      BY <1>6 DEF PassGate, Respond, Idem!Step
    <2> QED  BY <1>1, <1>3, <1>6, <2>1
  <1>7. CASE Serve(s) \/ Resolve(s) \/ VoidWorks(s) \/ VoidCommits(s)
    <2>1. UNCHANGED gateVars
      BY <1>7 DEF Serve, Resolve, VoidWorks, VoidCommits
    <2>2. Step(s) \/ \E p : PostBegin(s, p)
      BY <1>7 DEF Serve, Resolve, VoidWorks, VoidCommits, Step
    <2> QED  BY <1>2, <2>1, <2>2, SessionStep
  <1>8. CASE s \in Poster /\ (PayloadRejected(s) \/ Insert(s) \/ PostFails(s) \/ PostCommits(s))
    <2>1. Idem!Step(s)
      BY <1>8 DEF PayloadRejected, Insert, PostFails, PostCommits, Idem!Step
    <2>2. Step(s) \/ Cut(s) \/ \E p : PostRejected(s, p)
      BY <1>8 DEF PayloadRejected, Insert, PostFails, PostCommits, Step
    <2> QED  BY <1>3, <1>8, <2>1, <2>2, SessionStep
  <1>9. CASE Invalidate(s)
    BY <1>1, <1>2, <1>9, SweepApart
  <1>10. CASE ApiCut(s)
    <2>1. Others(s)
      BY <1>1, <1>10, SessionStep DEF ApiCut
    <2>2. GateOthers(s)
      BY <1>2, <1>3, <1>10 DEF ApiCut, Gated
    <2> QED  BY <2>1, <2>2
  <1> QED  BY <1>4, <1>5, <1>6, <1>7, <1>8, <1>9, <1>10 DEF ApiStep

(* What a request has still to invalidate it has after its COMMIT and      *)
(* before its answer; and a client that voids has no post at the gate.     *)
SweepOf(s) ==
  /\ sweep[s] # NoSweep => pc[s] = "idle" /\ (s \in Poster => gate[s] \in {"idle", "cache"})
  /\ s \in Poster /\ pc[s] \in {"update", "reverse", "commitVoid"} => gate[s] = "idle"

\* Only what a client may ask for is cached, computed or swept.
CacheSound ==
  /\ sweep \in [Session -> [todo : SUBSET Account, left : SUBSET Watched, found : SUBSET Watched]]
  /\ DOMAIN cache \subseteq Watched
  /\ DOMAIN reading = Reader
  /\ \A r \in Reader : reading[r] # NotReading => reading[r].key \in Watched

SweepSound == CacheSound /\ \A s \in Session : SweepOf(s)

LEMMA InitSweep == ApiInit => SweepSound
  BY DEF ApiInit, Init, SweepSound, SweepOf, CacheSound, NoSweep

LEMMA CacheTyped == CacheSound /\ [ApiNext]_apiVars => CacheSound'
  <1> SUFFICES ASSUME CacheSound, [ApiNext]_apiVars PROVE CacheSound'
    OBVIOUS
  <1>0. \A s \in Session :
          sweep[s] \in [todo : SUBSET Account, left : SUBSET Watched, found : SUBSET Watched]
    BY DEF CacheSound
  <1>1. CASE UNCHANGED cacheVars
    BY <1>1 DEF CacheSound, cacheVars
  <1>2. ASSUME NEW s \in Session, NEW left, Goes(s, left),
               left \in [todo : SUBSET Account, left : SUBSET Watched, found : SUBSET Watched],
               DOMAIN cache' \subseteq DOMAIN cache, reading' = reading
        PROVE  CacheSound'
    BY <1>2 DEF CacheSound, Goes
  <1>3. NoSweep \in [todo : SUBSET Account, left : SUBSET Watched, found : SUBSET Watched]
    BY DEF NoSweep
  <1>4. ASSUME NEW s \in Session, NEW deleted, NEW doubt, Abandon(s, deleted, doubt),
               reading' = reading
        PROVE  CacheSound'
    BY <1>2, <1>3, <1>4 DEF Abandon
  <1>5. ASSUME NEW s \in Session, NEW entries, Committed(s, entries) PROVE CacheSound'
    <2>1. [NoSweep EXCEPT !.todo = Asked(entries)]
            \in [todo : SUBSET Account, left : SUBSET Watched, found : SUBSET Watched]
      BY DEF NoSweep, Asked
    <2> QED  BY <1>2, <1>5, <2>1 DEF Committed, Goes
  <1>6. ASSUME NEW s \in Session, Invalidate(s) PROVE CacheSound'
    <2>1. CASE SweepAccount(s)
      <3>1. PICK a \in sweep[s].todo :
              Goes(s, [todo |-> sweep[s].todo \ {a},
                       left |-> {k \in Watched : k[1] = a}, found |-> {}])
        BY <2>1 DEF SweepAccount
      <3> QED  BY <1>0, <1>2, <2>1, <3>1 DEF SweepAccount
    <2>2. CASE Scan(s)
      <3>1. PICK k \in sweep[s].left :
              Goes(s, [todo |-> sweep[s].todo, left |-> sweep[s].left \ {k},
                       found |-> sweep[s].found \cup ({k} \cap DOMAIN cache)])
        BY <2>2 DEF Scan
      <3> QED  BY <1>0, <1>2, <2>2, <3>1 DEF Scan
    <2>3. CASE DeleteFound(s)
      BY <1>0, <1>2, <2>3 DEF DeleteFound, Remove
    <2>4. CASE SweepFails(s)
      BY <1>4, <2>4 DEF SweepFails
    <2> QED  BY <1>6, <2>1, <2>2, <2>3, <2>4 DEF Invalidate
  <1>7. CASE Reads
    <2>1. ASSUME NEW r \in Reader, NEW k \in Watched, ComputeBalance(r, k) PROVE CacheSound'
      BY <2>1 DEF ComputeBalance, CacheSound
    <2>2. ASSUME NEW r \in Reader, EndReading(r) PROVE CacheSound'
      BY <2>2 DEF EndReading, Set, CacheSound
    <2>3. ASSUME NEW k \in Watched, ExpireBalance(k) PROVE CacheSound'
      BY <2>3 DEF ExpireBalance, Remove, CacheSound
    <2> QED  BY <1>7, <2>1, <2>2, <2>3 DEF Reads
  <1>8. ASSUME NEW s \in Session, ApiStep(s) PROVE CacheSound'
    <2>1. CASE PassGate(s) \/ Serve(s) \/ PayloadRejected(s) \/ Resolve(s) \/ Insert(s)
               \/ PostFails(s) \/ Respond(s) \/ VoidWorks(s)
      BY <1>1, <2>1 DEF PassGate, Serve, PayloadRejected, Resolve, Insert, PostFails, Respond,
                        VoidWorks
    <2>2. CASE PostCommits(s) \/ VoidCommits(s)
      BY <1>5, <2>2 DEF PostCommits, VoidCommits
    <2> QED  BY <1>6, <1>8, <2>1, <2>2 DEF ApiStep
  <1>9. ASSUME NEW s \in Session, ApiCut(s) PROVE CacheSound'
    BY <1>4, <1>9 DEF ApiCut
  <1>10. ASSUME NEW s \in Session,
                \/ \E k \in Key \cup {NoKey}, p \in Payloads : PostArrives(s, k, p)
                \/ \E t \in TxId : VoidArrives(s, t)
         PROVE  UNCHANGED cacheVars
    BY <1>10 DEF PostArrives, VoidArrives
  <1>11. UNCHANGED apiVars => UNCHANGED cacheVars
    BY DEF apiVars
  <1> QED  BY <1>1, <1>7, <1>8, <1>9, <1>10, <1>11 DEF ApiNext, Reads

LEMMA SweepOwn ==
  ASSUME Sound, SweepSound, NEW s \in Session,
         \/ \E k \in Key \cup {NoKey}, p \in Payloads : PostArrives(s, k, p)
         \/ \E t \in TxId : VoidArrives(s, t)
         \/ ApiStep(s) \/ ApiCut(s)
  PROVE  SweepOf(s)'
  <1>0. /\ DOMAIN pc = Session /\ DOMAIN gate = Poster /\ DOMAIN sweep = Session
        /\ SweepOf(s)
    BY DEF Sound, TypeOK, Idem!TypeOK, SweepSound, CacheSound
  <1>1. ASSUME NEW k, NEW p, PostArrives(s, k, p) PROVE SweepOf(s)'
    BY <1>0, <1>1 DEF PostArrives, New, Busy, Gated, cacheVars, vars, local, SweepOf
  <1>2. CASE \E t \in TxId : VoidArrives(s, t)
    BY <1>0, <1>2 DEF VoidArrives, New, Busy, Gated, cacheVars, gateVars, SweepOf
  <1>3. CASE s \in Poster /\ (PassGate(s) \/ Respond(s))
    <2>1. sweep' = sweep /\ pc' = pc
      BY <1>3 DEF PassGate, Respond, vars, local, cacheVars
    <2>2. sweep[s] = NoSweep /\ pc[s] \notin {"update", "reverse", "commitVoid"}
      BY <1>0, <1>3 DEF PassGate, Respond, SweepOf, Idem!Claim, Idem!Look, Idem!Refused,
                        Idem!Replay, Idem!DeleteKey, Idem!Cache
    <2> QED  BY <2>1, <2>2 DEF SweepOf
  <1>4. CASE s \in Poster /\ (Serve(s) \/ Resolve(s) \/ Insert(s))
    <2>1. sweep[s] = NoSweep /\ sweep' = sweep
      BY <1>0, <1>4 DEF Serve, Resolve, ResolveRate, Insert, InsertPosted, cacheVars, SweepOf
    <2>2. pc'[s] \in {"rate", "insert", "commitPost"}
      BY <1>0, <1>4 DEF Serve, PostBegin, Resolve, ResolveRate, Insert, InsertPosted
    <2> QED  BY <2>1, <2>2 DEF SweepOf
  <1>5. CASE s \in Poster /\ (PayloadRejected(s) \/ PostFails(s))
    <2>1. sweep[s] = NoSweep /\ sweep' = sweep
      BY <1>0, <1>5 DEF PayloadRejected, PostFails, cacheVars, SweepOf
    <2>2. pc'[s] = "idle"
      BY <1>0, <1>5 DEF PayloadRejected, PostRejected, PostFails, Cut, Rollback, Finish
    <2> QED  BY <2>1, <2>2 DEF SweepOf
  <1>6. CASE s \in Poster /\ PostCommits(s)
    <2>1. pc'[s] = "idle" /\ gate'[s] = "cache"
      BY <1>0, <1>6 DEF PostCommits, CommitPost, Commit, Finish, Idem!Commit, Idem!Goto
    <2> QED  BY <2>1 DEF SweepOf
  <1>7. CASE VoidWorks(s)
    <2>1. sweep[s] = NoSweep /\ sweep' = sweep /\ (s \in Poster => gate[s] = "idle") /\ gate' = gate
      BY <1>0, <1>7 DEF VoidWorks, MarkVoided, AlreadyVoided, InsertReversal, cacheVars, gateVars,
                        SweepOf
    <2> QED  BY <2>1 DEF SweepOf
  <1>8. CASE VoidCommits(s)
    <2>1. (s \in Poster => gate[s] = "idle") /\ gate' = gate /\ pc'[s] = "idle"
      BY <1>0, <1>8 DEF VoidCommits, CommitVoid, Commit, Finish, gateVars, SweepOf
    <2> QED  BY <2>1 DEF SweepOf
  <1>9. CASE Invalidate(s)
    <2>1. pc' = pc /\ gate' = gate
      BY <1>9, SweepApart DEF vars, local, gateVars
    <2>2. sweep[s] # NoSweep
      <3>1. NoSweep.todo = {} /\ NoSweep.left = {} /\ NoSweep.found = {}
        BY DEF NoSweep
      <3> QED  BY <1>9, <3>1 DEF Invalidate, SweepAccount, Scan, DeleteFound, SweepFails
    <2> QED  BY <1>0, <2>1, <2>2 DEF SweepOf
  <1>10. CASE ApiCut(s)
    <2>1. sweep'[s] = NoSweep /\ pc'[s] = "idle"
      BY <1>0, <1>10 DEF ApiCut, Abandon, Goes, Cut, Rollback, Finish, vars, local
    <2> QED  BY <2>1 DEF SweepOf
  <1> QED  BY <1>1, <1>2, <1>3, <1>4, <1>5, <1>6, <1>7, <1>8, <1>9, <1>10 DEF ApiStep

LEMMA SweepStep == Sound /\ SweepSound /\ [ApiNext]_apiVars => SweepSound'
  <1> SUFFICES ASSUME Sound, SweepSound, [ApiNext]_apiVars PROVE SweepSound'
    OBVIOUS
  <1>0. CacheSound'
    BY CacheTyped DEF SweepSound
  <1>1. CASE UNCHANGED <<pc, gate, sweep>>
    BY <1>0, <1>1 DEF SweepSound, SweepOf
  <1>2. ASSUME NEW s \in Session,
               \/ \E k \in Key \cup {NoKey}, p \in Payloads : PostArrives(s, k, p)
               \/ \E t \in TxId : VoidArrives(s, t)
               \/ ApiStep(s) \/ ApiCut(s)
        PROVE  SweepSound'
    <2>1. SweepOf(s)'
      BY <1>2, SweepOwn
    <2>2. Others(s) /\ GateOthers(s)
      BY <1>2, OnlyOwn DEF Sound
    <2>3. \A q \in Session \ {s} : sweep'[q] = sweep[q]
      <3>1. sweep' = sweep \/ \E v : sweep' = [sweep EXCEPT ![s] = v]
        <4>1. CASE \E k \in Key \cup {NoKey}, p \in Payloads : PostArrives(s, k, p)
          BY <4>1 DEF PostArrives, cacheVars
        <4>2. CASE (\E t \in TxId : VoidArrives(s, t)) \/ ApiCut(s)
          BY <4>2 DEF VoidArrives, cacheVars, ApiCut, Abandon, Goes
        <4>3. CASE PassGate(s) \/ Serve(s) \/ PayloadRejected(s) \/ Resolve(s) \/ Insert(s)
                   \/ PostFails(s) \/ Respond(s) \/ VoidWorks(s)
          BY <4>3 DEF PassGate, Serve, PayloadRejected, Resolve, Insert, PostFails, Respond,
                      VoidWorks, cacheVars
        <4>4. CASE PostCommits(s) \/ VoidCommits(s) \/ Invalidate(s)
          BY <4>4, SweepApart DEF PostCommits, VoidCommits, Committed, Goes
        <4> QED  BY <1>2, <4>1, <4>2, <4>3, <4>4 DEF ApiStep
      <3> QED  BY <3>1 DEF SweepSound, CacheSound
    <2>4. ASSUME NEW q \in Session \ {s} PROVE SweepOf(q)'
      BY <2>2, <2>3 DEF SweepSound, SweepOf, Others, GateOthers
    <2> QED  BY <1>0, <2>1, <2>4 DEF SweepSound
  <1>3. ASSUME Reads PROVE UNCHANGED <<pc, gate, sweep>>
    BY <1>3, ReadsApart DEF vars, local, gateVars
  <1>4. ASSUME NEW k, Idem!Expire(k), UNCHANGED <<vars, cacheVars>>
        PROVE  UNCHANGED <<pc, gate, sweep>>
    BY <1>4 DEF Idem!Expire, vars, local, cacheVars
  <1>5. ASSUME UNCHANGED apiVars PROVE UNCHANGED <<pc, gate, sweep>>
    BY <1>5 DEF apiVars, vars, local, gateVars, cacheVars
  <1> QED  BY <1>1, <1>2, <1>3, <1>4, <1>5 DEF ApiNext, Reads

-----------------------------------------------------------------------------
(* What a COMMIT adds to the journal and gives its request to invalidate *)

LEMMA SameLinesSameAccounts ==
  ASSUME NEW e, NEW f, LinesOf(e) = LinesOf(f)
  PROVE  AccountsOf(e) = AccountsOf(f)
  <1>1. DOMAIN LinesOf(e) = DOMAIN e /\ DOMAIN LinesOf(f) = DOMAIN f
    BY DEF LinesOf
  <1>2. \A i \in DOMAIN e : LinesOf(e)[i] = <<e[i].account, e[i].direction, e[i].amount>>
    BY DEF LinesOf
  <1>3. \A i \in DOMAIN f : LinesOf(f)[i] = <<f[i].account, f[i].direction, f[i].amount>>
    BY DEF LinesOf
  <1>4. \A i \in DOMAIN e : e[i].account = f[i].account
    BY <1>1, <1>2, <1>3
  <1> QED  BY <1>1, <1>4 DEF AccountsOf

LEMMA SameAccountsAsked ==
  ASSUME NEW e, NEW f, AccountsOf(e) = AccountsOf(f)
  PROVE  Asked(e) = Asked(f)
  BY DEF Asked

LEMMA MirrorAccounts ==
  ASSUME NEW e \in Seq(Entry)
  PROVE  AccountsOf(Mirror(e)) = AccountsOf(e)
  <1>1. DOMAIN Mirror(e) = DOMAIN e
    BY MirrorType
  <1>2. ASSUME NEW i \in DOMAIN e PROVE Mirror(e)[i].account = e[i].account
    <2>1. e[i] \in Entry
      OBVIOUS
    <2> QED  BY <2>1 DEF Mirror, Entry
  <1> QED  BY <1>1, <1>2 DEF AccountsOf

\* What no step changes of a row.
SameRow(row, other) ==
  other.date = row.date /\ other.entries = row.entries /\ other.reversalOf = row.reversalOf

\* s commits t, and has its accounts to invalidate.
Adds(s, t) ==
  /\ t \in TxId \ DOMAIN txns /\ DOMAIN txns' = DOMAIN txns \cup {t}
  /\ \A u \in DOMAIN txns : SameRow(txns[u], txns'[u])
  /\ sweep[s] = NoSweep
  /\ sweep' = [sweep EXCEPT ![s] = [NoSweep EXCEPT !.todo = Asked(txns'[t].entries)]]
  /\ UNCHANGED <<cache, reading, gone>>

LEMMA VoidedRow == \A row \in TxRow : SameRow(row, Voided(row))
  BY DEF SameRow, Voided, TxRow

LEMMA PostAdds ==
  ASSUME Sound, SweepSound, NEW s \in Poster, PostCommits(s)
  PROVE  /\ Adds(s, ctx[s].tx) /\ ctx' = ctx
         /\ txns'[ctx[s].tx].reversalOf = NoTx
         /\ resp'[s].code = 201 /\ \A q \in Session \ {s} : resp'[q] = resp[q]
  <1>1. IInv /\ s \in Session /\ CommitPost(s) /\ pc[s] = "commitPost"
    BY PaymentApiAssumption DEF Sound, IInv, PostCommits, CommitPost
  <1>2. PICK t \in TxId \ DOMAIN txns :
          /\ Wrote(s) = {t} /\ DOMAIN txns' = DOMAIN txns \cup {t}
          /\ txns'[t] = ws[s].rows[t]
          /\ \A u \in DOMAIN txns : txns'[u] = txns[u]
          /\ \E answer \in {Answer(201, t), NoAnswer} : Finish(s, answer)
    BY <1>1, PostedRows
  <1>3. /\ Wrote(s) = {ctx[s].tx} /\ ws[s].rows[ctx[s].tx].reversalOf = NoTx
        /\ LinesOf(ws[s].rows[ctx[s].tx].entries) = LinesOf(ask[s].body.entries)
    BY <1>1 DEF Sound, Linked, InStep
  <1>4. t = ctx[s].tx
    BY <1>2, <1>3
  <1>5. Asked(ask[s].body.entries) = Asked(txns'[t].entries)
    BY <1>2, <1>3, <1>4, SameLinesSameAccounts, SameAccountsAsked
  <1>6. sweep[s] = NoSweep
    BY <1>1 DEF SweepSound, SweepOf
  <1>7. Adds(s, t)
    BY <1>2, <1>5, <1>6 DEF Adds, SameRow, PostCommits, Committed
  <1>8. resp'[s].code = 201 /\ \A q \in Session \ {s} : resp'[q] = resp[q]
    <2>1. PICK answer \in {Answer(201, t), NoAnswer} : Finish(s, answer)
      BY <1>2
    <2>2. resp'[s] = answer /\ \A q \in Session \ {s} : resp'[q] = resp[q]
      BY <1>1, <2>1 DEF Finish, Sound, TypeOK
    <2>3. resp'[s].code # 0
      BY DEF PostCommits, Committed
    <2> QED  BY <2>2, <2>3 DEF Answer, NoAnswer
  <1> QED  BY <1>2, <1>3, <1>4, <1>7, <1>8 DEF PostCommits, Idem!Commit

LEMMA VoidAdds ==
  ASSUME Sound, SweepSound, NEW s \in Session, VoidCommits(s)
  PROVE  /\ \E r : Adds(s, r) /\ txns'[r].reversalOf = req[s]
         /\ req[s] \in DOMAIN txns /\ txns[req[s]].status = "posted"
         /\ resp'[s] = Answer(200, req[s]) /\ \A q \in Session \ {s} : resp'[q] = resp[q]
  <1> DEFINE t == req[s]
  <1>1. IInv /\ CommitVoid(s) /\ pc[s] = "commitVoid"
    BY DEF Sound, IInv, VoidCommits, CommitVoid
  <1>2. /\ t \in DOMAIN txns /\ txns[t].status = "posted" /\ txns'[t] = Voided(txns[t])
        /\ \E answer \in {Answer(200, t), NoAnswer} : Finish(s, answer)
    BY <1>1, VoidedRows
  <1>3. PICK r \in TxId \ DOMAIN txns :
          /\ DOMAIN txns' = DOMAIN txns \cup {r}
          /\ txns'[r] = Posted(txns[t].date, Mirror(txns[t].entries), t)
          /\ \A u \in DOMAIN txns \ {t} : txns'[u] = txns[u]
    BY <1>1, VoidedRows
  <1>4. txns[t] = orig[s] /\ txns[t] \in TxRow
    BY <1>1, <1>2 DEF IInv, TypeOK, LockDiscipline, SessionSound
  <1>5. txns'[r].entries = Mirror(txns[t].entries) /\ txns'[r].reversalOf = t
    BY <1>3 DEF Posted
  <1>6. Asked(orig[s].entries) = Asked(txns'[r].entries)
    BY <1>4, <1>5, MirrorAccounts, SameAccountsAsked, RowEntries
  <1>7. sweep[s] = NoSweep
    BY <1>1 DEF SweepSound, SweepOf
  <1>8. \A u \in DOMAIN txns : SameRow(txns[u], txns'[u])
    BY <1>2, <1>3, <1>4, VoidedRow DEF SameRow
  <1>9. Adds(s, r)
    BY <1>3, <1>6, <1>7, <1>8 DEF Adds, VoidCommits, Committed
  <1>10. resp'[s] = Answer(200, t) /\ \A q \in Session \ {s} : resp'[q] = resp[q]
    <2>1. PICK answer \in {Answer(200, t), NoAnswer} : Finish(s, answer)
      BY <1>2
    <2>2. resp'[s] = answer /\ \A q \in Session \ {s} : resp'[q] = resp[q]
      BY <1>1, <2>1 DEF Finish, Sound, TypeOK
    <2>3. resp'[s].code # 0
      BY DEF VoidCommits, Committed
    <2> QED  BY <2>2, <2>3 DEF NoAnswer
  <1> QED  BY <1>2, <1>5, <1>9, <1>10

\* A COMMIT of s takes effect.
Commits(s) == (s \in Poster /\ PostCommits(s)) \/ VoidCommits(s)

LEMMA CommitAdds ==
  ASSUME Sound, SweepSound, NEW s \in Session, Commits(s)
  PROVE  \E t \in TxId : Adds(s, t)
  <1>1. CASE s \in Poster /\ PostCommits(s)
    <2>1. Adds(s, ctx[s].tx)
      BY <1>1, PostAdds
    <2>2. ctx[s].tx \in TxId
      BY <2>1 DEF Adds
    <2> QED  BY <2>1, <2>2
  <1>2. CASE VoidCommits(s)
    BY <1>2, VoidAdds DEF Adds
  <1> QED  BY <1>1, <1>2 DEF Commits

(* What a step does to the journal and to the cache.                       *)
LEMMA ApiEffects ==
  ASSUME [ApiNext]_apiVars
  PROVE  \/ UNCHANGED <<txns, cacheVars>>
         \/ \E s \in Session : Commits(s) \/ Invalidate(s) \/ ApiCut(s)
         \/ Reads
  <1>1. ASSUME NEW s \in Session, NEW k, NEW p, PostArrives(s, k, p) PROVE UNCHANGED <<txns, cacheVars>>
    BY <1>1 DEF PostArrives, vars
  <1>2. ASSUME NEW s \in Session, NEW t, VoidArrives(s, t) PROVE UNCHANGED <<txns, cacheVars>>
    BY <1>2 DEF VoidArrives, VoidBegin, VoidNotFound, Rollback
  <1>3. ASSUME NEW s \in Poster, PassGate(s) \/ Respond(s) \/ Serve(s) \/ PayloadRejected(s)
                                \/ Resolve(s) \/ Insert(s) \/ PostFails(s)
        PROVE  UNCHANGED <<txns, cacheVars>>
    BY <1>3 DEF PassGate, Respond, Serve, PostBegin, PayloadRejected, PostRejected, Resolve,
                ResolveRate, Insert, InsertPosted, PostFails, Cut, Rollback, vars
  <1>4. ASSUME NEW s \in Session, VoidWorks(s) PROVE UNCHANGED <<txns, cacheVars>>
    BY <1>4 DEF VoidWorks, MarkVoided, AlreadyVoided, InsertReversal, Rollback
  <1>5. ASSUME UNCHANGED vars PROVE UNCHANGED txns
    BY <1>5 DEF vars
  <1>6. UNCHANGED apiVars => UNCHANGED <<txns, cacheVars>>
    BY <1>5 DEF apiVars
  <1>7. ASSUME NEW s \in Session, ApiStep(s)
        PROVE  UNCHANGED <<txns, cacheVars>> \/ Commits(s) \/ Invalidate(s)
    <2>1. CASE s \in Poster /\ (PassGate(s) \/ Respond(s) \/ Serve(s) \/ PayloadRejected(s)
                                \/ Resolve(s) \/ Insert(s) \/ PostFails(s))
      BY <1>3, <2>1
    <2> QED  BY <1>4, <1>7, <2>1 DEF ApiStep, Commits
  <1> QED  BY <1>1, <1>2, <1>5, <1>6, <1>7 DEF ApiNext, Reads

-----------------------------------------------------------------------------
(* Cached balances *)

(* The balance of a watched account is moved only by what has it among its *)
(* accounts.                                                               *)
LEMMA AddsOthersBalance ==
  ASSUME TypeOK, TypeOK', NEW s, NEW t, Adds(s, t), NEW a, NEW day,
         a \notin AccountsOf(txns'[t].entries)
  PROVE  CalculateBalance(txns, a, day) = CalculateBalance(txns', a, day)
  <1>1. /\ DOMAIN txns \subseteq DOMAIN txns' /\ DOMAIN txns' \ DOMAIN txns = {t}
        /\ \A u \in DOMAIN txns : SameRow(txns[u], txns'[u])
    BY DEF Adds
  <1>2. ASSUME NEW u \in DOMAIN txns
        PROVE  /\ txns'[u].date = txns[u].date /\ txns'[u].entries = txns[u].entries
               /\ txns[u].status \in CountedStatus /\ txns'[u].status \in CountedStatus
    BY <1>1 DEF SameRow, TypeOK, TxRow, Status, CountedStatus
  <1>3. \A i \in DOMAIN txns'[t].entries : txns'[t].entries[i].account # a
    BY DEF AccountsOf
  <1> QED  BY <1>1, <1>2, <1>3, SameBalance

(* An invalidation leaves what it has still to delete for later, unless it *)
(* fails.                                                                  *)
LEMMA SweepEffect ==
  ASSUME CacheSound, NEW s \in Session, Invalidate(s), NEW k \in DOMAIN cache'
  PROVE  /\ k \in DOMAIN cache
         /\ \/ cache'[k].doubt = "late"
            \/ cache'[k] = cache[k] /\ Right(k)
            \/ cache'[k] = cache[k] /\ (WillDelete(s, k) => WillDelete(s, k)')
         /\ \A q \in Session \ {s} : sweep'[q] = sweep[q]
  <1>0. /\ DOMAIN sweep = Session /\ DOMAIN cache \subseteq Watched
        /\ sweep[s] \in [todo : SUBSET Account, left : SUBSET Watched, found : SUBSET Watched]
    BY DEF CacheSound
  <1>1. \A q \in Session \ {s} : sweep'[q] = sweep[q]
    BY <1>0, SweepApart DEF Goes
  <1>2. CASE SweepAccount(s)
    <2>1. PICK a \in sweep[s].todo :
            sweep'[s] = [todo |-> sweep[s].todo \ {a},
                         left |-> {l \in Watched : l[1] = a}, found |-> {}]
      BY <1>0, <1>2 DEF SweepAccount, Goes
    <2>2. cache' = cache /\ sweep[s].left = {} /\ sweep[s].found = {}
      BY <1>2 DEF SweepAccount
    <2> QED  BY <1>0, <1>1, <2>1, <2>2 DEF WillDelete
  <1>3. CASE Scan(s)
    <2>1. PICK l \in sweep[s].left :
            sweep'[s] = [todo |-> sweep[s].todo, left |-> sweep[s].left \ {l},
                         found |-> sweep[s].found \cup ({l} \cap DOMAIN cache)]
      BY <1>0, <1>3 DEF Scan, Goes
    <2>2. cache' = cache
      BY <1>3 DEF Scan
    <2> QED  BY <1>1, <2>1, <2>2 DEF WillDelete
  <1>4. CASE DeleteFound(s)
    <2>1. /\ sweep'[s].todo = sweep[s].todo /\ sweep[s].left = {}
          /\ cache' = [l \in DOMAIN cache \ sweep[s].found |-> cache[l]]
      BY <1>0, <1>4 DEF DeleteFound, Goes, Remove
    <2>2. k \in DOMAIN cache /\ k \notin sweep[s].found /\ cache'[k] = cache[k]
      BY <2>1
    <2> QED  BY <1>1, <2>1, <2>2 DEF WillDelete
  <1>5. CASE SweepFails(s)
    <2>1. PICK deleted : Abandon(s, deleted, "late")
      BY <1>5 DEF SweepFails
    <2>2. k \in DOMAIN cache
          /\ cache'[k] = IF WillDelete(s, k) /\ ~ Right(k) /\ cache[k].doubt # "late"
                         THEN Cached(cache[k].balance, "late") ELSE cache[k]
      BY <2>1 DEF Abandon
    <2>3. Cached(cache[k].balance, "late").doubt = "late"
      BY DEF Cached
    <2> QED  BY <1>1, <2>2, <2>3
  <1> QED  BY <1>2, <1>3, <1>4, <1>5 DEF Invalidate

(* What a cut leaves to delete is marked, if it is wrong.                  *)
LEMMA CutEffect ==
  ASSUME CacheSound, NEW s \in Session, ApiCut(s)
  PROVE  /\ txns' = txns /\ gone' = gone \cup {s} /\ DOMAIN cache' = DOMAIN cache
         /\ \A q \in Session \ {s} : sweep'[q] = sweep[q]
         /\ \A k \in DOMAIN cache :
              /\ cache'[k].balance = cache[k].balance
              /\ cache'[k].doubt # "late" => cache[k].doubt # "late"
              /\ cache'[k].doubt = "none" =>
                   cache[k].doubt = "none" /\ (WillDelete(s, k) => Right(k))
  <1>1. txns' = txns /\ gone' = gone \cup {s} /\ Abandon(s, {}, "cut")
    BY DEF ApiCut, Cut, Rollback, vars
  <1>2. \A q \in Session \ {s} : sweep'[q] = sweep[q]
    BY <1>1 DEF Abandon, Goes, CacheSound
  <1>3. /\ DOMAIN cache' = DOMAIN cache
        /\ \A k \in DOMAIN cache :
             cache'[k] = IF WillDelete(s, k) /\ ~ Right(k) /\ cache[k].doubt # "late"
                         THEN Cached(cache[k].balance, "cut") ELSE cache[k]
    BY <1>1 DEF Abandon
  <1>4. \A x : Cached(x, "cut").balance = x /\ Cached(x, "cut").doubt = "cut"
    BY DEF Cached
  <1>5. ASSUME NEW k \in DOMAIN cache
        PROVE  /\ cache'[k].balance = cache[k].balance
               /\ cache'[k].doubt # "late" => cache[k].doubt # "late"
               /\ cache'[k].doubt = "none" =>
                    cache[k].doubt = "none" /\ (WillDelete(s, k) => Right(k))
    <2>1. CASE WillDelete(s, k) /\ ~ Right(k) /\ cache[k].doubt # "late"
      BY <1>3, <1>4, <2>1
    <2>2. CASE ~ (WillDelete(s, k) /\ ~ Right(k) /\ cache[k].doubt # "late")
      BY <1>3, <2>2
    <2> QED  BY <2>1, <2>2
  <1> QED  BY <1>1, <1>2, <1>3, <1>5

(* A reader that SETs a balance of the past is late.                       *)
LEMMA ReadsEffect ==
  ASSUME Reads, NEW k \in DOMAIN cache'
  PROVE  \/ k \in DOMAIN cache /\ cache'[k] = cache[k]
         \/ cache'[k].doubt = "late"
         \/ cache'[k].balance = CalculateBalance(txns, k[1], k[2])
  <1>1. ASSUME NEW l, NEW x, Set(l, x), k = l
        PROVE  \/ cache'[k].doubt = "late"
               \/ cache'[k].balance = CalculateBalance(txns, k[1], k[2])
    <2>1. cache'[k] = Cached(x, IF x = CalculateBalance(txns, k[1], k[2]) THEN "none" ELSE "late")
      BY <1>1 DEF Set
    <2> QED  BY <2>1 DEF Cached
  <1>2. ASSUME NEW l, NEW x, Set(l, x), k # l
        PROVE  k \in DOMAIN cache /\ cache'[k] = cache[k]
    BY <1>2 DEF Set
  <1>3. ASSUME NEW r \in Reader, EndReading(r), ~ UNCHANGED cache PROVE \E l, x : Set(l, x)
    BY <1>3 DEF EndReading
  <1>4. ASSUME NEW l, ExpireBalance(l) PROVE k \in DOMAIN cache /\ cache'[k] = cache[k]
    BY <1>4 DEF ExpireBalance, Remove
  <1>5. ASSUME NEW r, NEW l, ComputeBalance(r, l) PROVE cache' = cache
    BY <1>5 DEF ComputeBalance
  <1> QED  BY <1>1, <1>2, <1>3, <1>4, <1>5 DEF Reads

LEMMA CachedStep ==
  Sound /\ SweepSound /\ TypeOK' /\ CachedIsExact /\ [ApiNext]_apiVars => CachedIsExact'
  <1> SUFFICES ASSUME Sound, SweepSound, TypeOK', CachedIsExact, [ApiNext]_apiVars,
                      NEW k \in DOMAIN cache', cache'[k].doubt = "none"
               PROVE  Right(k)' \/ \E q \in Session : WillDelete(q, k)'
    BY DEF CachedIsExact
  <1>0. /\ CacheSound
        /\ k \in DOMAIN cache /\ cache[k].doubt = "none" =>
             Right(k) \/ \E q \in Session : WillDelete(q, k)
    BY DEF CachedIsExact, SweepSound
  <1>1. CASE UNCHANGED <<txns, cacheVars>>
    BY <1>0, <1>1 DEF cacheVars, Right, WillDelete
  <1>2. ASSUME NEW s \in Session, NEW t \in TxId, Adds(s, t)
        PROVE  Right(k)' \/ \E q \in Session : WillDelete(q, k)'
    <2>1. /\ cache' = cache /\ sweep'[s].todo = Asked(txns'[t].entries)
          /\ sweep[s] = NoSweep /\ \A q \in Session \ {s} : sweep'[q] = sweep[q]
      BY <1>0, <1>2 DEF Adds, CacheSound, NoSweep
    <2>2. CASE k[1] \in AccountsOf(txns'[t].entries)
      <3>1. k[1] \in Asked(txns'[t].entries)
        BY <1>0, <2>1, <2>2 DEF Asked, CacheSound
      <3> QED  BY <2>1, <3>1 DEF WillDelete
    <2>3. CASE k[1] \notin AccountsOf(txns'[t].entries)
      <3>1. CalculateBalance(txns, k[1], k[2]) = CalculateBalance(txns', k[1], k[2])
        BY <1>2, <2>3, AddsOthersBalance DEF Sound
      <3>2. ~ WillDelete(s, k)
        BY <2>1 DEF WillDelete, NoSweep
      <3> QED  BY <1>0, <2>1, <3>1, <3>2 DEF Right, WillDelete
    <2> QED  BY <2>2, <2>3
  <1>3. ASSUME NEW s \in Session, Invalidate(s)
        PROVE  Right(k)' \/ \E q \in Session : WillDelete(q, k)'
    <2>1. k \in DOMAIN cache /\ cache'[k] = cache[k] /\ cache[k].doubt = "none" /\ txns' = txns
      BY <1>0, <1>3, SweepEffect, SweepApart DEF vars
    <2>2. \A q \in Session \ {s} : WillDelete(q, k) => WillDelete(q, k)'
      BY <1>0, <1>3, SweepEffect DEF WillDelete
    <2>3. Right(k) => Right(k)'
      BY <2>1 DEF Right
    <2>4. Right(k) \/ (WillDelete(s, k) => WillDelete(s, k)')
      BY <1>0, <1>3, SweepEffect
    <2> QED  BY <1>0, <2>1, <2>2, <2>3, <2>4
  <1>4. ASSUME NEW s \in Session, ApiCut(s)
        PROVE  Right(k)' \/ \E q \in Session : WillDelete(q, k)'
    <2>1. /\ k \in DOMAIN cache /\ cache'[k].balance = cache[k].balance /\ txns' = txns
          /\ cache[k].doubt = "none" /\ (WillDelete(s, k) => Right(k))
          /\ \A q \in Session \ {s} : sweep'[q] = sweep[q]
      BY <1>0, <1>4, CutEffect
    <2> QED  BY <1>0, <2>1 DEF Right, WillDelete
  <1>5. CASE Reads
    <2>1. sweep' = sweep /\ txns' = txns
      BY <1>5, ReadsApart DEF vars
    <2> QED  BY <1>0, <1>5, <2>1, ReadsEffect DEF Right, WillDelete
  <1> QED  BY <1>1, <1>2, <1>3, <1>4, <1>5, ApiEffects, CommitAdds

(* Sound, of every state of the endpoints.                                 *)
LEMMA ApiSound == ApiSpec => [](Sound /\ SweepSound)
  BY ApiLinked, InitSweep, SweepStep, PTL DEF ApiSpec

(* A cached balance that was right when it was SET is the balance of the   *)
(* journal, or a request has it still to delete, lost Redis or was cut     *)
(* before it did: the accounts _invalidate_balance_cache is given are all  *)
(* those the COMMIT before it moved, and its SCANs come to each of their   *)
(* keys, between whatever steps of readers and of other requests.  (What a *)
(* reader SETs too late is wrong from the start.)                          *)
THEOREM ApiCachedIsExact == ApiSpec => []CachedIsExact
  <1>1. ApiInit => CachedIsExact
    BY DEF ApiInit, CachedIsExact
  <1>2. Sound => TypeOK
    BY DEF Sound
  <1> QED  BY <1>1, <1>2, ApiSound, CachedStep, PTL DEF ApiSpec

-----------------------------------------------------------------------------
(* What a client has been told *)

\* What the gate has on record, and what it tells, is of the journal.
OnRecord ==
  /\ \A k \in Key : store[k].state = "response" => store[k].tx \in DOMAIN journal
  /\ \A s \in Poster :
       /\ gate[s] \in {"idle", "claim", "look"} => ctx[s] = Idem!NoContext
       /\ gate[s] \in {"claim", "look"} => Idem!KeyOf(s) \in Key
       /\ gate[s] = "cache" => ctx[s].tx \in DOMAIN journal
       /\ gate[s] = "admit" /\ ctx[s].kind = "replay" => ctx[s].tx \in DOMAIN journal
       /\ reply[s].code \in {200, 201} => reply[s].tx \in DOMAIN journal

LEMMA RecordInvariant == ApiSpec => []OnRecord
  <1>1. GateProofs!Spec => []GateProofs!AnswersInv
    BY GateAssumption, GateProofs!AnswersInvariant
  <1>2. GateProofs!AnswersInv => OnRecord
    BY DEF GateProofs!AnswersInv, GateProofs!RequestSound, GateProofs!StoredSound,
           GateProofs!Names, OnRecord, Idem!NoContext, GateProofs!NoContext,
           Idem!KeyOf, GateProofs!KeyOf
  <1> QED  BY <1>1, <1>2, ThroughTheGate, PTL

\* Nobody has been told of t, and no answer on its way names it.
Unheard(t) ==
  /\ \A s \in Poster :
       /\ reply[s].code \in {200, 201} => reply[s].tx # t
       /\ gate[s] = "admit" /\ ctx[s].kind = "replay" => ctx[s].tx # t
  /\ \A k \in Key : store[k].state = "response" => store[k].tx # t

\* Who is about to be told of t, or has the 200 of the void it reverses, has still to
\* delete what is cached under k.
Awaited(t, k) ==
  /\ \A s \in Poster : gate[s] = "cache" /\ ctx[s].tx = t => WillDelete(s, k)
  /\ \A s \in Session :
       s \notin gone /\ resp[s] = Answer(200, txns[t].reversalOf) => WillDelete(s, k)

LEMMA NothingToDelete == \A s, k : sweep[s] = NoSweep => ~ WillDelete(s, k)
  BY DEF WillDelete, NoSweep

LEMMA GateUnheard ==
  ASSUME Sound, OnRecord, NEW t, Unheard(t), NEW s \in Poster,
         \/ Idem!Claim(s) \/ Idem!Look(s) \/ Idem!Refused(s) \/ Idem!Replay(s) \/ Idem!DeleteKey(s)
         \/ Idem!Fails(s) \/ Idem!Create(s) \/ Idem!Commit(s) \/ Idem!Crash(s)
         \/ Idem!Cache(s) /\ ctx[s].tx # t
         \/ \E k, p : Idem!Arrive(s, k, p)
  PROVE  Unheard(t)'
  <1>0. /\ DOMAIN gate = Poster /\ DOMAIN ctx = Poster /\ DOMAIN reply = Poster /\ DOMAIN store = Key
        /\ \A q \in Poster : ctx[q] \in Idem!Context
    BY DEF Sound, Idem!TypeOK
  <1>1. ASSUME NEW answer, Idem!Finish(s, answer), answer.code \in {200, 201} => answer.tx # t,
               \A k \in Key : store'[k].state = "response" => store'[k].tx # t
        PROVE  Unheard(t)'
    BY <1>0, <1>1 DEF Idem!Finish, Idem!Goto, Unheard
  <1>2. ASSUME NEW where, Idem!Goto(s, where), reply' = reply,
               \/ ctx' = ctx
               \/ \E v : ctx' = [ctx EXCEPT ![s] = v] /\ (v.kind = "replay" => v.tx # t),
               where = "admit" /\ ctx' = ctx => ctx[s].kind # "replay",
               \A k \in Key : store'[k].state = "response" => store'[k].tx # t
        PROVE  Unheard(t)'
    BY <1>0, <1>2 DEF Idem!Goto, Unheard
  <1>3. ASSUME NEW v, Idem!Put(s, v), v.state = "response" => v.tx # t, NEW k \in Key,
               store'[k].state = "response"
        PROVE  store'[k].tx # t
    BY <1>0, <1>3 DEF Idem!Put, Unheard
  <1>4. ASSUME store' = store, NEW k \in Key, store'[k].state = "response"
        PROVE  store'[k].tx # t
    BY <1>4 DEF Unheard
  <1>5. ASSUME NEW code, NEW x PROVE Idem!Answer(code, x).code = code /\ Idem!Answer(code, x).tx = x
    BY DEF Idem!Answer
  <1>6. CASE Idem!Claim(s)
    <2>1. CASE store[Idem!KeyOf(s)] = Idem!Absent
      <3>1. /\ Idem!Goto(s, "admit") /\ reply' = reply
            /\ Idem!Put(s, Idem!Pending(ask[s].body))
            /\ ctx' = [ctx EXCEPT ![s] = [ctx[s] EXCEPT !.kind = "guard"]]
        BY <1>6, <2>1 DEF Idem!Claim
      <3>2. [ctx[s] EXCEPT !.kind = "guard"].kind = "guard"
        BY <1>0 DEF Idem!Context
      <3>3. Idem!Pending(ask[s].body).state = "pending"
        BY DEF Idem!Pending
      <3>4. ctx[s].kind # "replay"
        BY <1>6 DEF OnRecord, Idem!Claim, Idem!NoContext
      <3> QED  BY <1>2, <1>3, <3>1, <3>2, <3>3, <3>4
    <2>2. CASE store[Idem!KeyOf(s)] # Idem!Absent
      <3>1. Idem!Goto(s, "look") /\ reply' = reply /\ store' = store /\ ctx' = ctx
        BY <1>6, <2>2 DEF Idem!Claim
      <3> QED  BY <1>2, <1>4, <3>1
    <2> QED  BY <2>1, <2>2
  <1>7. CASE Idem!Look(s)
    <2> DEFINE found == store[Idem!KeyOf(s)]
               replay == [kind |-> "replay", tx |-> found.tx]
    <2>1. CASE found.state = "response" /\ found.fingerprint = ask[s].body
      <3>1. /\ Idem!Goto(s, "admit") /\ reply' = reply /\ store' = store
            /\ ctx' = [ctx EXCEPT ![s] = replay]
        BY <1>7, <2>1 DEF Idem!Look
      <3>2. replay.tx # t
        <4>1. Idem!KeyOf(s) \in Key
          BY <1>7 DEF Idem!Look, OnRecord
        <4> QED  BY <2>1, <4>1 DEF Unheard
      <3>3. ctx[s].kind # "replay"
        BY <1>7 DEF OnRecord, Idem!Look, Idem!NoContext
      <3> HIDE DEF replay
      <3> QED  BY <1>2, <1>4, <3>1, <3>2, <3>3
    <2>2. CASE ~ (found.state = "response" /\ found.fingerprint = ask[s].body)
      <3>1. /\ store' = store
            /\ Idem!Finish(s, Idem!Answer(Idem!Duplicate(found, ask[s].body), NoTx))
        BY <1>7, <2>2 DEF Idem!Look
      <3>2. Idem!Duplicate(found, ask[s].body) \notin {200, 201}
        BY DEF Idem!Duplicate
      <3> QED  BY <1>1, <1>4, <1>5, <3>1, <3>2
    <2> QED  BY <2>1, <2>2
  <1>8. CASE Idem!Refused(s) \/ Idem!Fails(s)
    <2>1. \/ Idem!Goto(s, "delete") /\ ctx' = ctx /\ reply' = reply /\ store' = store
          \/ store' = store /\ Idem!Finish(s, Idem!Answer(401, NoTx))
          \/ store' = store /\ Idem!Finish(s, Idem!Answer(422, NoTx))
      BY <1>8 DEF Idem!Refused, Idem!Fails, Idem!Raise
    <2> QED  BY <1>1, <1>2, <1>4, <1>5, <2>1
  <1>9. CASE Idem!Replay(s)
    <2>1. store' = store /\ Idem!Finish(s, Idem!Answer(200, ctx[s].tx)) /\ ctx[s].tx # t
      BY <1>9 DEF Idem!Replay, Unheard
    <2> QED  BY <1>1, <1>4, <1>5, <2>1
  <1>10. CASE Idem!DeleteKey(s)
    <2>1. Idem!Put(s, Idem!Absent) /\ Idem!Finish(s, Idem!Answer(422, NoTx))
      BY <1>10 DEF Idem!DeleteKey
    <2>2. Idem!Absent.state # "response"
      BY DEF Idem!Absent
    <2> QED  BY <1>1, <1>3, <1>5, <2>1, <2>2
  <1>11. CASE Idem!Create(s)
    <2>1. PICK x : ctx' = [ctx EXCEPT ![s] = [ctx[s] EXCEPT !.tx = x]]
      BY <1>11 DEF Idem!Create
    <2>2. [ctx[s] EXCEPT !.tx = x].kind = ctx[s].kind
      BY <1>0 DEF Idem!Context
    <2>3. Idem!Goto(s, "commit") /\ reply' = reply /\ store' = store /\ ctx[s].kind # "replay"
      BY <1>11 DEF Idem!Create
    <2> QED  BY <1>2, <1>4, <2>1, <2>2, <2>3
  <1>12. CASE Idem!Commit(s)
    <2>1. Idem!Goto(s, "cache") /\ reply' = reply /\ store' = store /\ ctx' = ctx
      BY <1>12 DEF Idem!Commit
    <2> QED  BY <1>2, <1>4, <2>1
  <1>13. CASE Idem!Crash(s)
    <2>1. store' = store /\ Idem!Finish(s, Idem!Answer(0, NoTx))
      BY <1>13 DEF Idem!Crash, Idem!NoAnswer
    <2> QED  BY <1>1, <1>4, <1>5, <2>1
  <1>14. CASE Idem!Cache(s) /\ ctx[s].tx # t
    <2>1. Idem!Finish(s, Idem!Answer(201, ctx[s].tx))
      BY <1>14 DEF Idem!Cache
    <2>2. store' = store \/ Idem!Put(s, Idem!Response(ask[s].body, ctx[s].tx))
      BY <1>14 DEF Idem!Cache
    <2>3. Idem!Response(ask[s].body, ctx[s].tx).tx = ctx[s].tx
      BY DEF Idem!Response
    <2>4. \A k \in Key : store'[k].state = "response" => store'[k].tx # t
      BY <1>3, <1>4, <1>14, <2>2, <2>3
    <2> QED  BY <1>1, <1>5, <1>14, <2>1, <2>4
  <1>15. CASE \E k, p : Idem!Arrive(s, k, p)
    <2>1. PICK k, p : Idem!Arrive(s, k, p)
      BY <1>15
    <2>2. /\ gate' = [gate EXCEPT ![s] = IF k = NoKey THEN "admit" ELSE "claim"]
          /\ reply' = [reply EXCEPT ![s] = Idem!NoAnswer] /\ ctx' = ctx /\ store' = store
          /\ gate[s] = "idle"
      BY <2>1 DEF Idem!Arrive, Idem!Goto
    <2>3. ctx[s].kind # "replay" /\ Idem!NoAnswer.code = 0
      BY <2>2 DEF OnRecord, Idem!NoContext, Idem!NoAnswer, Idem!Answer
    <2> QED  BY <1>0, <2>2, <2>3 DEF Unheard
  <1> QED  BY <1>6, <1>7, <1>8, <1>9, <1>10, <1>11, <1>12, <1>13, <1>14, <1>15

(* Nobody hears of t who has not invalidated the accounts it moved.        *)
LEMMA UnheardStep ==
  ASSUME Sound, OnRecord, [ApiNext]_apiVars, NEW t, Unheard(t),
         \A s \in Poster : gate[s] = "cache" /\ ctx[s].tx = t => sweep[s] # NoSweep
  PROVE  Unheard(t)'
  <1>1. ASSUME UNCHANGED gateVars PROVE Unheard(t)'
    BY <1>1 DEF gateVars, Unheard
  <1>2. UNCHANGED apiVars => UNCHANGED gateVars
    BY DEF apiVars
  <1>3. ASSUME NEW s \in Session, NEW k, NEW p, PostArrives(s, k, p) PROVE Unheard(t)'
    BY <1>3, GateUnheard DEF PostArrives
  <1>4. ASSUME NEW s \in Session, NEW u, VoidArrives(s, u) PROVE UNCHANGED gateVars
    BY <1>4 DEF VoidArrives
  <1>5. ASSUME NEW s \in Session, ApiStep(s) PROVE Unheard(t)'
    <2>1. CASE VoidWorks(s) \/ VoidCommits(s) \/ Invalidate(s) \/ Serve(s) \/ Resolve(s)
      BY <1>1, <2>1, SweepApart DEF VoidWorks, VoidCommits, Serve, Resolve
    <2>2. CASE s \in Poster /\ (PassGate(s) \/ PayloadRejected(s) \/ Insert(s) \/ PostFails(s)
                                \/ PostCommits(s))
      BY <2>2, GateUnheard DEF PassGate, PayloadRejected, Insert, PostFails, PostCommits
    <2>3. CASE s \in Poster /\ Respond(s)
      <3>1. Idem!Cache(s) /\ ctx[s].tx # t
        BY <2>3 DEF Respond, Idem!Cache
      <3> QED  BY <2>3, <3>1, GateUnheard
    <2> QED  BY <1>5, <2>1, <2>2, <2>3 DEF ApiStep
  <1>6. ASSUME NEW s \in Session, ApiCut(s) PROVE Unheard(t)'
    <2>1. CASE Gated(s)
      BY <1>6, <2>1, GateUnheard DEF ApiCut, Gated
    <2>2. CASE ~ Gated(s)
      BY <1>1, <1>6, <2>2 DEF ApiCut
    <2> QED  BY <2>1, <2>2
  <1>7. ASSUME NEW k \in Key, Idem!Expire(k) PROVE Unheard(t)'
    <2>1. store' = [store EXCEPT ![k] = Idem!Absent] /\ UNCHANGED <<gate, ctx, reply>>
      BY <1>7 DEF Idem!Expire
    <2>2. Idem!Absent.state # "response"
      BY DEF Idem!Absent
    <2>3. DOMAIN store = Key
      BY DEF Sound, Idem!TypeOK
    <2> QED  BY <2>1, <2>2, <2>3 DEF Unheard
  <1> QED  BY <1>1, <1>2, <1>3, <1>4, <1>5, <1>6, <1>7, ReadsApart DEF ApiNext, Reads

(* Which step makes it so that a post waits for its invalidation.          *)
LEMMA CacheAt ==
  ASSUME Sound, [ApiNext]_apiVars, NEW s \in Poster, gate'[s] = "cache"
  PROVE  (gate[s] = "cache" /\ ctx'[s] = ctx[s]) \/ PostCommits(s)
  <1>0. s \in Session /\ DOMAIN gate = Poster
    BY PaymentApiAssumption DEF Sound, Idem!TypeOK
  <1>1. ASSUME UNCHANGED <<gate, ctx>> PROVE gate[s] = "cache" /\ ctx'[s] = ctx[s]
    BY <1>1
  <1>2. UNCHANGED gateVars \/ UNCHANGED apiVars => UNCHANGED <<gate, ctx>>
    BY DEF apiVars, gateVars
  <1>3. ASSUME NEW q \in Session,
               \/ \E k \in Key \cup {NoKey}, p \in Payloads : PostArrives(q, k, p)
               \/ \E t \in TxId : VoidArrives(q, t)
               \/ ApiStep(q) \/ ApiCut(q)
        PROVE  (gate[s] = "cache" /\ ctx'[s] = ctx[s]) \/ PostCommits(s)
    <2>1. CASE q # s
      <3>1. GateOthers(q)
        BY <1>3, OnlyOwn DEF Sound
      <3> QED  BY <2>1, <3>1 DEF GateOthers
    <2>2. CASE q = s /\ (PassGate(s) \/ PayloadRejected(s) \/ Insert(s) \/ PostFails(s) \/ Respond(s)
                         \/ \E k \in Key \cup {NoKey}, p \in Payloads : PostArrives(s, k, p))
      <3>1. \E where \in {"admit", "look", "claim", "delete", "idle", "commit"} : Idem!Goto(s, where)
        BY <2>2 DEF PassGate, PayloadRejected, Insert, PostFails, Respond, PostArrives, Idem!Arrive,
                    Idem!Claim, Idem!Look, Idem!Refused, Idem!Replay, Idem!DeleteKey, Idem!Fails,
                    Idem!Create, Idem!Cache, Idem!Raise, Idem!Finish
      <3> QED  BY <1>0, <3>1 DEF Idem!Goto
    <2>3. CASE q = s /\ (VoidWorks(s) \/ VoidCommits(s) \/ Invalidate(s) \/ Serve(s) \/ Resolve(s)
                         \/ \E t \in TxId : VoidArrives(s, t))
      BY <1>1, <1>2, <2>3, SweepApart DEF VoidWorks, VoidCommits, Serve, Resolve, VoidArrives
    <2>4. CASE q = s /\ ApiCut(s)
      <3>1. UNCHANGED gateVars \/ gate'[s] = "idle"
        BY <1>0, <2>4 DEF ApiCut, Idem!Crash, Idem!Finish, Idem!Goto
      <3> QED  BY <1>1, <1>2, <3>1
    <2> QED  BY <1>3, <2>1, <2>2, <2>3, <2>4 DEF ApiStep
  <1>4. ASSUME Reads \/ \E k : Idem!Expire(k) PROVE UNCHANGED <<gate, ctx>>
    BY <1>4, ReadsApart DEF gateVars, Idem!Expire
  <1> QED  BY <1>1, <1>2, <1>3, <1>4 DEF ApiNext, Reads

(* Only the COMMIT of a void answers 200 to it.                            *)
LEMMA RespAt ==
  ASSUME Sound, [ApiNext]_apiVars, NEW s \in Session, resp'[s].code = 200
  PROVE  resp'[s] = resp[s] \/ VoidCommits(s)
  <1>0. DOMAIN resp = Session /\ IInv
    BY DEF Sound, TypeOK, IInv
  <1>1. UNCHANGED vars => resp' = resp
    BY DEF vars, local
  <1>2. UNCHANGED apiVars => resp' = resp
    BY <1>1 DEF apiVars
  <1>3. ASSUME NEW answer, Finish(s, answer) PROVE resp'[s] = answer
    BY <1>0, <1>3 DEF Finish
  <1>4. ASSUME NEW code, NEW t PROVE Answer(code, t).code = code
    BY DEF Answer
  <1>5. ASSUME NEW q \in Session \ {s},
               Step(q) \/ Cut(q) \/ (\E p : PostBegin(q, p) \/ PostRejected(q, p))
                 \/ \E t : VoidBegin(q, t) \/ VoidNotFound(q, t)
        PROVE  resp'[s] = resp[s]
    <2>1. ASSUME NEW answer, Finish(q, answer) PROVE resp'[s] = resp[s]
      BY <1>0, <2>1 DEF Finish
    <2>2. CASE NoRate(q) \/ InsertFails(q) \/ CommitPost(q) \/ CommitRefused(q) \/ AlreadyVoided(q)
               \/ CommitVoid(q) \/ Cut(q) \/ (\E p : PostRejected(q, p)) \/ \E t : VoidNotFound(q, t)
      BY <2>1, <2>2 DEF NoRate, InsertFails, CommitPost, CommitRefused, AlreadyVoided, CommitVoid,
                        Cut, PostRejected, VoidNotFound, Rollback, Commit
    <2>3. CASE ResolveRate(q) \/ InsertPosted(q) \/ MarkVoided(q) \/ InsertReversal(q)
      BY <2>3 DEF ResolveRate, InsertPosted, MarkVoided, InsertReversal
    <2>4. ASSUME NEW p, PostBegin(q, p) PROVE resp'[s] = resp[s]
      BY <1>0, <2>4 DEF PostBegin
    <2>5. ASSUME NEW t, VoidBegin(q, t) PROVE resp'[s] = resp[s]
      BY <1>0, <2>5 DEF VoidBegin
    <2> QED  BY <1>5, <2>2, <2>3, <2>4, <2>5 DEF Step
  <1>6. ASSUME NEW q \in Session,
               \/ \E k \in Key \cup {NoKey}, p \in Payloads : PostArrives(q, k, p)
               \/ \E t \in TxId : VoidArrives(q, t)
               \/ ApiStep(q) \/ ApiCut(q)
        PROVE  resp'[s] = resp[s] \/ VoidCommits(s)
    <2>1. CASE UNCHANGED vars
      BY <1>1, <2>1
    <2>2. \/ UNCHANGED vars
          \/ Step(q) \/ Cut(q) \/ (\E p : PostBegin(q, p) \/ PostRejected(q, p))
          \/ (\E t : VoidBegin(q, t) \/ VoidNotFound(q, t))
      <3>1. CASE \/ \E k \in Key \cup {NoKey}, p \in Payloads : PostArrives(q, k, p)
                 \/ \E t \in TxId : VoidArrives(q, t)
                 \/ ApiCut(q)
        BY <3>1 DEF PostArrives, VoidArrives, ApiCut
      <3>2. CASE ApiStep(q)
        <4>1. CASE PassGate(q) \/ Respond(q) \/ Invalidate(q)
          BY <4>1, SweepApart DEF PassGate, Respond
        <4>2. CASE Serve(q) \/ PayloadRejected(q) \/ PostFails(q)
          BY <4>2 DEF Serve, PayloadRejected, PostFails
        <4>3. CASE Resolve(q) \/ Insert(q) \/ PostCommits(q) \/ VoidWorks(q) \/ VoidCommits(q)
          BY <4>3 DEF Resolve, Insert, PostCommits, VoidWorks, VoidCommits, Step
        <4> QED  BY <3>2, <4>1, <4>2, <4>3 DEF ApiStep
      <3> QED  BY <1>6, <3>1, <3>2
    <2>3. CASE q # s
      BY <1>5, <2>1, <2>2, <2>3
    <2>4. CASE q = s
      <3>1. CASE Serve(s) \/ \E t \in TxId : VoidArrives(s, t) /\ VoidBegin(s, t)
        <4>1. resp' = [resp EXCEPT ![s] = NoAnswer]
          BY <3>1 DEF Serve, PostBegin, VoidBegin
        <4> QED  BY <1>0, <4>1 DEF NoAnswer
      <3>2. CASE Resolve(s) \/ Insert(s) \/ MarkVoided(s) \/ InsertReversal(s)
        BY <3>2 DEF Resolve, ResolveRate, Insert, InsertPosted, MarkVoided, InsertReversal
      <3>3. CASE PayloadRejected(s) \/ PostFails(s) \/ AlreadyVoided(s) \/ (pc[s] # "idle" /\ ApiCut(s))
                 \/ (\E t \in TxId : VoidNotFound(s, t))
        <4>1. \/ Finish(s, Answer(422, NoTx)) \/ Finish(s, NoAnswer) \/ Finish(s, Answer(409, req[s]))
              \/ Finish(s, Answer(404, NoTx))
          BY <3>3 DEF PayloadRejected, PostRejected, PostFails, Cut, AlreadyVoided, ApiCut,
                      VoidNotFound, Rollback
        <4>2. resp'[s].code # 200
          BY <1>3, <1>4, <4>1 DEF NoAnswer
        <4> QED  BY <4>2
      <3>4. CASE s \in Poster /\ PostCommits(s)
        <4>0. CommitPost(s)
          BY <3>4 DEF PostCommits
        <4>1. PICK t : \E answer \in {Answer(201, t), NoAnswer} : Finish(s, answer)
          BY <1>0, <4>0, PostAnswered
        <4>2. PICK answer \in {Answer(201, t), NoAnswer} : Finish(s, answer)
          BY <4>1
        <4>3. answer.code # 200
          BY <1>4, <4>2 DEF NoAnswer
        <4>4. resp'[s] = answer
          BY <1>3, <4>2
        <4> QED  BY <4>3, <4>4
      <3>5. ASSUME \/ PassGate(s) \/ Respond(s) \/ Invalidate(s) \/ (pc[s] = "idle" /\ ApiCut(s))
                   \/ \E k \in Key \cup {NoKey}, p \in Payloads : PostArrives(s, k, p)
            PROVE  UNCHANGED vars
        BY <3>5, SweepApart DEF PassGate, Respond, ApiCut, PostArrives
      <3>6. CASE VoidWorks(s) \/ \E t \in TxId : VoidArrives(s, t)
        BY <3>1, <3>2, <3>3, <3>6 DEF VoidWorks, VoidArrives
      <3> QED  BY <1>6, <2>1, <2>4, <3>1, <3>2, <3>3, <3>4, <3>5, <3>6 DEF ApiStep
    <2> QED  BY <2>3, <2>4
  <1>7. Reads => resp' = resp
    BY <1>1, ReadsApart
  <1> QED  BY <1>1, <1>2, <1>6, <1>7 DEF ApiNext, Reads

\* The rows of a table under these ids.
PartOf(table, seen) == [t \in seen |-> table[t]]

(* A balance is that of a part of the journal, what is left out of which   *)
(* nobody has been told of.  It says more than ToldIsVisible: whoever is   *)
(* about to be told has this key still to delete.                          *)
Sees(k, seen) ==
  /\ cache[k].balance = CalculateBalance(PartOf(txns, seen), k[1], k[2])
  /\ \A t \in DOMAIN txns \ seen : Unheard(t) /\ Awaited(t, k)

Visible ==
  \A k \in DOMAIN cache : cache[k].doubt # "late" =>
    \E seen \in SUBSET DOMAIN txns : Sees(k, seen)

(* Accounts of what is left out aside, rows count as they do in the table. *)
LEMMA PartBalance ==
  ASSUME TypeOK, TypeOK', NEW seen \in SUBSET DOMAIN txns, NEW more \in SUBSET DOMAIN txns',
         seen \subseteq more, \A u \in seen : SameRow(txns[u], txns'[u]),
         NEW a, NEW day, \A t \in more \ seen : a \notin AccountsOf(txns'[t].entries)
  PROVE  CalculateBalance(PartOf(txns, seen), a, day) = CalculateBalance(PartOf(txns', more), a, day)
  <1> DEFINE one == PartOf(txns, seen)
             two == PartOf(txns', more)
  <1>1. /\ DOMAIN one = seen /\ \A u \in seen : one[u] = txns[u]
        /\ DOMAIN two = more /\ \A u \in more : two[u] = txns'[u]
    BY DEF PartOf
  <1> HIDE DEF one, two
  <1>2. ASSUME NEW u \in DOMAIN one
        PROVE  /\ two[u].date = one[u].date /\ two[u].entries = one[u].entries
               /\ one[u].status \in CountedStatus /\ two[u].status \in CountedStatus
    <2>1. txns[u] \in TxRow /\ txns'[u] \in TxRow /\ SameRow(txns[u], txns'[u])
      BY <1>1 DEF TypeOK
    <2> QED  BY <1>1, <2>1 DEF SameRow, TxRow, Status, CountedStatus
  <1>3. ASSUME NEW t \in DOMAIN two \ DOMAIN one, NEW i \in DOMAIN two[t].entries
        PROVE  two[t].entries[i].account # a
    BY <1>1, <1>3 DEF AccountsOf
  <1>4. DOMAIN one \subseteq DOMAIN two
    BY <1>1
  <1>5. CalculateBalance(one, a, day) = CalculateBalance(two, a, day)
    BY <1>2, <1>3, <1>4, SameBalance
  <1> QED  BY <1>5 DEF one, two

LEMMA WholeBalance ==
  ASSUME TypeOK, NEW a, NEW day
  PROVE  CalculateBalance(PartOf(txns, DOMAIN txns), a, day) = CalculateBalance(txns, a, day)
  <1> DEFINE one == PartOf(txns, DOMAIN txns)
  <1>1. DOMAIN one = DOMAIN txns /\ \A u \in DOMAIN txns : one[u] = txns[u]
    BY DEF PartOf
  <1> HIDE DEF one
  <1>2. \A u \in DOMAIN txns : txns[u].status \in CountedStatus
    BY DEF TypeOK, TxRow, Status, CountedStatus
  <1>3. CalculateBalance(one, a, day) = CalculateBalance(txns, a, day)
    BY <1>1, <1>2, SameBalance
  <1> QED  BY <1>3 DEF one

\* What the ledger and the gate hold by themselves.
Grounds == Sound /\ SweepSound /\ OnRecord /\ AnswersHold /\ VoidedOnceByMirror

(* A step that is no COMMIT, and leaves to whoever is not cut what is left *)
(* to delete.                                                              *)
LEMMA SeesStays ==
  ASSUME Grounds, [ApiNext]_apiVars, txns' = txns, gone \subseteq gone',
         NEW k \in DOMAIN cache, cache'[k].balance = cache[k].balance, NEW seen, Sees(k, seen),
         \A s \in Session : WillDelete(s, k) =>
           WillDelete(s, k)' \/ (s \in gone' /\ (s \in Poster => gate'[s] # "cache"))
  PROVE  Sees(k, seen)'
  <1>1. ASSUME NEW s \in Session PROVE ~ Commits(s)
    BY CommitAdds DEF Adds, Grounds
  <1>2. ASSUME NEW t \in DOMAIN txns \ seen PROVE Unheard(t)'
    BY <1>2, UnheardStep, NothingToDelete DEF Sees, Awaited, Grounds
  <1>3. ASSUME NEW t \in DOMAIN txns \ seen PROVE Awaited(t, k)'
    <2>1. ASSUME NEW s \in Poster, gate'[s] = "cache", ctx'[s].tx = t PROVE WillDelete(s, k)'
      <3>1. gate[s] = "cache" /\ ctx[s].tx = t
        BY <1>1, <2>1, CacheAt, PaymentApiAssumption DEF Commits, Grounds
      <3> QED  BY <2>1, <3>1, PaymentApiAssumption DEF Sees, Awaited
    <2>2. ASSUME NEW s \in Session, s \notin gone', resp'[s] = Answer(200, txns'[t].reversalOf)
          PROVE  WillDelete(s, k)'
      <3>1. resp'[s] = resp[s]
        BY <1>1, <2>2, RespAt DEF Answer, Commits, Grounds
      <3> QED  BY <2>2, <3>1 DEF Sees, Awaited
    <2> QED  BY <2>1, <2>2 DEF Awaited
  <1> QED  BY <1>2, <1>3 DEF Sees

(* A COMMIT and what was left out before.                                  *)
LEMMA CommitKeeps ==
  ASSUME Grounds, [ApiNext]_apiVars, NEW s \in Session, Commits(s),
         NEW t \in DOMAIN txns, NEW k, Unheard(t), Awaited(t, k)
  PROVE  (Unheard(t) /\ Awaited(t, k))'
  <1>1. PICK new \in TxId : Adds(s, new)
    BY CommitAdds DEF Grounds
  <1>2. /\ sweep[s] = NoSweep /\ \A q \in Session \ {s} : sweep'[q] = sweep[q]
        /\ SameRow(txns[t], txns'[t]) /\ gone' = gone
    BY <1>1 DEF Adds, Grounds, SweepSound, CacheSound
  <1>3. \A q \in Session : WillDelete(q, k) => WillDelete(q, k)'
    BY <1>2, NothingToDelete DEF WillDelete
  <1>4. Unheard(t)'
    BY UnheardStep, NothingToDelete DEF Awaited, Grounds
  <1>5. ASSUME NEW q \in Poster, gate'[q] = "cache", ctx'[q].tx = t PROVE WillDelete(q, k)'
    <2>1. ~ PostCommits(q)
      BY <1>5, PostAdds DEF Adds, Grounds
    <2>2. gate[q] = "cache" /\ ctx[q].tx = t
      BY <1>5, <2>1, CacheAt DEF Grounds
    <2>3. WillDelete(q, k)
      BY <2>2 DEF Awaited
    <2> QED  BY <1>3, <2>3, PaymentApiAssumption
  <1>6. ASSUME NEW q \in Session, q \notin gone', resp'[q] = Answer(200, txns'[t].reversalOf)
        PROVE  WillDelete(q, k)'
    <2>1. resp'[q] = Answer(200, txns[t].reversalOf) /\ resp'[q].code = 200
      BY <1>2, <1>6 DEF SameRow, Answer
    <2>2. ~ VoidCommits(q)
      <3>1. SUFFICES ASSUME VoidCommits(q) PROVE FALSE
        OBVIOUS
      <3>2. /\ req[q] \in DOMAIN txns /\ txns[req[q]].status = "posted"
            /\ resp'[q] = Answer(200, req[q])
        BY <3>1, VoidAdds DEF Grounds
      <3>3. txns[t].reversalOf = req[q]
        BY <2>1, <3>2 DEF Answer
      <3> QED  BY <3>2, <3>3 DEF Grounds, VoidedOnceByMirror, LS!VoidedOnceByMirror
    <2>3. resp'[q] = resp[q]
      BY <2>1, <2>2, RespAt DEF Grounds
    <2>4. WillDelete(q, k)
      BY <1>2, <1>6, <2>1, <2>3 DEF Awaited
    <2> QED  BY <1>3, <2>4
  <1> QED  BY <1>4, <1>5, <1>6 DEF Awaited

(* What a COMMIT adds nobody has been told of, and its request has its     *)
(* accounts to invalidate.                                                 *)
LEMMA CommitIsNew ==
  ASSUME Grounds, [ApiNext]_apiVars, NEW s \in Session, Commits(s),
         NEW new \in TxId, Adds(s, new),
         NEW k \in Watched, k[1] \in AccountsOf(txns'[new].entries)
  PROVE  (Unheard(new) /\ Awaited(new, k))'
  <1>1. new \notin DOMAIN journal
    BY DEF Adds, Grounds, Sound, Linked, Holds
  <1>2. Unheard(new)'
    <2>1. Unheard(new)
      BY <1>1 DEF Grounds, OnRecord, Unheard
    <2>2. \A q \in Poster : gate[q] = "cache" => ctx[q].tx # new
      BY <1>1 DEF Grounds, OnRecord
    <2> QED  BY <2>1, <2>2, UnheardStep DEF Grounds
  <1>3. k[1] \in Asked(txns'[new].entries)
    BY DEF Asked
  <1>4. ASSUME NEW q \in Session, NEW t, Adds(q, t) PROVE t = new /\ WillDelete(q, k)'
    <2>1. t = new
      BY <1>4 DEF Adds
    <2>2. sweep'[q].todo = Asked(txns'[t].entries)
      BY <1>4 DEF Adds, Grounds, SweepSound, CacheSound, NoSweep
    <2> QED  BY <1>3, <2>1, <2>2 DEF WillDelete
  <1>5. ASSUME NEW q \in Poster, gate'[q] = "cache", ctx'[q].tx = new PROVE WillDelete(q, k)'
    <2>1. ~ (gate[q] = "cache" /\ ctx'[q] = ctx[q])
      BY <1>1, <1>5 DEF Grounds, OnRecord
    <2>2. PostCommits(q)
      BY <1>5, <2>1, CacheAt DEF Grounds
    <2>3. Adds(q, ctx[q].tx) /\ q \in Session
      BY <2>2, PostAdds, PaymentApiAssumption DEF Grounds
    <2> QED  BY <1>4, <2>3
  <1>6. ASSUME NEW q \in Session, q \notin gone', resp'[q] = Answer(200, txns'[new].reversalOf)
        PROVE  WillDelete(q, k)'
    <2>1. resp'[q].code = 200 /\ resp'[q].tx = txns'[new].reversalOf
      BY <1>6 DEF Answer
    <2>2. CASE VoidCommits(q)
      BY <1>4, <2>2, VoidAdds DEF Grounds
    <2>3. CASE resp'[q] = resp[q]
      <3>1. txns'[new].reversalOf \in DOMAIN txns /\ txns[txns'[new].reversalOf].status = "voided"
        BY <2>1, <2>3 DEF Grounds, AnswersHold
      <3>2. CASE s \in Poster /\ PostCommits(s)
        <4>1. Adds(s, ctx[s].tx) /\ txns'[ctx[s].tx].reversalOf = NoTx
          BY <3>2, PostAdds DEF Grounds
        <4>2. txns'[new].reversalOf = NoTx
          BY <1>4, <4>1
        <4> QED  BY <3>1, <4>2, NoTxAssumption DEF Grounds, Sound, TypeOK
      <3>3. CASE VoidCommits(s)
        <4>1. PICK r : Adds(s, r) /\ txns'[r].reversalOf = req[s]
          BY <3>3, VoidAdds DEF Grounds
        <4>2. txns[req[s]].status = "posted" /\ txns'[new].reversalOf = req[s]
          BY <1>4, <3>3, <4>1, VoidAdds DEF Grounds
        <4> QED  BY <3>1, <4>2
      <3> QED  BY <3>2, <3>3 DEF Commits
    <2> QED  BY <2>1, <2>2, <2>3, RespAt DEF Grounds
  <1> QED  BY <1>2, <1>5, <1>6 DEF Awaited

LEMMA VisibleStep == Grounds /\ TypeOK' /\ Visible /\ [ApiNext]_apiVars => Visible'
  <1> SUFFICES ASSUME Grounds, TypeOK', Visible, [ApiNext]_apiVars,
                      NEW k \in DOMAIN cache', cache'[k].doubt # "late"
               PROVE  \E seen \in SUBSET DOMAIN txns' : Sees(k, seen)'
    BY DEF Visible
  <1>0. TypeOK /\ CacheSound
    BY DEF Grounds, Sound, SweepSound
  <1>1. ASSUME k \in DOMAIN cache, cache[k].doubt # "late", cache'[k].balance = cache[k].balance,
               txns' = txns, gone \subseteq gone',
               \A s \in Session : WillDelete(s, k) =>
                 WillDelete(s, k)' \/ (s \in gone' /\ (s \in Poster => gate'[s] # "cache"))
        PROVE  \E seen \in SUBSET DOMAIN txns' : Sees(k, seen)'
    <2>1. PICK seen \in SUBSET DOMAIN txns : Sees(k, seen)
      BY <1>1 DEF Visible
    <2>2. Sees(k, seen)'
      BY <1>1, <2>1, SeesStays
    <2> QED  BY <1>1, <2>1, <2>2
  <1>2. ASSUME txns' = txns, cache'[k].balance = CalculateBalance(txns, k[1], k[2])
        PROVE  \E seen \in SUBSET DOMAIN txns' : Sees(k, seen)'
    <2>1. CalculateBalance(PartOf(txns, DOMAIN txns), k[1], k[2])
            = CalculateBalance(txns, k[1], k[2])
      BY <1>0, WholeBalance
    <2>2. Sees(k, DOMAIN txns)'
      BY <1>2, <2>1 DEF Sees
    <2> QED  BY <1>2, <2>2
  <1>3. CASE UNCHANGED <<txns, cacheVars>>
    BY <1>1, <1>3 DEF cacheVars, WillDelete
  <1>4. ASSUME NEW s \in Session, Commits(s)
        PROVE  \E seen \in SUBSET DOMAIN txns' : Sees(k, seen)'
    <2>1. PICK new \in TxId : Adds(s, new)
      BY <1>4, CommitAdds DEF Grounds
    <2>2. /\ new \notin DOMAIN txns /\ DOMAIN txns' = DOMAIN txns \cup {new} /\ cache' = cache
          /\ \A u \in DOMAIN txns : SameRow(txns[u], txns'[u])
      BY <2>1 DEF Adds
    <2>3. PICK seen \in SUBSET DOMAIN txns : Sees(k, seen)
      BY <2>2 DEF Visible
    <2>4. ASSUME NEW t \in DOMAIN txns \ seen PROVE (Unheard(t) /\ Awaited(t, k))'
      BY <1>4, <2>3, CommitKeeps DEF Sees
    <2>5. CASE k[1] \in AccountsOf(txns'[new].entries)
      <3>1. CalculateBalance(PartOf(txns, seen), k[1], k[2])
              = CalculateBalance(PartOf(txns', seen), k[1], k[2])
        BY <1>0, <2>2, PartBalance
      <3>2. (Unheard(new) /\ Awaited(new, k))'
        BY <1>0, <1>4, <2>1, <2>2, <2>5, CommitIsNew DEF CacheSound
      <3>3. Sees(k, seen)'
        BY <2>2, <2>3, <2>4, <3>1, <3>2 DEF Sees
      <3> QED  BY <2>2, <3>3
    <2>6. CASE k[1] \notin AccountsOf(txns'[new].entries)
      <3> DEFINE more == seen \cup {new}
      <3>1. more \in SUBSET DOMAIN txns' /\ more \ seen = {new}
        BY <2>2
      <3>2. CalculateBalance(PartOf(txns, seen), k[1], k[2])
              = CalculateBalance(PartOf(txns', more), k[1], k[2])
        BY <1>0, <2>2, <2>6, <3>1, PartBalance
      <3>3. \A t \in DOMAIN txns' \ more : t \in DOMAIN txns \ seen
        BY <2>2
      <3> HIDE DEF more
      <3>4. Sees(k, more)'
        BY <2>2, <2>3, <2>4, <3>2, <3>3 DEF Sees
      <3> QED  BY <3>1, <3>4
    <2> QED  BY <2>5, <2>6
  <1>5. ASSUME NEW s \in Session, Invalidate(s)
        PROVE  \E seen \in SUBSET DOMAIN txns' : Sees(k, seen)'
    <2>1. txns' = txns /\ gone' = gone
      BY <1>5, SweepApart DEF vars
    <2>2. k \in DOMAIN cache /\ cache'[k] = cache[k]
      BY <1>0, <1>5, SweepEffect
    <2>3. CASE Right(k)
      BY <1>2, <2>1, <2>2, <2>3 DEF Right
    <2>4. CASE WillDelete(s, k) => WillDelete(s, k)'
      <3>1. \A q \in Session : WillDelete(q, k) => WillDelete(q, k)'
        BY <1>0, <1>5, <2>4, SweepEffect DEF WillDelete
      <3> QED  BY <1>1, <2>1, <2>2, <3>1
    <2> QED  BY <1>0, <1>5, <2>3, <2>4, SweepEffect
  <1>6. ASSUME NEW s \in Session, ApiCut(s)
        PROVE  \E seen \in SUBSET DOMAIN txns' : Sees(k, seen)'
    <2>1. /\ k \in DOMAIN cache /\ txns' = txns /\ gone' = gone \cup {s}
          /\ cache'[k].balance = cache[k].balance /\ cache[k].doubt # "late"
          /\ \A q \in Session \ {s} : sweep'[q] = sweep[q]
      BY <1>0, <1>6, CutEffect
    <2>2. s \in Poster => gate'[s] # "cache"
      <3>1. CASE Gated(s)
        <4>1. gate'[s] = "idle"
          BY <1>6, <3>1 DEF ApiCut, Gated, Idem!Crash, Idem!Finish, Idem!Goto, Grounds, Sound,
                            Idem!TypeOK
        <4> QED  BY <4>1
      <3>2. CASE ~ Gated(s)
        BY <1>6, <3>2 DEF ApiCut, Gated, gateVars
      <3> QED  BY <3>1, <3>2
    <2>3. \A q \in Session \ {s} : WillDelete(q, k) => WillDelete(q, k)'
      BY <2>1 DEF WillDelete
    <2> QED  BY <1>1, <2>1, <2>2, <2>3
  <1>7. CASE Reads
    <2>1. txns' = txns /\ sweep' = sweep /\ gone' = gone
      BY <1>7, ReadsApart DEF vars
    <2>2. CASE k \in DOMAIN cache /\ cache'[k] = cache[k]
      BY <1>1, <2>1, <2>2 DEF WillDelete
    <2> QED  BY <1>2, <1>7, <2>1, <2>2, ReadsEffect
  <1> QED  BY <1>3, <1>4, <1>5, <1>6, <1>7, ApiEffects

(* The promise to clients follows: a transaction or reversal left out of a *)
(* cached balance is one nobody has an answer for.                         *)
LEMMA VisibleIsTold == Grounds /\ Visible => ToldIsVisible
  <1> SUFFICES ASSUME Grounds, NEW k \in DOMAIN cache, NEW seen \in SUBSET DOMAIN txns, Sees(k, seen)
               PROVE  /\ Told \subseteq seen
                      /\ cache[k].balance = CalculateBalance([t \in seen |-> txns[t]], k[1], k[2])
    BY DEF Visible, ToldIsVisible
  <1>1. ASSUME NEW s \in Poster, reply[s].code \in {200, 201} PROVE reply[s].tx \in seen
    <2>1. reply[s].tx \in DOMAIN txns
      BY <1>1 DEF Grounds, OnRecord, Sound, Linked, Holds
    <2> QED  BY <1>1, <2>1 DEF Sees, Unheard
  <1>2. ASSUME NEW t \in DOMAIN txns, NEW s \in Session,
               s \notin gone, ~ Busy(s), resp[s] = Answer(200, txns[t].reversalOf)
        PROVE  t \in seen
    <2>1. sweep[s] = NoSweep
      BY <1>2 DEF Busy
    <2> QED  BY <1>2, <2>1, NothingToDelete DEF Sees, Awaited
  <1> QED  BY <1>1, <1>2 DEF Told, Sees, PartOf

(* Who has an answer (the 201 of post_transaction, its replay, the 200 of a*)
(* void) finds it in the balance get_account_balance serves from the cache,*)
(* unless a reader SET that balance too late or an outage left it behind:  *)
(* for any number of clients, readers, keys and accounts, whatever is cut. *)
(* The handler invalidates before it answers, and a request that is cut in *)
(* between has told nobody; a replay comes after the answer was cached.    *)
THEOREM ApiToldIsVisible == ApiSpec => []ToldIsVisible
  <1>1. ApiInit => Visible
    BY DEF ApiInit, Visible
  <1>2. ApiSpec => []Grounds
    BY ApiSound, RecordInvariant, ApiImplementsLedger, LedgerAnswersHold, LedgerVoidedOnceByMirror,
       PTL DEF Grounds
  <1>3. ApiSpec => []TypeOK
    BY ApiImplementsLedger, LedgerTypeOK, PTL
  <1> QED  BY <1>1, <1>2, <1>3, VisibleStep, VisibleIsTold, PTL DEF ApiSpec
=============================================================================
