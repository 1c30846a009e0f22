---------------------------- MODULE LedgerProofs ----------------------------
(***************************************************************************)
(* Ledger implements LedgerSpec, for any number of sessions, transactions  *)
(* and payloads; its invariants follow from those of the abstract ledger.  *)
(*                                                                         *)
(* The invariant of the argument is TypeOK /\ LockDiscipline: whatever the *)
(* other sessions commit, the row a void has locked is the posted row it   *)
(* read, and the ids it is about to add are still nobody's.  Then COMMIT   *)
(* of a post is a Post, COMMIT of a void is a Void, and every other step   *)
(* leaves the two tables alone.                                            *)
(*                                                                         *)
(* What is more than the abstract ledger sees has an induction of its own  *)
(* on top of it: what clients were told (AnswersHold), whether what went in*)
(* can be voided (JournalTaken), the rate the entries are at               *)
(* (JournalAtRate), how they were checked and converted (JournalChecked)   *)
(* and that voids of voids come to an end (ChainsEnd).                     *)
(***************************************************************************)
EXTENDS Ledger, DoubleEntryProofs

LSP == INSTANCE LedgerSpecProofs

IInv == TypeOK /\ LockDiscipline

USE NoTxAssumption

-----------------------------------------------------------------------------
(* Typing *)

LEMMA RowTypes ==
  /\ \A row \in TxRow : Voided(row) \in TxRow
  /\ \A date \in Date, entries \in Seq(Entry), t \in TxId \cup {NoTx} :
       Posted(date, entries, t) \in TxRow
  /\ \A t \in TxId, o \in TxId \cup {NoTx} : CreateRow(t, o) \in AuditRow
  /\ \A t, r \in TxId : VoidRow(t, "posted", r) \in AuditRow
  BY DEF TxRow, Voided, Posted, Status, AuditRow, CreateRow, VoidRow

LEMMA InitIInv == Init => IInv
  <1> SUFFICES ASSUME Init PROVE IInv
    OBVIOUS
  <1>1. TypeOK
    BY DEF Init, TypeOK, Wrote, NoRows, NoWrites, NoAnswer, PC
  <1>2. LockDiscipline
    BY DEF Init, LockDiscipline, SessionSound, Wrote, NoWrites, NoRows
  <1> QED  BY <1>1, <1>2 DEF IInv

-----------------------------------------------------------------------------
(* Steps that leave the tables alone *)

(* A step of one session leaves what the others rest on.                   *)
LEMMA OthersSound ==
  ASSUME IInv, NEW s \in Session, txns' = txns,
         NEW o \in Session \ {s},
         pc'[o] = pc[o], req'[o] = req[o], orig'[o] = orig[o], ws'[o] = ws[o]
  PROVE  SessionSound(o)' /\ Wrote(o)' = Wrote(o)
  BY DEF IInv, LockDiscipline, SessionSound, PostWrites, VoidWrites, Wrote

Others(s) ==
  \A o \in Session \ {s} :
    pc'[o] = pc[o] /\ req'[o] = req[o] /\ orig'[o] = orig[o] /\ ws'[o] = ws[o]

(* The invariant after a step of s that leaves the tables alone: what is   *)
(* to be shown of s itself.                                                *)
LEMMA LocalIInv ==
  ASSUME IInv, NEW s \in Session, txns' = txns, TypeOK', Others(s),
         \A o \in Session \ {s} : Wrote(s)' \cap Wrote(o) = {},
         SessionSound(s)'
  PROVE  IInv'
  <1>1. \A o \in Session \ {s} : SessionSound(o)' /\ Wrote(o)' = Wrote(o)
    BY OthersSound DEF Others
  <1>2. ASSUME NEW q \in Session, NEW o \in Session, q # o
        PROVE  Wrote(q)' \cap Wrote(o)' = {}
    <2>1. CASE q = s
      BY <1>1, <1>2, <2>1
    <2>2. CASE o = s
      BY <1>1, <1>2, <2>2
    <2>3. CASE q # s /\ o # s
      BY <1>1, <1>2, <2>3 DEF IInv, LockDiscipline
    <2> QED  BY <2>1, <2>2, <2>3
  <1> QED  BY <1>1, <1>2 DEF IInv, LockDiscipline

LEMMA NoWritesEmpty == DOMAIN NoWrites.rows = {} /\ NoWrites.log = {}
  BY DEF NoWrites, NoRows

(* What the invariant says of a session that has written nothing.          *)
LEMMA NothingWritten ==
  ASSUME IInv, NEW s \in Session, pc[s] \in {"idle", "rate", "insert", "update"}
  PROVE  ws[s] = NoWrites /\ Wrote(s) = {}
  <1>1. ws[s] = NoWrites
    BY DEF IInv, LockDiscipline, SessionSound
  <1> QED  BY <1>1, NoWritesEmpty DEF Wrote

(* The request of a session ends without touching the tables.              *)
LEMMA RollbackIInv ==
  ASSUME IInv, NEW s \in Session, NEW answer,
         answer \in [code : {0, 200, 201, 404, 409, 422, 500}, tx : TxId \cup {NoTx}],
         Rollback(s, answer)
  PROVE  IInv'
  <1>1. /\ pc'[s] = "idle" /\ ws'[s] = NoWrites /\ Others(s) /\ txns' = txns
        /\ DOMAIN ws' = Session
    BY DEF IInv, TypeOK, Rollback, Finish, Others
  <1>2. SessionSound(s)' /\ Wrote(s)' = {}
    BY <1>1, NoWritesEmpty DEF SessionSound, Wrote
  <1>3. TypeOK'
    <2>1. ASSUME NEW o \in Session
          PROVE  /\ Wrote(o)' \subseteq TxId
                 /\ \A t \in Wrote(o)' : ws'[o].rows[t] \in TxRow
                 /\ ws'[o].log \subseteq AuditRow
      <3>1. CASE o = s
        BY <1>1, <1>2, <3>1, NoWritesEmpty
      <3>2. CASE o # s
        BY <1>1, <3>2 DEF IInv, TypeOK, Others, Wrote
      <3> QED  BY <3>1, <3>2
    <2> QED  BY <1>1, <2>1 DEF IInv, TypeOK, Rollback, Finish, PC
  <1> QED  BY <1>1, <1>2, <1>3, LocalIInv

(* The requests that begin, and the resolution of the rate.                *)
LEMMA PostBeginIInv ==
  ASSUME IInv, NEW s \in Session, NEW p \in Payloads, PostBegin(s, p)
  PROVE  IInv'
  <1>1. ws[s] = NoWrites /\ Wrote(s) = {}
    BY NothingWritten DEF PostBegin
  <1>2. /\ pc'[s] = "rate" /\ req'[s] = p /\ ws' = ws /\ txns' = txns /\ Others(s)
        /\ p \in Payload /\ Accepted(p)
    BY LedgerAssumption DEF PostBegin, IInv, TypeOK, Others
  <1>3. SessionSound(s)' /\ Wrote(s)' = {}
    BY <1>1, <1>2 DEF SessionSound, Wrote
  <1>4. Candidates(rates, p.code, p.date) \in SUBSET ExchangeRate
    BY DEF Candidates, IInv, TypeOK
  <1>5. TypeOK'
    <2>1. ratesThen' \in [Session -> SUBSET ExchangeRate]
      BY <1>4 DEF PostBegin, IInv, TypeOK
    <2> QED  BY <1>2, <2>1 DEF PostBegin, IInv, TypeOK, Wrote, PC, NoAnswer
  <1> QED  BY <1>2, <1>3, <1>5, LocalIInv

LEMMA VoidBeginIInv ==
  ASSUME IInv, NEW s \in Session, NEW t \in TxId, VoidBegin(s, t)
  PROVE  IInv'
  <1>1. ws[s] = NoWrites /\ Wrote(s) = {}
    BY NothingWritten DEF VoidBegin
  <1>2. t \in DOMAIN txns
    BY DEF VoidBegin
  <1>3. txns[t] \in TxRow
    BY <1>2 DEF IInv, TypeOK
  <1>4. /\ pc'[s] = "update" /\ req'[s] = t /\ orig'[s] = txns[t]
        /\ ws' = ws /\ txns' = txns /\ Others(s)
    BY DEF VoidBegin, IInv, TypeOK, Others
  <1>5. SessionSound(s)' /\ Wrote(s)' = {}
    BY <1>1, <1>2, <1>3, <1>4 DEF SessionSound, Wrote
  <1>6. TypeOK'
    BY <1>3, <1>4 DEF VoidBegin, IInv, TypeOK, Wrote, PC, NoAnswer
  <1> QED  BY <1>4, <1>5, <1>6, LocalIInv

LEMMA ResolveRateIInv ==
  ASSUME IInv, NEW s \in Session, ResolveRate(s)
  PROVE  IInv'
  <1>1. ws[s] = NoWrites /\ Wrote(s) = {}
    BY NothingWritten DEF ResolveRate
  <1>2. /\ req[s] \in Payload /\ Accepted(req[s]) /\ req[s].date \in Date
        /\ rates \in SUBSET ExchangeRate
    BY DEF ResolveRate, IInv, TypeOK, LockDiscipline, SessionSound, Payload
  <1>3. ResolveUsdConversionRate(rates, req[s].code, req[s].date) \in Nat
    BY <1>2, LatestRate DEF ResolveRate
  <1>4. /\ pc'[s] = "insert" /\ req' = req /\ ws' = ws /\ txns' = txns /\ Others(s)
    BY DEF ResolveRate, IInv, TypeOK, Others
  <1>5. SessionSound(s)' /\ Wrote(s)' = {}
    BY <1>1, <1>2, <1>4 DEF SessionSound, Wrote
  <1>6. TypeOK'
    BY <1>3, <1>4 DEF ResolveRate, IInv, TypeOK, Wrote, PC
  <1> QED  BY <1>4, <1>5, <1>6, LocalIInv

-----------------------------------------------------------------------------
(* Steps that write *)

(* A write of one row: what it leaves in the write set.                    *)
LEMMA WriteOne ==
  ASSUME IInv, NEW s \in Session, NEW t, NEW row, NEW log, Write(s, One(t, row), log)
  PROVE  /\ DOMAIN ws' = Session
         /\ ws'[s].rows = Overlay(One(t, row), ws[s].rows)
         /\ ws'[s].log = ws[s].log \cup log
         /\ Wrote(s)' = {t} \cup Wrote(s)
         /\ ws'[s].rows[t] = row
         /\ \A u \in Wrote(s) \ {t} : ws'[s].rows[u] = ws[s].rows[u]
         /\ \A o \in Session \ {s} : ws'[o] = ws[o]
  <1>1. DOMAIN ws = Session
    BY DEF IInv, TypeOK
  <1>2. /\ DOMAIN ws' = Session
        /\ ws'[s] = [rows |-> Overlay(One(t, row), ws[s].rows), log |-> ws[s].log \cup log]
        /\ \A o \in Session \ {s} : ws'[o] = ws[o]
    BY <1>1 DEF Write
  <1> QED  BY <1>2 DEF Overlay, One, Wrote

(* The first write of a session is its whole write set.                    *)
LEMMA WriteFirst ==
  ASSUME IInv, NEW s \in Session, NEW t, NEW row, NEW log, ws[s] = NoWrites,
         Write(s, One(t, row), log)
  PROVE  ws'[s].rows = One(t, row) /\ ws'[s].log = log /\ Wrote(s)' = {t}
  <1>1. ws[s].rows = NoRows /\ ws[s].log = {}
    BY DEF NoWrites
  <1>2. Overlay(One(t, row), NoRows) = One(t, row)
    BY DEF Overlay, One, NoRows
  <1>3. /\ ws'[s].rows = Overlay(One(t, row), ws[s].rows)
        /\ ws'[s].log = ws[s].log \cup log
    BY WriteOne
  <1>4. ws'[s].rows = One(t, row)
    BY <1>1, <1>2, <1>3
  <1>5. Wrote(s)' = {t}
    BY <1>4 DEF Wrote, One
  <1>6. ws'[s].log = log
    BY <1>1, <1>3
  <1> QED  BY <1>4, <1>5, <1>6

(* A write of one typed row keeps the types, when the rest of the state of *)
(* the session does.                                                       *)
LEMMA WriteTypes ==
  ASSUME IInv, NEW s \in Session, NEW t \in TxId, NEW row \in TxRow,
         NEW log \in SUBSET AuditRow, Write(s, One(t, row), log),
         pc' \in [Session -> PC],
         UNCHANGED <<txns, audit, rates, req, rate, orig, resp, ratesThen>>
  PROVE  TypeOK'
  <1>1. ASSUME NEW o \in Session
        PROVE  /\ Wrote(o)' \subseteq TxId
               /\ \A u \in Wrote(o)' : ws'[o].rows[u] \in TxRow
               /\ ws'[o].log \subseteq AuditRow
    <2>1. CASE o = s
      BY <2>1, WriteOne DEF IInv, TypeOK
    <2>2. CASE o # s
      BY <2>2, WriteOne DEF IInv, TypeOK, Wrote
    <2> QED  BY <2>1, <2>2
  <1> QED  BY <1>1, WriteOne DEF IInv, TypeOK

LEMMA InsertPostedIInv ==
  ASSUME IInv, NEW s \in Session, InsertPosted(s)
  PROVE  IInv'
  <1> DEFINE entries == Convert(req[s].entries, rate[s])
             row == Posted(req[s].date, entries, NoTx)
  <1>1. ws[s] = NoWrites /\ Wrote(s) = {}
    BY NothingWritten DEF InsertPosted
  <1>2. PICK t \in Fresh : Write(s, One(t, row), {CreateRow(t, NoTx)})
    BY DEF InsertPosted
  <1>3. /\ req[s] \in Payload /\ Accepted(req[s]) /\ rate[s] \in Nat /\ req[s].date \in Date
    BY DEF InsertPosted, IInv, TypeOK, LockDiscipline, SessionSound, Payload
  <1>4. entries \in Seq(Entry) /\ WellFormed(entries)
    BY <1>3, ConvertWellFormed
  <1>5. /\ row.status = "posted" /\ row.reversalOf = NoTx /\ row.entries = entries
        /\ row \in TxRow /\ CreateRow(t, NoTx) \in AuditRow
    BY <1>2, <1>3, <1>4, RowTypes DEF Posted, Fresh
  <1> HIDE DEF row, entries
  <1>6. /\ pc'[s] = "commitPost" /\ txns' = txns /\ Others(s) /\ pc' \in [Session -> PC]
    BY <1>2, WriteOne DEF InsertPosted, IInv, TypeOK, Others, PC
  <1>7. /\ t \in TxId \ DOMAIN txns /\ \A o \in Session : t \notin Wrote(o)
    BY <1>2 DEF Fresh
  <1>8. /\ Wrote(s)' = {t} /\ ws'[s].rows[t] = row /\ ws'[s].log = {CreateRow(t, NoTx)}
        /\ ws'[s].rows = One(t, row)
    BY <1>1, <1>2, WriteOne, WriteFirst
  <1>9. SessionSound(s)'
    BY <1>4, <1>5, <1>6, <1>7, <1>8 DEF SessionSound, PostWrites
  <1>10. TypeOK'
    BY <1>2, <1>5, <1>6, <1>7, WriteTypes DEF InsertPosted
  <1> QED  BY <1>6, <1>7, <1>8, <1>9, <1>10, LocalIInv

LEMMA MarkVoidedIInv ==
  ASSUME IInv, NEW s \in Session, MarkVoided(s)
  PROVE  IInv'
  <1> DEFINE t == req[s]
  <1>1. ws[s] = NoWrites /\ Wrote(s) = {}
    BY NothingWritten DEF MarkVoided
  <1>2. /\ t \in DOMAIN txns /\ orig[s] \in TxRow
        /\ txns[t] \in {orig[s], Voided(orig[s])} /\ txns[t].status = "posted"
        /\ txns[t] \in TxRow /\ t \in TxId
    BY DEF MarkVoided, IInv, TypeOK, LockDiscipline, SessionSound
  <1>3. Voided(orig[s]).status = "voided"
    BY <1>2 DEF Voided, TxRow
  <1>4. txns[t] = orig[s]
    BY <1>2, <1>3
  <1>5. Write(s, One(t, Voided(txns[t])), {})
    BY DEF MarkVoided
  <1>6. pc'[s] = "reverse" /\ txns' = txns /\ pc' \in [Session -> PC]
        /\ req' = req /\ orig' = orig
    BY DEF MarkVoided, IInv, TypeOK, PC
  <1>7. Others(s)
    BY <1>5, WriteOne DEF MarkVoided, IInv, TypeOK, Others
  <1>8. /\ Wrote(s)' = {t} /\ ws'[s].log = {}
        /\ ws'[s].rows = One(t, Voided(orig[s]))
    BY <1>1, <1>4, <1>5, WriteFirst
  <1>9. ws'[s] = [rows |-> One(t, Voided(orig[s])), log |-> {}]
    <2>1. ws'[s] = [rows |-> ws'[s].rows, log |-> ws'[s].log]
      BY <1>5 DEF Write, IInv, TypeOK
    <2> QED  BY <1>8, <2>1
  <1>10. SessionSound(s)'
    BY <1>2, <1>4, <1>6, <1>9 DEF SessionSound
  <1>11. TypeOK'
    BY <1>2, <1>5, <1>6, RowTypes, WriteTypes DEF MarkVoided
  <1>12. \A o \in Session \ {s} : Wrote(s)' \cap Wrote(o) = {}
    BY <1>8 DEF MarkVoided, LockFree
  <1> QED  BY <1>6, <1>7, <1>10, <1>11, <1>12, LocalIInv

LEMMA InsertReversalIInv ==
  ASSUME IInv, NEW s \in Session, InsertReversal(s)
  PROVE  IInv'
  <1> DEFINE t == req[s]
             row == Posted(orig[s].date, Mirror(orig[s].entries), t)
  <1>1. PICK r \in Fresh :
          Write(s, One(r, row), {CreateRow(r, t), VoidRow(t, orig[s].status, r)})
    BY DEF InsertReversal
  <1>2. /\ t \in DOMAIN txns /\ t \in TxId /\ orig[s] \in TxRow
        /\ txns[t] = orig[s] /\ orig[s].status = "posted"
        /\ ws[s] = [rows |-> One(t, Voided(orig[s])), log |-> {}]
    BY DEF InsertReversal, IInv, TypeOK, LockDiscipline, SessionSound
  <1>3. row \in TxRow
    <2>1. Mirror(orig[s].entries) \in Seq(Entry) /\ orig[s].date \in Date
      BY <1>2, MirrorType DEF TxRow
    <2> QED  BY <1>2, <2>1, RowTypes
  <1>4. r \in TxId \ DOMAIN txns /\ \A o \in Session : r \notin Wrote(o)
    BY <1>1 DEF Fresh
  <1> HIDE DEF row
  <1>5. /\ pc'[s] = "commitVoid" /\ txns' = txns /\ pc' \in [Session -> PC]
        /\ req' = req /\ orig' = orig
    BY DEF InsertReversal, IInv, TypeOK, PC
  <1>6. Others(s)
    BY <1>1, WriteOne DEF InsertReversal, IInv, TypeOK, Others
  <1>7. /\ Wrote(s)' = {r, t}
        /\ ws'[s].log = {CreateRow(r, t), VoidRow(t, "posted", r)}
        /\ ws'[s].rows = Overlay(One(r, row), One(t, Voided(orig[s])))
    <2>1. Wrote(s) = {t} /\ ws[s].log = {}
      BY <1>2 DEF Wrote, One
    <2> QED  BY <1>1, <1>2, <2>1, WriteOne
  <1>8. SessionSound(s)'
    BY <1>2, <1>4, <1>5, <1>7 DEF SessionSound, VoidWrites, row
  <1>9. TypeOK'
    <2>1. {CreateRow(r, t), VoidRow(t, orig[s].status, r)} \in SUBSET AuditRow
      BY <1>2, <1>4, RowTypes
    <2> QED  BY <1>1, <1>3, <1>4, <1>5, <2>1, WriteTypes DEF InsertReversal
  <1>10. \A o \in Session \ {s} : Wrote(s)' \cap Wrote(o) = {}
    BY <1>2, <1>4, <1>7 DEF IInv, LockDiscipline, Wrote, One
  <1> QED  BY <1>5, <1>6, <1>8, <1>9, <1>10, LocalIInv

-----------------------------------------------------------------------------
(* Steps that commit *)

Answers == [code : {0, 200, 201, 404, 409, 422, 500}, tx : TxId \cup {NoTx}]

(* A commit whose rows are new, or are posted rows it voids, preserves the *)
(* invariant of every session, its own included.                           *)
LEMMA CommitIInv ==
  ASSUME IInv, NEW s \in Session, NEW answer \in Answers, Commit(s, answer),
         \A u \in DOMAIN txns \cap Wrote(s) :
           txns[u].status = "posted" /\ ws[s].rows[u] = Voided(txns[u])
  PROVE  IInv'
  <1>1. /\ pc'[s] = "idle" /\ ws'[s] = NoWrites /\ DOMAIN ws' = Session /\ Others(s)
        /\ txns' = Overlay(ws[s].rows, txns) /\ audit' = audit \cup ws[s].log
        /\ rates' = rates
    BY DEF IInv, TypeOK, Commit, Finish, Others
  <1>2. /\ DOMAIN txns' = DOMAIN txns \cup Wrote(s)
        /\ \A u \in Wrote(s) : txns'[u] = ws[s].rows[u]
        /\ \A u \in DOMAIN txns \ Wrote(s) : txns'[u] = txns[u]
    BY <1>1 DEF Overlay, Wrote
  <1>3. Wrote(s)' = {} /\ \A o \in Session \ {s} : Wrote(o)' = Wrote(o)
    BY <1>1, NoWritesEmpty DEF Wrote, Others
  <1>4. TypeOK'
    <2>1. /\ (DOMAIN txns \subseteq TxId)' /\ (\A t \in DOMAIN txns : txns[t] \in TxRow)'
          /\ (audit \subseteq AuditRow)'
      BY <1>1, <1>2 DEF IInv, TypeOK
    <2>2. ASSUME NEW o \in Session
          PROVE  /\ Wrote(o)' \subseteq TxId
                 /\ \A t \in Wrote(o)' : ws'[o].rows[t] \in TxRow
                 /\ ws'[o].log \subseteq AuditRow
      <3>1. CASE o = s
        BY <1>1, <1>3, <3>1, NoWritesEmpty
      <3>2. CASE o # s
        BY <1>1, <1>3, <3>2 DEF IInv, TypeOK, Others
      <3> QED  BY <3>1, <3>2
    <2>3. /\ pc' \in [Session -> PC] /\ req' \in [Session -> Payload \cup TxId \cup {None}]
          /\ rate' \in [Session -> Nat] /\ orig' \in [Session -> TxRow \cup {None}]
          /\ resp' \in [Session -> Answers] /\ ratesThen' \in [Session -> SUBSET ExchangeRate]
      BY DEF IInv, TypeOK, Commit, Finish, PC, Answers
    <2> QED  BY <1>1, <2>1, <2>2, <2>3 DEF IInv, TypeOK, Answers
  <1>5. SessionSound(s)'
    BY <1>1 DEF SessionSound
  <1>6. ASSUME NEW o \in Session \ {s} PROVE SessionSound(o)'
    <2>1. /\ pc'[o] = pc[o] /\ req'[o] = req[o] /\ orig'[o] = orig[o] /\ ws'[o] = ws[o]
          /\ Wrote(o) \cap Wrote(s) = {} /\ Wrote(o)' = Wrote(o)
      BY <1>1, <1>3 DEF Others, IInv, LockDiscipline
    <2>2. SessionSound(o)
      BY DEF IInv, LockDiscipline
    <2>3. ASSUME pc[o] = "commitPost" PROVE \E t \in Wrote(o)' : PostWrites(o, t)'
      <3>1. PICK t \in Wrote(o) : PostWrites(o, t)
        BY <2>2, <2>3 DEF SessionSound
      <3>2. t \notin DOMAIN txns'
        BY <1>2, <2>1, <3>1 DEF PostWrites
      <3> QED  BY <2>1, <3>1, <3>2 DEF PostWrites
    <2>4. ASSUME pc[o] \in {"reverse", "commitVoid"}
          PROVE  req[o] \in DOMAIN txns' /\ txns'[req[o]] = txns[req[o]]
      <3>1. req[o] \in DOMAIN txns
        BY <2>2, <2>4 DEF SessionSound
      <3>2. req[o] \in Wrote(o)
        <4>1. CASE pc[o] = "reverse"
          BY <2>2, <4>1 DEF SessionSound, Wrote, One
        <4>2. CASE pc[o] = "commitVoid"
          BY <2>2, <4>2 DEF SessionSound, VoidWrites, Wrote, Overlay, One
        <4> QED  BY <2>4, <4>1, <4>2
      <3> QED  BY <1>2, <2>1, <3>1, <3>2
    <2>5. ASSUME pc[o] = "commitVoid" PROVE \E r \in Wrote(o)' : VoidWrites(o, r)'
      <3>1. PICK r \in Wrote(o) : VoidWrites(o, r)
        BY <2>2, <2>5 DEF SessionSound
      <3>2. r \notin DOMAIN txns'
        BY <1>2, <2>1, <3>1 DEF VoidWrites
      <3> QED  BY <2>1, <3>1, <3>2 DEF VoidWrites
    <2>6. ASSUME pc[o] = "update"
          PROVE  req[o] \in DOMAIN txns' /\ txns'[req[o]] \in {orig[o], Voided(orig[o])}
      <3>1. /\ req[o] \in DOMAIN txns /\ orig[o] \in TxRow
            /\ txns[req[o]] \in {orig[o], Voided(orig[o])}
        BY <2>2, <2>6 DEF SessionSound
      <3>2. CASE req[o] \notin Wrote(s)
        BY <1>2, <3>1, <3>2
      <3>3. CASE req[o] \in Wrote(s)
        <4>1. txns[req[o]].status = "posted" /\ txns'[req[o]] = Voided(txns[req[o]])
          BY <1>2, <3>1, <3>3
        <4>2. Voided(orig[o]).status = "voided"
          BY <3>1 DEF Voided, TxRow
        <4>3. txns[req[o]] = orig[o]
          BY <3>1, <4>1, <4>2
        <4> QED  BY <1>2, <3>1, <4>1, <4>3
      <3> QED  BY <3>2, <3>3
    <2> QED  BY <2>1, <2>2, <2>3, <2>4, <2>5, <2>6 DEF SessionSound
  <1>7. ASSUME NEW q \in Session, NEW o \in Session, q # o
        PROVE  Wrote(q)' \cap Wrote(o)' = {}
    <2>1. CASE q = s \/ o = s
      BY <1>3, <2>1
    <2>2. CASE q # s /\ o # s
      BY <1>3, <1>7, <2>2 DEF IInv, LockDiscipline
    <2> QED  BY <2>1, <2>2
  <1> QED  BY <1>4, <1>5, <1>6, <1>7 DEF IInv, LockDiscipline

(* What a session at the COMMIT of a post, or of a void, has in hand.      *)
LEMMA AtCommitPost ==
  ASSUME IInv, NEW s \in Session, pc[s] = "commitPost"
  PROVE  \E t \in TxId \ DOMAIN txns, row \in TxRow :
           /\ Wrote(s) = {t} /\ ws[s].rows = One(t, row) /\ ws[s].log = {CreateRow(t, NoTx)}
           /\ row.status = "posted" /\ row.reversalOf = NoTx /\ WellFormed(row.entries)
  <1>1. PICK t \in Wrote(s) : PostWrites(s, t)
    BY DEF IInv, LockDiscipline, SessionSound
  <1> DEFINE row == ws[s].rows[t]
  <1>2. row \in TxRow
    BY <1>1 DEF IInv, TypeOK
  <1>3. /\ t \in TxId \ DOMAIN txns
        /\ ws[s].rows = One(t, row) /\ ws[s].log = {CreateRow(t, NoTx)}
        /\ row.status = "posted" /\ row.reversalOf = NoTx /\ WellFormed(row.entries)
    BY <1>1 DEF PostWrites
  <1> HIDE DEF row
  <1>4. Wrote(s) = {t}
    BY <1>3 DEF Wrote, One
  <1> QED  BY <1>2, <1>3, <1>4

LEMMA AtCommitVoid ==
  ASSUME IInv, NEW s \in Session, pc[s] = "commitVoid"
  PROVE  /\ req[s] \in TxId /\ req[s] \in DOMAIN txns /\ txns[req[s]].status = "posted"
         /\ \E r \in TxId \ DOMAIN txns :
              /\ Wrote(s) = {r, req[s]}
              /\ ws[s].rows =
                   Overlay(One(r, Posted(txns[req[s]].date, Mirror(txns[req[s]].entries), req[s])),
                           One(req[s], Voided(txns[req[s]])))
              /\ ws[s].log = {CreateRow(r, req[s]), VoidRow(req[s], "posted", r)}
  <1>1. /\ req[s] \in DOMAIN txns /\ txns[req[s]] = orig[s] /\ orig[s].status = "posted"
        /\ req[s] \in TxId
    BY DEF IInv, TypeOK, LockDiscipline, SessionSound
  <1>2. PICK r \in Wrote(s) : VoidWrites(s, r)
    BY DEF IInv, LockDiscipline, SessionSound
  <1>3. Wrote(s) = {r, req[s]}
    BY <1>2 DEF VoidWrites, Wrote, Overlay, One
  <1> QED  BY <1>1, <1>2, <1>3 DEF VoidWrites

LEMMA CommitPostIInv ==
  ASSUME IInv, NEW s \in Session, CommitPost(s)
  PROVE  IInv'
  <1>1. PICK t \in TxId \ DOMAIN txns : Wrote(s) = {t}
    BY AtCommitPost DEF CommitPost
  <1>2. PICK answer \in {Answer(201, t), NoAnswer} : Commit(s, answer)
    BY <1>1 DEF CommitPost
  <1>3. answer \in Answers
    BY <1>1 DEF Answer, NoAnswer, Answers
  <1> QED  BY <1>1, <1>2, <1>3, CommitIInv

LEMMA CommitVoidIInv ==
  ASSUME IInv, NEW s \in Session, CommitVoid(s)
  PROVE  IInv'
  <1> DEFINE t == req[s]
  <1>1. PICK answer \in {Answer(200, t), NoAnswer} : Commit(s, answer)
    BY DEF CommitVoid
  <1>2. /\ t \in TxId /\ t \in DOMAIN txns /\ txns[t].status = "posted"
        /\ \E r \in TxId \ DOMAIN txns :
             Wrote(s) = {r, t} /\ ws[s].rows[t] = Voided(txns[t])
    <2>1. PICK r \in TxId \ DOMAIN txns :
            /\ Wrote(s) = {r, req[s]}
            /\ ws[s].rows =
                 Overlay(One(r, Posted(txns[t].date, Mirror(txns[t].entries), t)),
                         One(t, Voided(txns[t])))
      BY AtCommitVoid DEF CommitVoid
    <2>2. t \in TxId /\ t \in DOMAIN txns /\ txns[t].status = "posted"
      BY AtCommitVoid DEF CommitVoid
    <2>3. ws[s].rows[t] = Voided(txns[t])
      BY <2>1, <2>2 DEF Overlay, One
    <2> QED  BY <2>1, <2>2, <2>3
  <1>3. answer \in Answers
    BY <1>1, <1>2 DEF Answer, NoAnswer, Answers
  <1>4. \A u \in DOMAIN txns \cap Wrote(s) :
          txns[u].status = "posted" /\ ws[s].rows[u] = Voided(txns[u])
    BY <1>2
  <1> QED  BY <1>1, <1>3, <1>4, CommitIInv

-----------------------------------------------------------------------------
(* The invariant *)

LEMMA PublishRateIInv ==
  ASSUME IInv, NEW r \in Rates, PublishRate(r)
  PROVE  IInv'
  <1>1. /\ UNCHANGED <<txns, audit, pc, req, rate, orig, ws, resp, ratesThen>>
        /\ rates' = rates \cup {r} /\ r \in ExchangeRate
    BY LedgerAssumption DEF PublishRate, local
  <1>2. TypeOK'
    BY <1>1 DEF IInv, TypeOK, Wrote
  <1>3. LockDiscipline'
    BY <1>1 DEF IInv, LockDiscipline, SessionSound, PostWrites, VoidWrites, Wrote
  <1> QED  BY <1>2, <1>3 DEF IInv

LEMMA NextIInv == IInv /\ [Next]_vars => IInv'
  <1> SUFFICES ASSUME IInv, [Next]_vars PROVE IInv'
    OBVIOUS
  <1>1. ASSUME NEW s \in Session, NEW p \in Payloads, PostBegin(s, p) PROVE IInv'
    BY <1>1, PostBeginIInv
  <1>2. ASSUME NEW s \in Session, NEW t \in TxId, VoidBegin(s, t) PROVE IInv'
    BY <1>2, VoidBeginIInv
  <1>3. ASSUME NEW s \in Session,
               \/ \E p \in Payloads : PostRejected(s, p)
               \/ \E t \in TxId : VoidNotFound(s, t)
               \/ NoRate(s) \/ InsertFails(s) \/ CommitRefused(s) \/ AlreadyVoided(s) \/ Cut(s)
        PROVE  IInv'
    <2>1. AlreadyVoided(s) => req[s] \in TxId
      BY DEF AlreadyVoided, IInv, TypeOK, LockDiscipline, SessionSound
    <2>2. PICK answer \in [code : {0, 200, 201, 404, 409, 422, 500}, tx : TxId \cup {NoTx}] :
            Rollback(s, answer)
      BY <1>3, <2>1 DEF PostRejected, VoidNotFound, NoRate, InsertFails, CommitRefused,
                        AlreadyVoided, Cut, Answer, NoAnswer
    <2> QED  BY <2>2, RollbackIInv
  <1>4. ASSUME NEW s \in Session, ResolveRate(s) PROVE IInv'
    BY <1>4, ResolveRateIInv
  <1>5. ASSUME NEW s \in Session, InsertPosted(s) PROVE IInv'
    BY <1>5, InsertPostedIInv
  <1>6. ASSUME NEW s \in Session, CommitPost(s) PROVE IInv'
    BY <1>6, CommitPostIInv
  <1>7. ASSUME NEW s \in Session, MarkVoided(s) PROVE IInv'
    BY <1>7, MarkVoidedIInv
  <1>8. ASSUME NEW s \in Session, InsertReversal(s) PROVE IInv'
    BY <1>8, InsertReversalIInv
  <1>9. ASSUME NEW s \in Session, CommitVoid(s) PROVE IInv'
    BY <1>9, CommitVoidIInv
  <1>10. ASSUME NEW r \in Rates, PublishRate(r) PROVE IInv'
    BY <1>10, PublishRateIInv
  <1>11. CASE UNCHANGED vars
    <2>1. UNCHANGED <<txns, audit, rates, pc, req, rate, orig, ws, resp, ratesThen>>
      BY <1>11 DEF vars, local
    <2>2. TypeOK'
      BY <2>1 DEF IInv, TypeOK, Wrote
    <2>3. LockDiscipline'
      BY <2>1 DEF IInv, LockDiscipline, SessionSound, PostWrites, VoidWrites, Wrote
    <2> QED  BY <2>2, <2>3 DEF IInv
  <1> QED  BY <1>1, <1>2, <1>3, <1>4, <1>5, <1>6, <1>7, <1>8, <1>9, <1>10, <1>11
           DEF Next, Step

(* Type correctness of the sessions and the tables.                        *)
THEOREM LedgerTypeOK == Spec => []TypeOK
  <1>1. IInv => TypeOK
    BY DEF IInv
  <1> QED  BY <1>1, InitIInv, NextIInv, PTL DEF Spec

(* The lock discipline of create_transaction and void_transaction.         *)
THEOREM LedgerLockDiscipline == Spec => []LockDiscipline
  <1>1. IInv => LockDiscipline
    BY DEF IInv
  <1> QED  BY <1>1, InitIInv, NextIInv, PTL DEF Spec

-----------------------------------------------------------------------------
(* Ledger implements LedgerSpec *)

\* The instance has a copy of every definition of the data modules.
LEMMA SameRows ==
  /\ LS!TxRow = TxRow /\ LS!AuditRow = AuditRow /\ LS!NoRows = NoRows
  /\ \A t, o : LS!CreateRow(t, o) = CreateRow(t, o)
  /\ \A t, b, r : LS!VoidRow(t, b, r) = VoidRow(t, b, r)
  /\ \A d, e, t : LS!Posted(d, e, t) = Posted(d, e, t)
  /\ \A row : LS!Voided(row) = Voided(row)
  /\ \A e : LS!Mirror(e) = Mirror(e)
  /\ \A t, row : LS!One(t, row) = One(t, row)
  /\ \A f, g : LS!Overlay(f, g) = Overlay(f, g)
  BY DEF LS!TxRow, TxRow, LS!AuditRow, AuditRow, LS!NoRows, NoRows, LS!CreateRow, CreateRow,
         LS!VoidRow, VoidRow, LS!Posted, Posted, LS!Voided, Voided, LS!Mirror, Mirror,
         LS!Opposite, Opposite, LS!One, One, LS!Overlay, Overlay, LS!Status, Status,
         LS!Entry, Entry, LS!Direction, Direction

LEMMA SameWellFormed == \A e : LS!WellFormed(e) = WellFormed(e)
  BY DEF LS!WellFormed, WellFormed, LS!BothSides, BothSides, LS!SingleCurrency, SingleCurrency,
         LS!Balanced, Balanced, LS!SideSum, SideSum, LS!Side, Side, LS!Amounts, Amounts,
         LS!Direction, Direction, LS!SumFunctionOnSet, SumFunctionOnSet,
         LS!FoldFunctionOnSet, FoldFunctionOnSet, LS!MapThenFoldSet, MapThenFoldSet

(* Only the COMMITs change the tables.                                     *)
LEMMA OnlyCommits ==
  ASSUME [Next]_vars
  PROVE  \/ UNCHANGED <<txns, audit>>
         \/ \E s \in Session : CommitPost(s) \/ CommitVoid(s)
  <1>1. ASSUME NEW s \in Session,
               \/ \E p \in Payloads : PostBegin(s, p) \/ PostRejected(s, p)
               \/ \E t \in TxId : VoidBegin(s, t) \/ VoidNotFound(s, t)
               \/ ResolveRate(s) \/ NoRate(s) \/ InsertPosted(s) \/ InsertFails(s)
               \/ CommitRefused(s) \/ MarkVoided(s) \/ AlreadyVoided(s)
               \/ InsertReversal(s) \/ Cut(s)
        PROVE  UNCHANGED <<txns, audit>>
    BY <1>1 DEF PostBegin, PostRejected, VoidBegin, VoidNotFound, ResolveRate, NoRate,
                InsertPosted, InsertFails, CommitRefused, MarkVoided, AlreadyVoided,
                InsertReversal, Cut, Rollback
  <1>2. ASSUME NEW r \in Rates, PublishRate(r) PROVE UNCHANGED <<txns, audit>>
    BY <1>2 DEF PublishRate
  <1>3. CASE UNCHANGED vars
    BY <1>3 DEF vars
  <1> QED  BY <1>1, <1>2, <1>3 DEF Next, Step

(* The COMMIT of a post is one Post of the abstract ledger.                *)
LEMMA CommitPostIsPost ==
  ASSUME IInv, NEW s \in Session, CommitPost(s)
  PROVE  LS!Next
  <1>1. PICK t \in TxId \ DOMAIN txns, row \in TxRow :
          /\ ws[s].rows = One(t, row) /\ ws[s].log = {CreateRow(t, NoTx)}
          /\ row.status = "posted" /\ row.reversalOf = NoTx /\ WellFormed(row.entries)
    BY AtCommitPost DEF CommitPost
  <1>2. txns' = Overlay(One(t, row), txns) /\ audit' = audit \cup {CreateRow(t, NoTx)}
    BY <1>1 DEF CommitPost, Commit
  <1>3. t \in DOMAIN txns' /\ txns'[t] = row
    BY <1>2 DEF Overlay, One
  <1>4. LS!Post(t, row)
    BY <1>1, <1>2, SameRows, SameWellFormed DEF LS!Post, LS!Write
  <1> QED  BY <1>3, <1>4 DEF LS!Next

(* The COMMIT of a void is one Void of the abstract ledger.                *)
LEMMA CommitVoidIsVoid ==
  ASSUME IInv, NEW s \in Session, CommitVoid(s)
  PROVE  LS!Next
  <1> DEFINE t == req[s]
             reversal == Posted(txns[t].date, Mirror(txns[t].entries), t)
  <1>1. t \in TxId /\ t \in DOMAIN txns /\ txns[t].status = "posted"
    BY AtCommitVoid DEF CommitVoid
  <1>2. PICK r \in TxId \ DOMAIN txns :
          /\ ws[s].rows = Overlay(One(r, reversal), One(t, Voided(txns[t])))
          /\ ws[s].log = {CreateRow(r, t), VoidRow(t, "posted", r)}
    BY AtCommitVoid DEF CommitVoid
  <1>3. /\ txns' = Overlay(ws[s].rows, txns)
        /\ audit' = audit \cup {CreateRow(r, t), VoidRow(t, "posted", r)}
    BY <1>2 DEF CommitVoid, Commit
  <1>4. LS!Reversal(t) = reversal
    BY SameRows DEF LS!Reversal
  <1> HIDE DEF reversal, t
  <1>5. Overlay(One(r, reversal), One(t, Voided(txns[t])))
          = Overlay(One(t, Voided(txns[t])), One(r, reversal))
    BY <1>1, <1>2 DEF Overlay, One
  <1>6. LS!Void(t, r)
    BY <1>1, <1>2, <1>3, <1>4, <1>5, SameRows DEF LS!Void, LS!Write
  <1> QED  BY <1>1, <1>2, <1>6 DEF LS!Next

(* The sessions, interleaved and cut in any way, implement the abstract    *)
(* ledger: each COMMIT is one atomic post or void, every other step leaves *)
(* the journal and the audit log alone.                                    *)
THEOREM LedgerRefinement == Spec => ImplementsLedgerSpec
  <1>1. Init => LS!Init
    BY SameRows DEF Init, LS!Init
  <1>2. IInv /\ [Next]_vars => [LS!Next]_(LS!vars)
    <2> SUFFICES ASSUME IInv, [Next]_vars PROVE LS!Next \/ UNCHANGED <<txns, audit>>
      BY DEF LS!vars
    <2>1. ASSUME NEW s \in Session, CommitPost(s) PROVE LS!Next
      BY <2>1, CommitPostIsPost
    <2>2. ASSUME NEW s \in Session, CommitVoid(s) PROVE LS!Next
      BY <2>2, CommitVoidIsVoid
    <2> QED  BY <2>1, <2>2, OnlyCommits
  <1> QED  BY <1>1, <1>2, InitIInv, NextIInv, PTL DEF Spec, ImplementsLedgerSpec, LS!Spec

LEMMA SamePost == \A t, row : LSP!Post(t, row) <=> LS!Post(t, row)
  BY DEF LSP!Post, LS!Post, LSP!Write, LS!Write, LSP!Overlay, LS!Overlay, LSP!One, LS!One,
         LSP!TxRow, LS!TxRow, LSP!Status, LS!Status, LSP!Entry, LS!Entry, LSP!Direction,
         LS!Direction, LSP!WellFormed, LS!WellFormed, LSP!BothSides, LS!BothSides,
         LSP!SingleCurrency, LS!SingleCurrency, LSP!Balanced, LS!Balanced, LSP!SideSum,
         LS!SideSum, LSP!Side, LS!Side, LSP!Amounts, LS!Amounts, LSP!SumFunctionOnSet,
         LS!SumFunctionOnSet, LSP!FoldFunctionOnSet, LS!FoldFunctionOnSet,
         LSP!MapThenFoldSet, LS!MapThenFoldSet, LSP!CreateRow, LS!CreateRow

LEMMA SameVoid == \A t, r : LSP!Void(t, r) <=> LS!Void(t, r)
  BY DEF LSP!Void, LS!Void, LSP!Write, LS!Write, LSP!Overlay, LS!Overlay, LSP!One, LS!One,
         LSP!Voided, LS!Voided, LSP!Reversal, LS!Reversal, LSP!Posted, LS!Posted,
         LSP!Mirror, LS!Mirror, LSP!Opposite, LS!Opposite, LSP!CreateRow, LS!CreateRow,
         LSP!VoidRow, LS!VoidRow

LEMMA SameSpec == LS!Spec => LSP!Spec
  <1>1. LS!Init => LSP!Init
    BY DEF LSP!Init, LS!Init, LSP!NoRows, LS!NoRows
  <1>2. [LS!Next]_(LS!vars) => [LSP!Next]_(LSP!vars)
    BY SamePost, SameVoid DEF LSP!Next, LS!Next, LSP!vars, LS!vars
  <1> QED  BY <1>1, <1>2, PTL DEF LSP!Spec, LS!Spec

LEMMA SameInvariants ==
  LSP!Inv => JournalWellFormed /\ VoidedOnceByMirror /\ AuditMatchesJournal
  <1>1. LSP!JournalWellFormed => LS!JournalWellFormed
    BY DEF LSP!JournalWellFormed, LS!JournalWellFormed,
         LSP!WellFormed, LS!WellFormed, LSP!BothSides, LS!BothSides,
         LSP!SingleCurrency, LS!SingleCurrency, LSP!Balanced, LS!Balanced, LSP!SideSum,
         LS!SideSum, LSP!Side, LS!Side, LSP!Amounts, LS!Amounts, LSP!SumFunctionOnSet,
         LS!SumFunctionOnSet, LSP!FoldFunctionOnSet, LS!FoldFunctionOnSet,
         LSP!MapThenFoldSet, LS!MapThenFoldSet, LSP!Direction, LS!Direction
  <1>2. LSP!VoidedOnceByMirror => LS!VoidedOnceByMirror
    BY DEF LSP!VoidedOnceByMirror, LS!VoidedOnceByMirror, LSP!IsMirror, LS!IsMirror,
           LSP!Mirror, LS!Mirror, LSP!Opposite, LS!Opposite
  <1>3. LSP!AuditMatchesJournal => LS!AuditMatchesJournal
    BY DEF LSP!AuditMatchesJournal, LS!AuditMatchesJournal, LSP!CreateRow, LS!CreateRow,
           LSP!VoidRow, LS!VoidRow
  <1> QED  BY <1>1, <1>2, <1>3 DEF LSP!Inv, JournalWellFormed, VoidedOnceByMirror,
                                   AuditMatchesJournal

(* The invariants of the abstract ledger hold of the sessions' tables.     *)
LEMMA AbstractInvariants == Spec => []LSP!Inv
  <1>1. LSP!Spec => []LSP!Inv
    BY LSP!LedgerSpecInvariant, DataAssumption, NoTxAssumption
  <1>2. Spec => LS!Spec
    BY LedgerRefinement DEF ImplementsLedgerSpec
  <1> QED  BY <1>1, <1>2, SameSpec, PTL

(* Double entry, with sessions that interleave and are cut: every committed*)
(* transaction balances, has both sides and is in one currency             *)
(* (create_transaction's checks, void_transaction's mirror).               *)
THEOREM LedgerJournalWellFormed == Spec => []JournalWellFormed
  <1>1. LSP!Inv => JournalWellFormed
    BY SameInvariants
  <1> QED  BY <1>1, AbstractInvariants, PTL

(* Sessions that void one transaction at the same time leave one reversal  *)
(* of it, its mirror, and a voided transaction always has it               *)
(* (mark_voided_if_posted and the one COMMIT of void_transaction).         *)
THEOREM LedgerVoidedOnceByMirror == Spec => []VoidedOnceByMirror
  <1>1. LSP!Inv => VoidedOnceByMirror
    BY SameInvariants
  <1> QED  BY <1>1, AbstractInvariants, PTL

(* The audit log matches the journal at every moment another session can   *)
(* look (audit_repo.log writes in the transaction it reports).             *)
THEOREM LedgerAuditMatchesJournal == Spec => []AuditMatchesJournal
  <1>1. LSP!Inv => AuditMatchesJournal
    BY SameInvariants
  <1> QED  BY <1>1, AbstractInvariants, PTL

(* No step of any session loses or rewrites a committed row, apart from the*)
(* one change of status a void makes.                                      *)
THEOREM LedgerImmutable == Spec => Immutable
  <1>1. LSP!Spec => LSP!Immutable
    BY LSP!LedgerSpecImmutable, DataAssumption, NoTxAssumption
  <1>2. Spec => LS!Spec
    BY LedgerRefinement DEF ImplementsLedgerSpec
  <1>3. [LSP!StepKeepsHistory]_(LSP!vars) => [LS!StepKeepsHistory]_(LS!vars)
    BY DEF LSP!StepKeepsHistory, LS!StepKeepsHistory, LSP!Voided, LS!Voided, LSP!vars, LS!vars
  <1> QED  BY <1>1, <1>2, <1>3, SameSpec, PTL DEF LSP!Immutable, LS!Immutable, Immutable

-----------------------------------------------------------------------------
(* What a step does to the journal, row by row *)

(* What the COMMIT of a post, and of a void, makes of the journal.         *)
LEMMA PostedRows ==
  ASSUME IInv, NEW s \in Session, CommitPost(s)
  PROVE  \E t \in TxId \ DOMAIN txns :
           /\ Wrote(s) = {t} /\ DOMAIN txns' = DOMAIN txns \cup {t}
           /\ txns'[t] = ws[s].rows[t]
           /\ \A u \in DOMAIN txns : txns'[u] = txns[u]
           /\ \E answer \in {Answer(201, t), NoAnswer} : Finish(s, answer)
  <1>1. PICK t \in TxId \ DOMAIN txns : Wrote(s) = {t}
    BY AtCommitPost DEF CommitPost
  <1>2. PICK answer \in {Answer(201, t), NoAnswer} : Commit(s, answer)
    BY <1>1 DEF CommitPost
  <1>3. txns' = Overlay(ws[s].rows, txns) /\ Finish(s, answer)
    BY <1>2 DEF Commit
  <1>4. /\ DOMAIN txns' = DOMAIN txns \cup {t} /\ txns'[t] = ws[s].rows[t]
        /\ \A u \in DOMAIN txns : txns'[u] = txns[u]
    BY <1>1, <1>3 DEF Overlay, Wrote
  <1> QED  BY <1>1, <1>3, <1>4

LEMMA PostAnswered ==
  ASSUME IInv, NEW s \in Session, CommitPost(s)
  PROVE  \E t \in DOMAIN txns' : \E answer \in {Answer(201, t), NoAnswer} : Finish(s, answer)
  <1>1. PICK t : /\ DOMAIN txns' = DOMAIN txns \cup {t}
                 /\ \E answer \in {Answer(201, t), NoAnswer} : Finish(s, answer)
    BY PostedRows
  <1>2. t \in DOMAIN txns'
    BY <1>1
  <1> QED  BY <1>1, <1>2

LEMMA VoidedRows ==
  ASSUME IInv, NEW s \in Session, CommitVoid(s)
  PROVE  /\ req[s] \in TxId /\ req[s] \in DOMAIN txns /\ txns[req[s]].status = "posted"
         /\ txns'[req[s]] = Voided(txns[req[s]])
         /\ \E r \in TxId \ DOMAIN txns :
              /\ DOMAIN txns' = DOMAIN txns \cup {r}
              /\ txns'[r] = Posted(txns[req[s]].date, Mirror(txns[req[s]].entries), req[s])
              /\ \A u \in DOMAIN txns \ {req[s]} : txns'[u] = txns[u]
         /\ \E answer \in {Answer(200, req[s]), NoAnswer} : Finish(s, answer)
  <1> DEFINE t == req[s]
             reversal == Posted(txns[t].date, Mirror(txns[t].entries), t)
             voided == Voided(txns[t])
  <1>1. /\ t \in TxId /\ t \in DOMAIN txns /\ txns[t].status = "posted"
        /\ \E r \in TxId \ DOMAIN txns :
             /\ Wrote(s) = {r, t} /\ ws[s].rows = Overlay(One(r, reversal), One(t, voided))
    BY AtCommitVoid DEF CommitVoid
  <1>2. PICK r \in TxId \ DOMAIN txns :
          ws[s].rows = Overlay(One(r, reversal), One(t, voided))
    BY <1>1
  <1>3. PICK answer \in {Answer(200, t), NoAnswer} : Commit(s, answer)
    BY DEF CommitVoid
  <1>4. txns' = Overlay(ws[s].rows, txns) /\ Finish(s, answer)
    BY <1>3 DEF Commit
  <1> HIDE DEF reversal, voided, t
  <1>5. /\ DOMAIN txns' = DOMAIN txns \cup {r} /\ txns'[r] = reversal /\ txns'[t] = voided
        /\ \A u \in DOMAIN txns \ {t} : txns'[u] = txns[u]
    BY <1>1, <1>2, <1>4 DEF Overlay, One
  <1> QED  BY <1>1, <1>4, <1>5 DEF reversal, voided, t

LEMMA VoidedStatus == \A row \in TxRow : Voided(row).status = "voided"
  BY DEF Voided, TxRow

(* A committed row stays, as it is or, when it was posted, voided.         *)
LEMMA RowsStay ==
  ASSUME IInv, [Next]_vars, NEW u \in DOMAIN txns
  PROVE  /\ u \in DOMAIN txns'
         /\ txns'[u] = txns[u] \/ (txns[u].status = "posted" /\ txns'[u] = Voided(txns[u]))
  <1>1. CASE UNCHANGED <<txns, audit>>
    BY <1>1
  <1>2. ASSUME NEW s \in Session, CommitPost(s)
        PROVE  u \in DOMAIN txns' /\ txns'[u] = txns[u]
    BY <1>2, PostedRows
  <1>3. ASSUME NEW s \in Session, CommitVoid(s)
        PROVE  /\ u \in DOMAIN txns'
               /\ txns'[u] = txns[u] \/ (txns[u].status = "posted" /\ txns'[u] = Voided(txns[u]))
    BY <1>3, VoidedRows
  <1> QED  BY <1>1, <1>2, <1>3, OnlyCommits

(* A row that is new was in the write set of a post, or mirrors a row of   *)
(* the journal.                                                            *)
LEMMA NewRows ==
  ASSUME IInv, [Next]_vars, NEW u \in DOMAIN txns' \ DOMAIN txns
  PROVE  \/ \E s \in Session : CommitPost(s) /\ Wrote(s) = {u} /\ txns'[u] = ws[s].rows[u]
         \/ \E t \in DOMAIN txns :
              txns'[u] = Posted(txns[t].date, Mirror(txns[t].entries), t)
  <1>1. ASSUME NEW s \in Session, CommitPost(s)
        PROVE  Wrote(s) = {u} /\ txns'[u] = ws[s].rows[u]
    <2>1. PICK t \in TxId \ DOMAIN txns :
            /\ Wrote(s) = {t} /\ DOMAIN txns' = DOMAIN txns \cup {t}
            /\ txns'[t] = ws[s].rows[t]
      BY <1>1, PostedRows
    <2>2. u = t
      BY <2>1
    <2> QED  BY <2>1, <2>2
  <1>2. ASSUME NEW s \in Session, CommitVoid(s)
        PROVE  txns'[u] = Posted(txns[req[s]].date, Mirror(txns[req[s]].entries), req[s])
    <2>1. PICK r \in TxId \ DOMAIN txns :
            /\ DOMAIN txns' = DOMAIN txns \cup {r}
            /\ txns'[r] = Posted(txns[req[s]].date, Mirror(txns[req[s]].entries), req[s])
      BY <1>2, VoidedRows
    <2> QED  BY <2>1
  <1>3. ASSUME NEW s \in Session, CommitVoid(s) PROVE req[s] \in DOMAIN txns
    BY <1>3, VoidedRows
  <1>4. txns' # txns
    OBVIOUS
  <1>5. CASE \E s \in Session : CommitPost(s)
    <2>1. PICK s \in Session : CommitPost(s)
      BY <1>5
    <2> QED  BY <1>1, <2>1
  <1>6. CASE \E s \in Session : CommitVoid(s)
    <2>1. PICK s \in Session : CommitVoid(s)
      BY <1>6
    <2> QED  BY <1>2, <1>3, <2>1
  <1>7. (\E s \in Session : CommitPost(s)) \/ (\E s \in Session : CommitVoid(s))
    BY <1>4, OnlyCommits
  <1> QED  BY <1>5, <1>6, <1>7

(* Requests that end with nothing done: none is told 200, 201 or 409.      *)
LEMMA RequestFails ==
  ASSUME NEW s \in Session,
         \/ \E p \in Payloads : PostRejected(s, p)
         \/ \E t \in TxId : VoidNotFound(s, t)
         \/ NoRate(s) \/ InsertFails(s) \/ CommitRefused(s) \/ Cut(s)
  PROVE  \E answer : answer.code \notin {200, 201, 409} /\ Finish(s, answer)
  <1>1. ASSUME NEW answer, Finish(s, answer), answer.code \notin {200, 201, 409}
        PROVE  \E a : a.code \notin {200, 201, 409} /\ Finish(s, a)
    BY <1>1
  <1>2. /\ Answer(404, NoTx).code = 404 /\ Answer(422, NoTx).code = 422
        /\ Answer(500, NoTx).code = 500 /\ NoAnswer.code = 0
    BY DEF Answer, NoAnswer
  <1>3. CASE \E p \in Payloads : PostRejected(s, p)
    <2>1. Finish(s, Answer(422, NoTx))
      BY <1>3 DEF PostRejected, Rollback
    <2> QED  BY <1>1, <1>2, <2>1
  <1>4. CASE \E t \in TxId : VoidNotFound(s, t)
    <2>1. Finish(s, Answer(404, NoTx))
      BY <1>4 DEF VoidNotFound, Rollback
    <2> QED  BY <1>1, <1>2, <2>1
  <1>5. CASE NoRate(s)
    <2>1. Finish(s, Answer(422, NoTx))
      BY <1>5 DEF NoRate, Rollback
    <2> QED  BY <1>1, <1>2, <2>1
  <1>6. CASE InsertFails(s) \/ CommitRefused(s)
    <2>1. Finish(s, Answer(500, NoTx))
      BY <1>6 DEF InsertFails, CommitRefused, Rollback
    <2> QED  BY <1>1, <1>2, <2>1
  <1>7. CASE Cut(s)
    <2>1. Finish(s, NoAnswer)
      BY <1>7 DEF Cut, Rollback
    <2> QED  BY <1>1, <1>2, <2>1
  <1> QED  BY <1>3, <1>4, <1>5, <1>6, <1>7

(* What a step does to one session: it is another's, it ends its request,  *)
(* or it takes the request a step further.                                 *)
LEMMA StepOfSession ==
  ASSUME IInv, [Next]_vars, NEW s \in Session
  PROVE  \/ /\ pc'[s] = pc[s] /\ req'[s] = req[s]
            /\ rate'[s] = rate[s] /\ ws'[s] = ws[s] /\ ratesThen'[s] = ratesThen[s]
         \/ pc'[s] = "idle"
         \/ \E p \in Payloads : PostBegin(s, p)
         \/ \E t \in TxId : VoidBegin(s, t)
         \/ ResolveRate(s) \/ InsertPosted(s) \/ MarkVoided(s) \/ InsertReversal(s)
  <1> DEFINE Stays == /\ pc'[s] = pc[s] /\ req'[s] = req[s]
                      /\ rate'[s] = rate[s] /\ ws'[s] = ws[s] /\ ratesThen'[s] = ratesThen[s]
  <1>1. /\ DOMAIN pc = Session /\ DOMAIN req = Session
        /\ DOMAIN rate = Session /\ DOMAIN ws = Session /\ DOMAIN ratesThen = Session
    BY DEF IInv, TypeOK
  <1>2. ASSUME NEW o \in Session, NEW answer, Finish(o, answer)
        PROVE  pc'[s] = "idle" \/ Stays
    BY <1>1, <1>2 DEF Finish
  <1>3. ASSUME NEW o \in Session,
               \/ \E p \in Payloads : PostRejected(o, p)
               \/ \E t \in TxId : VoidNotFound(o, t)
               \/ NoRate(o) \/ InsertFails(o) \/ CommitRefused(o) \/ Cut(o)
               \/ CommitPost(o) \/ AlreadyVoided(o) \/ CommitVoid(o)
        PROVE  \E answer : Finish(o, answer)
    <2>1. ASSUME AlreadyVoided(o) PROVE Finish(o, Answer(409, req[o]))
      BY <2>1 DEF AlreadyVoided, Rollback
    <2>2. ASSUME CommitPost(o) PROVE \E answer : Finish(o, answer)
      BY <2>2, PostedRows
    <2>3. ASSUME CommitVoid(o) PROVE \E answer : Finish(o, answer)
      BY <2>3, VoidedRows
    <2> QED  BY <1>3, <2>1, <2>2, <2>3, RequestFails
  <1>4. ASSUME NEW o \in Session, o # s,
               \/ \E p \in Payloads : PostBegin(o, p)
               \/ \E t \in TxId : VoidBegin(o, t)
               \/ ResolveRate(o)
        PROVE  Stays
    <2>1. /\ ws' = ws
          /\ \E v : pc' = [pc EXCEPT ![o] = v]
          /\ req' = req \/ \E v : req' = [req EXCEPT ![o] = v]
          /\ rate' = rate \/ \E v : rate' = [rate EXCEPT ![o] = v]
          /\ ratesThen' = ratesThen \/ \E v : ratesThen' = [ratesThen EXCEPT ![o] = v]
      BY <1>4 DEF PostBegin, VoidBegin, ResolveRate
    <2> QED  BY <1>1, <1>4, <2>1
  <1>5. ASSUME NEW o \in Session, o # s,
               InsertPosted(o) \/ MarkVoided(o) \/ InsertReversal(o)
        PROVE  Stays
    <2>1. /\ req' = req /\ rate' = rate /\ ratesThen' = ratesThen
          /\ \E v : pc' = [pc EXCEPT ![o] = v]
          /\ \E v : ws' = [ws EXCEPT ![o] = v]
      BY <1>5 DEF InsertPosted, MarkVoided, InsertReversal, Write
    <2> QED  BY <1>1, <1>5, <2>1
  <1>6. ASSUME NEW r \in Rates, PublishRate(r) PROVE Stays
    BY <1>6 DEF PublishRate, local
  <1>7. ASSUME UNCHANGED vars PROVE Stays
    BY <1>7 DEF vars, local
  <1> HIDE DEF Stays
  <1>8. \/ Stays \/ pc'[s] = "idle"
        \/ \E p \in Payloads : PostBegin(s, p)
        \/ \E t \in TxId : VoidBegin(s, t)
        \/ ResolveRate(s) \/ InsertPosted(s) \/ MarkVoided(s) \/ InsertReversal(s)
    <2>1. CASE \E o \in Session :
                 \/ \E p \in Payloads : PostRejected(o, p)
                 \/ \E t \in TxId : VoidNotFound(o, t)
                 \/ NoRate(o) \/ InsertFails(o) \/ CommitRefused(o) \/ Cut(o)
                 \/ CommitPost(o) \/ AlreadyVoided(o) \/ CommitVoid(o)
      BY <1>2, <1>3, <2>1
    <2>2. CASE \E o \in Session :
                 \/ \E p \in Payloads : PostBegin(o, p)
                 \/ \E t \in TxId : VoidBegin(o, t)
                 \/ ResolveRate(o)
      BY <1>4, <2>2
    <2>3. CASE \E o \in Session : InsertPosted(o) \/ MarkVoided(o) \/ InsertReversal(o)
      BY <1>5, <2>3
    <2> QED  BY <1>6, <1>7, <2>1, <2>2, <2>3 DEF Next, Step
  <1> QED  BY <1>8 DEF Stays

(* A session at the COMMIT of a post came there by its insert.             *)
LEMMA AtCommitBefore ==
  ASSUME IInv, [Next]_vars, NEW s \in Session, pc'[s] = "commitPost"
  PROVE  \/ pc[s] = "commitPost" /\ ws'[s] = ws[s] /\ ratesThen'[s] = ratesThen[s]
         \/ InsertPosted(s)
  <1>1. ASSUME \/ \E p \in Payloads : PostBegin(s, p)
               \/ \E t \in TxId : VoidBegin(s, t)
               \/ ResolveRate(s) \/ MarkVoided(s) \/ InsertReversal(s)
        PROVE  pc'[s] \in {"rate", "update", "insert", "reverse", "commitVoid"}
    <2>1. \E v \in {"rate", "update", "insert", "reverse", "commitVoid"} :
            pc' = [pc EXCEPT ![s] = v]
      BY <1>1 DEF PostBegin, VoidBegin, ResolveRate, MarkVoided, InsertReversal
    <2> QED  BY <2>1 DEF IInv, TypeOK
  <1> QED  BY <1>1, StepOfSession

-----------------------------------------------------------------------------
(* Answers *)

(* What a session may be told by a step: nothing new, a failure, or one of *)
(* the answers that speak of the journal as the step leaves it.  200 is    *)
(* given for a transaction that was posted before.                         *)
LEMMA AnswerGiven ==
  ASSUME IInv, [Next]_vars, NEW s \in Session
  PROVE  \/ resp'[s] = resp[s]
         \/ resp'[s].code \notin {200, 201, 409}
         \/ resp'[s].code = 201 /\ resp'[s].tx \in DOMAIN txns'
         \/ /\ resp'[s].code = 409
            /\ resp'[s].tx \in DOMAIN txns /\ txns[resp'[s].tx].status = "voided"
         \/ /\ resp'[s].code = 200
            /\ resp'[s].tx \in DOMAIN txns /\ txns[resp'[s].tx].status = "posted"
            /\ txns'[resp'[s].tx] = Voided(txns[resp'[s].tx])
            /\ \A o \in Session \ {s} : resp'[o] = resp[o]
  <1> DEFINE Told ==
               \/ resp'[s] = resp[s]
               \/ resp'[s].code \notin {200, 201, 409}
               \/ resp'[s].code = 201 /\ resp'[s].tx \in DOMAIN txns'
               \/ /\ resp'[s].code = 409
                  /\ resp'[s].tx \in DOMAIN txns /\ txns[resp'[s].tx].status = "voided"
               \/ /\ resp'[s].code = 200
                  /\ resp'[s].tx \in DOMAIN txns /\ txns[resp'[s].tx].status = "posted"
                  /\ txns'[resp'[s].tx] = Voided(txns[resp'[s].tx])
                  /\ \A o \in Session \ {s} : resp'[o] = resp[o]
  <1>1. DOMAIN resp = Session
    BY DEF IInv, TypeOK
  <1>2. ASSUME NEW o \in Session, NEW answer, Finish(o, answer)
        PROVE  resp'[o] = answer /\ \A q \in Session \ {o} : resp'[q] = resp[q]
    BY <1>1, <1>2 DEF Finish
  <1>3. ASSUME NEW o \in Session,
               \/ \E p \in Payloads : PostRejected(o, p)
               \/ \E t \in TxId : VoidNotFound(o, t)
               \/ NoRate(o) \/ InsertFails(o) \/ CommitRefused(o) \/ Cut(o)
        PROVE  Told
    <2>1. PICK answer : answer.code \notin {200, 201, 409} /\ Finish(o, answer)
      BY <1>3, RequestFails
    <2> QED  BY <1>2, <2>1
  <1>4. ASSUME NEW o \in Session,
               \/ \E p \in Payloads : PostBegin(o, p)
               \/ \E t \in TxId : VoidBegin(o, t)
        PROVE  Told
    <2>1. resp' = [resp EXCEPT ![o] = NoAnswer]
      BY <1>4 DEF PostBegin, VoidBegin
    <2> QED  BY <1>1, <2>1 DEF NoAnswer
  <1>5. ASSUME NEW o \in Session,
               ResolveRate(o) \/ InsertPosted(o) \/ MarkVoided(o) \/ InsertReversal(o)
        PROVE  Told
    BY <1>5 DEF ResolveRate, InsertPosted, MarkVoided, InsertReversal
  <1>6. ASSUME NEW o \in Session, CommitPost(o) PROVE Told
    <2>1. PICK t \in DOMAIN txns' : \E answer \in {Answer(201, t), NoAnswer} : Finish(o, answer)
      BY <1>6, PostAnswered
    <2>2. PICK answer \in {Answer(201, t), NoAnswer} : Finish(o, answer)
      BY <2>1
    <2>3. answer.code = 0 \/ (answer.code = 201 /\ answer.tx = t)
      BY <2>2 DEF Answer, NoAnswer
    <2> QED  BY <1>2, <2>1, <2>2, <2>3
  <1>7. ASSUME NEW o \in Session, CommitVoid(o) PROVE Told
    <2>1. /\ req[o] \in DOMAIN txns /\ txns[req[o]].status = "posted"
          /\ txns'[req[o]] = Voided(txns[req[o]])
      BY <1>7, VoidedRows
    <2>2. PICK answer \in {Answer(200, req[o]), NoAnswer} : Finish(o, answer)
      BY <1>7, VoidedRows
    <2>3. answer.code = 0 \/ (answer.code = 200 /\ answer.tx = req[o])
      BY <2>2 DEF Answer, NoAnswer
    <2> QED  BY <1>2, <2>1, <2>2, <2>3
  <1>8. ASSUME NEW o \in Session, AlreadyVoided(o) PROVE Told
    <2>1. Finish(o, Answer(409, req[o])) /\ txns[req[o]].status # "posted"
      BY <1>8 DEF AlreadyVoided, Rollback
    <2>2. req[o] \in DOMAIN txns /\ txns[req[o]] \in TxRow
      BY <1>8 DEF AlreadyVoided, IInv, TypeOK, LockDiscipline, SessionSound
    <2>3. txns[req[o]].status = "voided"
      BY <2>1, <2>2 DEF TxRow, Status
    <2>4. Answer(409, req[o]).code = 409 /\ Answer(409, req[o]).tx = req[o]
      BY DEF Answer
    <2> QED  BY <1>2, <2>1, <2>2, <2>3, <2>4
  <1>9. ASSUME NEW r \in Rates, PublishRate(r) PROVE Told
    BY <1>9 DEF PublishRate, local
  <1>10. ASSUME UNCHANGED vars PROVE Told
    BY <1>10 DEF vars, local
  <1>11. Told
    <2> HIDE DEF Told
    <2> QED  BY <1>3, <1>4, <1>5, <1>6, <1>7, <1>8, <1>9, <1>10 DEF Next, Step
  <1> QED  BY <1>11

(* AnswersHold is preserved: the journal keeps what an answer says, and a  *)
(* transaction is told voided for the first time while it is posted.       *)
LEMMA AnswersStep == IInv /\ AnswersHold /\ [Next]_vars => AnswersHold'
  <1> SUFFICES ASSUME IInv, AnswersHold, [Next]_vars PROVE AnswersHold'
    OBVIOUS
  <1>1. ASSUME NEW u \in DOMAIN txns
        PROVE  u \in DOMAIN txns' /\ (txns[u].status = "voided" => txns'[u] = txns[u])
    BY RowsStay
  <1>2. ASSUME NEW s \in Session, resp'[s].code \in {200, 201, 409}
        PROVE  resp'[s].tx \in DOMAIN txns'
    <2>1. CASE resp'[s] = resp[s]
      BY <1>1, <1>2, <2>1 DEF AnswersHold
    <2>2. CASE resp'[s] # resp[s]
      BY <1>1, <1>2, <2>2, AnswerGiven
    <2> QED  BY <2>1, <2>2
  <1>3. ASSUME NEW s \in Session, resp'[s].code \in {200, 409}
        PROVE  txns'[resp'[s].tx].status = "voided"
    <2>1. CASE resp'[s] = resp[s]
      BY <1>1, <1>3, <2>1 DEF AnswersHold
    <2>2. CASE resp'[s] # resp[s]
      <3>1. CASE resp'[s].code = 409
        BY <1>1, <2>2, <3>1, AnswerGiven
      <3>2. CASE resp'[s].code = 200
        <4>1. /\ resp'[s].tx \in DOMAIN txns
              /\ txns'[resp'[s].tx] = Voided(txns[resp'[s].tx])
          BY <2>2, <3>2, AnswerGiven
        <4>2. txns[resp'[s].tx] \in TxRow
          BY <4>1 DEF IInv, TypeOK
        <4> QED  BY <4>1, <4>2, VoidedStatus
      <3> QED  BY <1>3, <3>1, <3>2
    <2> QED  BY <2>1, <2>2
  <1>4. ASSUME NEW s \in Session, resp'[s].code = 200, resp'[s] # resp[s],
               NEW o \in Session, o # s
        PROVE  resp'[o] # resp'[s]
    <2>1. /\ txns[resp'[s].tx].status = "posted" /\ resp'[o] = resp[o]
      BY <1>4, AnswerGiven
    <2> QED  BY <1>4, <2>1 DEF AnswersHold
  <1>5. ASSUME NEW s \in Session, NEW o \in Session, resp'[s].code = 200, resp'[o] = resp'[s]
        PROVE  s = o
    <2>1. CASE resp'[s] = resp[s] /\ resp'[o] = resp[o]
      BY <1>5, <2>1 DEF AnswersHold
    <2>2. CASE resp'[s] # resp[s]
      BY <1>4, <1>5, <2>2
    <2>3. CASE resp'[o] # resp[o]
      BY <1>4, <1>5, <2>3
    <2> QED  BY <2>1, <2>2, <2>3
  <1> QED  BY <1>2, <1>3, <1>5 DEF AnswersHold

(* An answer of create_transaction or void_transaction stays true, and of  *)
(* concurrent voids of one transaction at most one is told it did it       *)
(* (test_concurrent_void_returns_single_conflict), for any number of them. *)
THEOREM LedgerAnswersHold == Spec => []AnswersHold
  <1>1. Init => AnswersHold
    BY DEF Init, AnswersHold, NoAnswer
  <1> QED  BY <1>1, InitIInv, NextIInv, AnswersStep, PTL DEF Spec

-----------------------------------------------------------------------------
(* What is posted can be voided *)

\* What the database took when the transaction went in.
Taken(entries) == FitsColumns(entries) /\ TriggerAccepts(entries)

(* The database took every transaction of the journal, and its columns the *)
(* rows of every post that waits for its COMMIT.  PostedCanBeVoided speaks *)
(* of sessions that void; it rests on how their originals came in.         *)
JournalTaken ==
  /\ \A t \in DOMAIN txns : Taken(txns[t].entries)
  /\ \A s \in Session : pc[s] = "commitPost" =>
       \A t \in Wrote(s) : FitsColumns(ws[s].rows[t].entries)

(* What fits the columns and passes the trigger does so mirrored.          *)
LEMMA MirrorTaken ==
  ASSUME NEW entries \in Seq(Entry), Taken(entries)
  PROVE  Taken(Mirror(entries))
  <1>1. DOMAIN Mirror(entries) = DOMAIN entries
    BY MirrorType
  <1>2. ASSUME NEW i \in DOMAIN entries
        PROVE  /\ Mirror(entries)[i].amount = entries[i].amount
               /\ Mirror(entries)[i].usd = entries[i].usd
    <2>1. entries[i] \in Entry
      OBVIOUS
    <2> QED  BY <2>1 DEF Mirror, Entry
  <1>3. FitsColumns(Mirror(entries))
    BY <1>1, <1>2 DEF Taken, FitsColumns
  <1>4. TriggerAccepts(Mirror(entries))
    BY MirrorSums DEF Taken, TriggerAccepts, Balanced, SideSum, Direction
  <1> QED  BY <1>3, <1>4 DEF Taken

LEMMA RowEntries ==
  /\ \A row \in TxRow : row.entries \in Seq(Entry)
  /\ \A row \in TxRow :
       /\ Voided(row).entries = row.entries /\ Voided(row).date = row.date
       /\ Voided(row).reversalOf = row.reversalOf
  /\ \A date, entries, t :
       Posted(date, entries, t).entries = entries /\ Posted(date, entries, t).date = date
  BY DEF TxRow, Voided, Posted

(* What an insert has written.                                             *)
LEMMA InsertedRow ==
  ASSUME IInv, NEW s \in Session, InsertPosted(s)
  PROVE  \E t \in TxId :
           /\ Wrote(s)' = {t}
           /\ ws'[s].rows[t] = Posted(req[s].date, Convert(req[s].entries, rate[s]), NoTx)
  <1>1. ws[s] = NoWrites /\ Wrote(s) = {}
    BY NothingWritten DEF InsertPosted
  <1>2. PICK t \in Fresh :
          Write(s, One(t, Posted(req[s].date, Convert(req[s].entries, rate[s]), NoTx)),
                {CreateRow(t, NoTx)})
    BY DEF InsertPosted
  <1> QED  BY <1>1, <1>2, WriteOne DEF Fresh

LEMMA TakenStep == IInv /\ JournalTaken /\ [Next]_vars => JournalTaken'
  <1> SUFFICES ASSUME IInv, JournalTaken, [Next]_vars PROVE JournalTaken'
    OBVIOUS
  <1>1. \A t \in DOMAIN txns : txns[t] \in TxRow /\ Taken(txns[t].entries)
    BY DEF IInv, TypeOK, JournalTaken
  <1>2. ASSUME NEW u \in DOMAIN txns PROVE Taken(txns'[u].entries)
    BY <1>1, RowsStay, RowEntries
  <1>3. ASSUME NEW u \in DOMAIN txns' \ DOMAIN txns PROVE Taken(txns'[u].entries)
    <2>1. ASSUME NEW s \in Session, CommitPost(s), Wrote(s) = {u}, txns'[u] = ws[s].rows[u]
          PROVE  Taken(txns'[u].entries)
      <3>1. FitsColumns(ws[s].rows[u].entries)
        BY <2>1 DEF CommitPost, JournalTaken
      <3>2. TriggerAccepts(ws[s].rows[u].entries)
        BY <2>1 DEF CommitPost, TriggerPasses
      <3> QED  BY <2>1, <3>1, <3>2 DEF Taken
    <2>2. ASSUME NEW t \in DOMAIN txns,
                 txns'[u] = Posted(txns[t].date, Mirror(txns[t].entries), t)
          PROVE  Taken(txns'[u].entries)
      <3>1. txns[t].entries \in Seq(Entry) /\ Taken(txns[t].entries)
        BY <1>1, RowEntries
      <3>2. Taken(Mirror(txns[t].entries))
        BY <3>1, MirrorTaken
      <3> QED  BY <2>2, <3>2, RowEntries
    <2> QED  BY <2>1, <2>2, NewRows
  <1>4. ASSUME NEW s \in Session, pc'[s] = "commitPost", NEW t \in Wrote(s)'
        PROVE  FitsColumns(ws'[s].rows[t].entries)
    <2>1. CASE pc[s] = "commitPost" /\ ws'[s] = ws[s]
      BY <1>4, <2>1 DEF JournalTaken, Wrote
    <2>2. CASE InsertPosted(s)
      <3>1. ws'[s].rows[t].entries = Convert(req[s].entries, rate[s])
        BY <1>4, <2>2, InsertedRow, RowEntries
      <3> QED  BY <2>2, <3>1 DEF InsertPosted
    <2> QED  BY <1>4, <2>1, <2>2, AtCommitBefore
  <1> QED  BY <1>2, <1>3, <1>4 DEF JournalTaken

(* The reversal of a transaction the database took is taken too:           *)
(* void_transaction never fails at its COMMIT, or on a column, because of  *)
(* what it writes.                                                         *)
LEMMA TakenVoidable == IInv /\ JournalTaken => PostedCanBeVoided
  <1> SUFFICES ASSUME IInv, JournalTaken, NEW s \in Session, pc[s] = "commitVoid"
               PROVE  TriggerPasses(s) /\ \A t \in Wrote(s) : FitsColumns(ws[s].rows[t].entries)
    BY DEF PostedCanBeVoided
  <1> DEFINE t == req[s]
             reversal == Posted(txns[t].date, Mirror(txns[t].entries), t)
             voided == Voided(txns[t])
  <1>1. /\ t \in DOMAIN txns
        /\ \E r \in TxId \ DOMAIN txns :
             Wrote(s) = {r, t} /\ ws[s].rows = Overlay(One(r, reversal), One(t, voided))
    BY AtCommitVoid
  <1>2. PICK r \in TxId \ DOMAIN txns :
          Wrote(s) = {r, t} /\ ws[s].rows = Overlay(One(r, reversal), One(t, voided))
    BY <1>1
  <1>3. txns[t] \in TxRow /\ Taken(txns[t].entries)
    BY <1>1 DEF IInv, TypeOK, JournalTaken
  <1>4. Taken(reversal.entries) /\ Taken(voided.entries)
    <2>1. txns[t].entries \in Seq(Entry)
      BY <1>3, RowEntries
    <2>2. Taken(Mirror(txns[t].entries))
      BY <1>3, <2>1, MirrorTaken
    <2> QED  BY <1>3, <2>2, RowEntries
  <1> HIDE DEF reversal, voided, t
  <1>5. ws[s].rows[r] = reversal /\ ws[s].rows[t] = voided
    BY <1>1, <1>2 DEF Overlay, One
  <1>6. TriggerPasses(s)
    <2>1. ASSUME NEW u \in Wrote(s) \ DOMAIN txns PROVE TriggerAccepts(ws[s].rows[u].entries)
      <3>1. u = r
        BY <1>1, <1>2
      <3> QED  BY <1>4, <1>5, <3>1 DEF Taken
    <2> QED  BY <2>1 DEF TriggerPasses
  <1>7. ASSUME NEW u \in Wrote(s) PROVE FitsColumns(ws[s].rows[u].entries)
    <2>1. u = r \/ u = t
      BY <1>2
    <2> QED  BY <1>4, <1>5, <2>1 DEF Taken
  <1> QED  BY <1>6, <1>7

(* What went in can be voided, whatever it is: the reversal fits the       *)
(* BIGINT columns and passes check_entries_balance.                        *)
THEOREM LedgerPostedCanBeVoided == Spec => []PostedCanBeVoided
  <1>1. Init => JournalTaken
    BY DEF Init, JournalTaken, NoRows
  <1> QED  BY <1>1, InitIInv, NextIInv, TakenStep, TakenVoidable, PTL DEF Spec

-----------------------------------------------------------------------------
(* The rate of a transaction *)

(* A request says which currency it is in: the code of an accepted payload *)
(* is the currency of its entries.  The schema does not ask for it         *)
(* (currency_code defaults to USD), so it is a hypothesis of the theorem   *)
(* and not an assumption of the model.                                     *)
CodesSaid ==
  \A p \in Payloads : Accepted(p) => \A i \in DOMAIN p.entries : p.entries[i].currency = p.code

(* r is the rate from code to the base currency for a transaction on this  *)
(* day, and not one of an older day than a rate that was known before.     *)
IsRate(published, known, code, date, r) ==
  IF code = BaseCurrency THEN r = RateScale
  ELSE \E q \in Candidates(published, code, date) :
         q.rate = r /\ \A k \in known : k.currency = code => k.date <= q.date

\* What UsdAtRateOfCurrency asks of one row.
AtRate(published, known, row) ==
  \A c \in Currencies(row.entries) :
    \E r \in Nat : IsRate(published, known, c, row.date, r) /\ ConvertedAt(row.entries, r)

(* Every row, committed or about to be, is at its rate, and so is what a   *)
(* request has resolved before it inserts; of its own request, the rate is *)
(* no older than those it found published.                                 *)
JournalAtRate ==
  /\ \A t \in DOMAIN txns : AtRate(rates, {}, txns[t])
  /\ \A s \in Session :
       /\ pc[s] \in {"rate", "insert"} =>
            \A i \in DOMAIN req[s].entries : req[s].entries[i].currency = req[s].code
       /\ pc[s] = "rate" => ratesThen[s] \subseteq Candidates(rates, req[s].code, req[s].date)
       /\ pc[s] = "insert" => IsRate(rates, ratesThen[s], req[s].code, req[s].date, rate[s])
       /\ pc[s] = "commitPost" =>
            \A t \in Wrote(s) : AtRate(rates, ratesThen[s], ws[s].rows[t])

LEMMA AtRateProperty ==
  IInv /\ JournalAtRate => UsdAtRateOfCurrency
  <1> SUFFICES ASSUME IInv, JournalAtRate PROVE UsdAtRateOfCurrency
    OBVIOUS
  <1>1. ASSUME NEW t \in DOMAIN txns, NEW c \in Currencies(txns[t].entries)
        PROVE  IF c = BaseCurrency THEN ConvertedAt(txns[t].entries, RateScale)
               ELSE \E r \in Candidates(rates, c, txns[t].date) :
                      ConvertedAt(txns[t].entries, r.rate)
    <2>1. PICK r \in Nat : IsRate(rates, {}, c, txns[t].date, r) /\ ConvertedAt(txns[t].entries, r)
      BY DEF JournalAtRate, AtRate
    <2> QED  BY <2>1 DEF IsRate
  <1>2. ASSUME NEW s \in Session, pc[s] = "commitPost", NEW t \in Wrote(s),
               NEW c \in Currencies(ws[s].rows[t].entries) \ {BaseCurrency}
        PROVE  \E r \in Candidates(rates, c, ws[s].rows[t].date) :
                 /\ ConvertedAt(ws[s].rows[t].entries, r.rate)
                 /\ \A q \in ratesThen[s] : q.currency = c => q.date <= r.date
    <2>1. PICK r \in Nat : /\ IsRate(rates, ratesThen[s], c, ws[s].rows[t].date, r)
                           /\ ConvertedAt(ws[s].rows[t].entries, r)
      BY <1>2 DEF JournalAtRate, AtRate
    <2> QED  BY <2>1 DEF IsRate
  <1> QED  BY <1>1, <1>2 DEF UsdAtRateOfCurrency

(* Rates are published and never withdrawn.                                *)
LEMMA RatesStay == [Next]_vars => rates \subseteq rates'
  <1> SUFFICES ASSUME [Next]_vars PROVE rates \subseteq rates'
    OBVIOUS
  <1>1. ASSUME NEW s \in Session,
               \/ \E p \in Payloads : PostBegin(s, p) \/ PostRejected(s, p)
               \/ \E t \in TxId : VoidBegin(s, t) \/ VoidNotFound(s, t)
               \/ Step(s) \/ Cut(s)
        PROVE  rates' = rates
    BY <1>1 DEF PostBegin, PostRejected, VoidBegin, VoidNotFound, ResolveRate, NoRate,
                InsertPosted, InsertFails, CommitRefused, MarkVoided, AlreadyVoided,
                InsertReversal, Cut, Rollback, Step, CommitPost, CommitVoid, Commit
  <1>2. ASSUME NEW r \in Rates, PublishRate(r) PROVE rates \subseteq rates'
    BY <1>2 DEF PublishRate
  <1>3. CASE UNCHANGED vars
    BY <1>3 DEF vars
  <1> QED  BY <1>1, <1>2, <1>3 DEF Next

LEMMA RateStays ==
  ASSUME NEW published, NEW later, published \subseteq later, NEW known, NEW fewer,
         fewer \subseteq known
  PROVE  /\ \A code, date, r :
              IsRate(published, known, code, date, r) => IsRate(later, fewer, code, date, r)
         /\ \A row : AtRate(published, known, row) => AtRate(later, fewer, row)
  <1>1. \A code, date : Candidates(published, code, date) \subseteq Candidates(later, code, date)
    BY DEF Candidates
  <1>2. \A code, date, r :
          IsRate(published, known, code, date, r) => IsRate(later, fewer, code, date, r)
    BY <1>1 DEF IsRate
  <1> QED  BY <1>2 DEF AtRate

(* A reversal carries the USD amounts of its original, on its day.         *)
LEMMA MirrorAtRate ==
  ASSUME NEW published, NEW row \in TxRow, AtRate(published, {}, row), NEW t
  PROVE  /\ AtRate(published, {}, Voided(row))
         /\ AtRate(published, {}, Posted(row.date, Mirror(row.entries), t))
  <1> DEFINE e == row.entries
             m == Mirror(e)
  <1>1. e \in Seq(Entry)
    BY RowEntries
  <1>2. DOMAIN m = DOMAIN e
    BY <1>1, MirrorType
  <1>3. ASSUME NEW i \in DOMAIN e
        PROVE  m[i].amount = e[i].amount /\ m[i].usd = e[i].usd /\ m[i].currency = e[i].currency
    <2>1. e[i] \in Entry
      BY <1>1
    <2> QED  BY <2>1 DEF Mirror, Entry
  <1> HIDE DEF m, e
  <1>4. \A r : ConvertedAt(e, r) => ConvertedAt(m, r)
    BY <1>2, <1>3 DEF ConvertedAt
  <1>5. Currencies(m) = Currencies(e)
    BY <1>2, <1>3 DEF Currencies
  <1>6. \A c \in Currencies(e) :
          \E r \in Nat : IsRate(published, {}, c, row.date, r) /\ ConvertedAt(e, r)
    BY DEF AtRate, e
  <1>7. \A c \in Currencies(m) :
          \E r \in Nat : IsRate(published, {}, c, row.date, r) /\ ConvertedAt(m, r)
    BY <1>4, <1>5, <1>6
  <1>8. AtRate(published, {}, Voided(row))
    BY <1>6, RowEntries DEF AtRate, e
  <1>9. /\ Posted(row.date, m, t).entries = m /\ Posted(row.date, m, t).date = row.date
    BY RowEntries
  <1>10. AtRate(published, {}, Posted(row.date, m, t))
    BY <1>7, <1>9 DEF AtRate
  <1> QED  BY <1>8, <1>10 DEF m, e

(* The entries create_transaction stores are at the rate it resolved.      *)
LEMMA ConvertAtRate ==
  ASSUME NEW published, NEW known, NEW p \in Payload, NEW r \in Nat,
         \A i \in DOMAIN p.entries : p.entries[i].currency = p.code,
         IsRate(published, known, p.code, p.date, r), NEW t
  PROVE  AtRate(published, known, Posted(p.date, Convert(p.entries, r), t))
  <1> DEFINE f == Convert(p.entries, r)
             row == Posted(p.date, f, t)
  <1>1. DOMAIN f = DOMAIN p.entries
    BY DEF Convert
  <1>2. \A i \in DOMAIN f : f[i].currency = p.code /\ f[i].usd = ConvertAmountUsd(f[i].amount, r)
    BY DEF Convert
  <1>3. row.entries = f /\ row.date = p.date
    BY RowEntries
  <1> HIDE DEF f, row
  <1>4. ConvertedAt(f, r)
    BY <1>2 DEF ConvertedAt
  <1>5. AtRate(published, known, row)
    BY <1>2, <1>3, <1>4 DEF AtRate, Currencies
  <1> QED  BY <1>5 DEF f, row

(* A request that is about to insert has the rate of its currency in hand. *)
LEMMA InHandAtRate ==
  ASSUME CodesSaid, IInv, JournalAtRate, [Next]_vars, NEW s \in Session
  PROVE  /\ pc'[s] \in {"rate", "insert"} =>
              \A i \in DOMAIN req'[s].entries : req'[s].entries[i].currency = req'[s].code
         /\ pc'[s] = "rate" =>
              ratesThen'[s] \subseteq Candidates(rates', req'[s].code, req'[s].date)
         /\ pc'[s] = "insert" =>
              IsRate(rates', ratesThen'[s], req'[s].code, req'[s].date, rate'[s])
  <1>1. /\ DOMAIN pc = Session /\ DOMAIN req = Session /\ DOMAIN rate = Session
        /\ DOMAIN ratesThen = Session /\ rates \in SUBSET ExchangeRate
    BY DEF IInv, TypeOK
  <1>2. CASE /\ pc'[s] = pc[s] /\ req'[s] = req[s]
             /\ rate'[s] = rate[s] /\ ratesThen'[s] = ratesThen[s]
    <2>1. Candidates(rates, req[s].code, req[s].date)
            \subseteq Candidates(rates', req[s].code, req[s].date)
      BY RatesStay DEF Candidates
    <2>2. pc[s] = "insert" => IsRate(rates', ratesThen[s], req[s].code, req[s].date, rate[s])
      BY RatesStay, RateStays DEF JournalAtRate
    <2> QED  BY <1>2, <2>1, <2>2 DEF JournalAtRate
  <1>3. ASSUME NEW p \in Payloads, PostBegin(s, p)
        PROVE  /\ pc'[s] = "rate" /\ req'[s] = p /\ Accepted(p) /\ rates' = rates
               /\ ratesThen'[s] = Candidates(rates, p.code, p.date)
    BY <1>1, <1>3 DEF PostBegin
  <1>4. CASE ResolveRate(s)
    <2>1. /\ pc'[s] = "insert" /\ req'[s] = req[s] /\ rates' = rates
          /\ ratesThen'[s] = ratesThen[s]
          /\ rate'[s] = ResolveUsdConversionRate(rates, req[s].code, req[s].date)
      BY <1>1, <1>4 DEF ResolveRate
    <2>2. req[s] \in Payload /\ RateKnown(rates, req[s].code, req[s].date)
      BY <1>4 DEF ResolveRate, IInv, LockDiscipline, SessionSound
    <2>3. req[s].date \in Date
      BY <2>2 DEF Payload
    <2>4. ratesThen[s] \subseteq Candidates(rates, req[s].code, req[s].date)
      BY <1>4 DEF ResolveRate, JournalAtRate
    <2>5. IsRate(rates, ratesThen[s], req[s].code, req[s].date,
                 ResolveUsdConversionRate(rates, req[s].code, req[s].date))
      <3>1. CASE req[s].code = BaseCurrency
        BY <3>1 DEF IsRate, ResolveUsdConversionRate
      <3>2. CASE req[s].code # BaseCurrency
        BY <1>1, <2>2, <2>3, <2>4, <3>2, LatestRate DEF IsRate
      <3> QED  BY <3>1, <3>2
    <2>6. \A i \in DOMAIN req[s].entries : req[s].entries[i].currency = req[s].code
      BY <1>4 DEF ResolveRate, JournalAtRate
    <2> QED  BY <2>1, <2>5, <2>6
  <1>5. ASSUME \/ \E t \in TxId : VoidBegin(s, t)
               \/ InsertPosted(s) \/ MarkVoided(s) \/ InsertReversal(s)
        PROVE  pc'[s] \notin {"rate", "insert"}
    BY <1>1, <1>5 DEF VoidBegin, InsertPosted, MarkVoided, InsertReversal
  <1>6. CASE \E p \in Payloads : PostBegin(s, p)
    BY <1>3, <1>6 DEF CodesSaid
  <1> QED  BY <1>2, <1>4, <1>5, <1>6, StepOfSession

LEMMA AtRateStep ==
  ASSUME CodesSaid
  PROVE  IInv /\ JournalAtRate /\ [Next]_vars => JournalAtRate'
  <1> SUFFICES ASSUME IInv, JournalAtRate, [Next]_vars PROVE JournalAtRate'
    OBVIOUS
  <1>1. \A known, row : AtRate(rates, known, row) =>
                          AtRate(rates', known, row) /\ AtRate(rates, {}, row)
    <2> TAKE known, row
    <2> QED  BY RatesStay, RateStays
  <1>2. \A t \in DOMAIN txns : txns[t] \in TxRow /\ AtRate(rates, {}, txns[t])
    BY DEF IInv, TypeOK, JournalAtRate
  <1>3. ASSUME NEW u \in DOMAIN txns PROVE AtRate(rates, {}, txns'[u])
    BY <1>2, RowsStay, MirrorAtRate
  <1>4. ASSUME NEW u \in DOMAIN txns' \ DOMAIN txns PROVE AtRate(rates, {}, txns'[u])
    <2>1. ASSUME NEW s \in Session, CommitPost(s), Wrote(s) = {u}, txns'[u] = ws[s].rows[u]
          PROVE  AtRate(rates, {}, txns'[u])
      BY <1>1, <2>1 DEF CommitPost, JournalAtRate
    <2>2. ASSUME NEW t \in DOMAIN txns,
                 txns'[u] = Posted(txns[t].date, Mirror(txns[t].entries), t)
          PROVE  AtRate(rates, {}, txns'[u])
      BY <1>2, <2>2, MirrorAtRate
    <2> QED  BY <2>1, <2>2, NewRows
  <1>5. ASSUME NEW s \in Session, pc'[s] = "commitPost", NEW t \in Wrote(s)'
        PROVE  AtRate(rates, ratesThen'[s], ws'[s].rows[t])
    <2>1. CASE pc[s] = "commitPost" /\ ws'[s] = ws[s] /\ ratesThen'[s] = ratesThen[s]
      BY <1>5, <2>1 DEF JournalAtRate, Wrote
    <2>2. CASE InsertPosted(s)
      <3>1. ws'[s].rows[t] = Posted(req[s].date, Convert(req[s].entries, rate[s]), NoTx)
        BY <1>5, <2>2, InsertedRow
      <3>2. /\ pc[s] = "insert" /\ req[s] \in Payload /\ rate[s] \in Nat
            /\ ratesThen' = ratesThen
        BY <2>2 DEF InsertPosted, IInv, TypeOK, LockDiscipline, SessionSound
      <3>3. /\ \A i \in DOMAIN req[s].entries : req[s].entries[i].currency = req[s].code
            /\ IsRate(rates, ratesThen[s], req[s].code, req[s].date, rate[s])
        BY <3>2 DEF JournalAtRate
      <3> QED  BY <3>1, <3>2, <3>3, ConvertAtRate
    <2> QED  BY <1>5, <2>1, <2>2, AtCommitBefore
  <1>6. \A t \in DOMAIN txns' : AtRate(rates', {}, txns'[t])
    BY <1>1, <1>3, <1>4
  <1>7. \A s \in Session : pc'[s] = "commitPost" =>
          \A t \in Wrote(s)' : AtRate(rates', ratesThen'[s], ws'[s].rows[t])
    BY <1>1, <1>5
  <1>8. \A s \in Session :
          /\ pc'[s] \in {"rate", "insert"} =>
               \A i \in DOMAIN req'[s].entries : req'[s].entries[i].currency = req'[s].code
          /\ pc'[s] = "rate" =>
               ratesThen'[s] \subseteq Candidates(rates', req'[s].code, req'[s].date)
          /\ pc'[s] = "insert" =>
               IsRate(rates', ratesThen'[s], req'[s].code, req'[s].date, rate'[s])
    BY InHandAtRate
  <1> QED  BY <1>6, <1>7, <1>8 DEF JournalAtRate, AtRate, IsRate, Candidates

(* Every entry of the journal is at a rate of its currency published for a *)
(* day up to the transaction's, and what a request is about to commit at   *)
(* one no older than any it found when it began, provided requests name    *)
(* the currency they are in (CodesSaid).  Rates published while a          *)
(* transaction is written, and voids of any depth, change nothing.         *)
THEOREM LedgerUsdAtRate ==
  ASSUME CodesSaid
  PROVE  Spec => []UsdAtRateOfCurrency
  <1>1. Init => JournalAtRate
    BY DEF Init, JournalAtRate, NoRows
  <1>2. IInv /\ JournalAtRate /\ [Next]_vars => JournalAtRate'
    BY AtRateStep
  <1> QED  BY <1>1, <1>2, InitIInv, NextIInv, AtRateProperty, PTL DEF Spec

-----------------------------------------------------------------------------
(* Balances over the whole journal *)

\* What create_transaction's checks and conversion make of the entries, beyond their form.
Checked(entries) == OfAccounts(entries) /\ \E r \in Nat : ConvertedAt(entries, r)

(* The journal has finitely many rows, and each was checked and converted, *)
(* or mirrors one that was; so are the rows that wait for their COMMIT.    *)
JournalChecked ==
  /\ IsFiniteSet(DOMAIN txns)
  /\ \A t \in DOMAIN txns : Checked(txns[t].entries)
  /\ \A s \in Session : pc[s] = "commitPost" =>
       \A t \in Wrote(s) : Checked(ws[s].rows[t].entries)

LEMMA ConvertChecked ==
  ASSUME NEW p \in Payload, Accepted(p), NEW r \in Nat
  PROVE  Checked(Convert(p.entries, r))
  <1> DEFINE e == p.entries
             f == Convert(e, r)
  <1>1. /\ DOMAIN f = DOMAIN e
        /\ \A i \in DOMAIN e : /\ f[i].account = e[i].account
                               /\ f[i].currency = e[i].currency
                               /\ f[i].usd = ConvertAmountUsd(f[i].amount, r)
    BY DEF Convert
  <1>2. AccountsFound(e) /\ CurrencyMatchesAccount(e)
    BY DEF Accepted
  <1> HIDE DEF e, f
  <1>3. OfAccounts(f)
    BY <1>1, <1>2 DEF OfAccounts, AccountsFound, CurrencyMatchesAccount
  <1>4. ConvertedAt(f, r)
    BY <1>1 DEF ConvertedAt
  <1> QED  BY <1>3, <1>4 DEF Checked, e, f

LEMMA MirrorChecked ==
  ASSUME NEW e \in Seq(Entry), Checked(e)
  PROVE  Checked(Mirror(e))
  <1> DEFINE m == Mirror(e)
  <1>1. DOMAIN m = DOMAIN e
    BY MirrorType
  <1>2. ASSUME NEW i \in DOMAIN e
        PROVE  /\ m[i].account = e[i].account /\ m[i].currency = e[i].currency
               /\ m[i].amount = e[i].amount /\ m[i].usd = e[i].usd
    <2>1. e[i] \in Entry
      OBVIOUS
    <2> QED  BY <2>1 DEF Mirror, Entry
  <1> HIDE DEF m
  <1>3. OfAccounts(m)
    BY <1>1, <1>2 DEF Checked, OfAccounts, AccountsFound, CurrencyMatchesAccount
  <1>4. \A r : ConvertedAt(e, r) => ConvertedAt(m, r)
    BY <1>1, <1>2 DEF ConvertedAt
  <1> QED  BY <1>3, <1>4 DEF Checked, m

(* A step adds at most one row.                                            *)
LEMMA JournalGrowsByOne ==
  ASSUME IInv, [Next]_vars
  PROVE  DOMAIN txns' = DOMAIN txns \/ \E t \in TxId \ DOMAIN txns : DOMAIN txns' = DOMAIN txns \cup {t}
  <1>1. ASSUME NEW s \in Session, CommitPost(s)
        PROVE  \E t \in TxId \ DOMAIN txns : DOMAIN txns' = DOMAIN txns \cup {t}
    BY <1>1, PostedRows
  <1>2. ASSUME NEW s \in Session, CommitVoid(s)
        PROVE  \E t \in TxId \ DOMAIN txns : DOMAIN txns' = DOMAIN txns \cup {t}
    BY <1>2, VoidedRows
  <1> QED  BY <1>1, <1>2, OnlyCommits

LEMMA CheckedStep == IInv /\ JournalChecked /\ [Next]_vars => JournalChecked'
  <1> SUFFICES ASSUME IInv, JournalChecked, [Next]_vars PROVE JournalChecked'
    OBVIOUS
  <1>1. IsFiniteSet(DOMAIN txns')
    BY JournalGrowsByOne, FS_AddElement DEF JournalChecked
  <1>2. \A t \in DOMAIN txns : txns[t] \in TxRow /\ Checked(txns[t].entries)
    BY DEF IInv, TypeOK, JournalChecked
  <1>3. ASSUME NEW u \in DOMAIN txns PROVE Checked(txns'[u].entries)
    BY <1>2, RowsStay, RowEntries
  <1>4. ASSUME NEW u \in DOMAIN txns' \ DOMAIN txns PROVE Checked(txns'[u].entries)
    <2>1. ASSUME NEW s \in Session, CommitPost(s), Wrote(s) = {u}, txns'[u] = ws[s].rows[u]
          PROVE  Checked(txns'[u].entries)
      BY <2>1 DEF CommitPost, JournalChecked
    <2>2. ASSUME NEW t \in DOMAIN txns,
                 txns'[u] = Posted(txns[t].date, Mirror(txns[t].entries), t)
          PROVE  Checked(txns'[u].entries)
      BY <1>2, <2>2, MirrorChecked, RowEntries
    <2> QED  BY <2>1, <2>2, NewRows
  <1>5. ASSUME NEW s \in Session, pc'[s] = "commitPost", NEW t \in Wrote(s)'
        PROVE  Checked(ws'[s].rows[t].entries)
    <2>1. CASE pc[s] = "commitPost" /\ ws'[s] = ws[s]
      BY <1>5, <2>1 DEF JournalChecked, Wrote
    <2>2. CASE InsertPosted(s)
      <3>1. ws'[s].rows[t].entries = Convert(req[s].entries, rate[s])
        BY <1>5, <2>2, InsertedRow, RowEntries
      <3>2. req[s] \in Payload /\ Accepted(req[s]) /\ rate[s] \in Nat
        BY <2>2 DEF InsertPosted, IInv, TypeOK, LockDiscipline, SessionSound
      <3> QED  BY <3>1, <3>2, ConvertChecked
    <2> QED  BY <1>5, <2>1, <2>2, AtCommitBefore
  <1> QED  BY <1>1, <1>3, <1>4, <1>5 DEF JournalChecked

LEMMA InitChecked == Init => JournalChecked
  BY FS_EmptySet DEF Init, JournalChecked, NoRows

LEMMA JournalIsTable == IInv /\ JournalChecked => IsTable(txns)
  BY DEF IInv, TypeOK, JournalChecked, IsTable

(* The trial balance: at every day the balances of the accounts in one     *)
(* currency add up to zero (calculate_balance over all of them), for any   *)
(* chart of accounts and any number of sessions.                           *)
THEOREM LedgerTrialBalance == Spec => []TrialBalance
  <1>1. IInv /\ JournalChecked /\ JournalWellFormed => TrialBalance
    <2> SUFFICES ASSUME IInv, JournalChecked, JournalWellFormed,
                        NEW c \in Currency, NEW day \in Date,
                        NEW accounts, accounts = {a \in ActiveAccount : CurrencyOf[a] = c}
                 PROVE  SumFunctionOnSet(Balances(txns, accounts, day), accounts) = 0
      BY DEF TrialBalance, Balances
    <2>1. \A t \in DOMAIN txns : OfAccounts(txns[t].entries) /\ WellFormed(txns[t].entries)
      BY SameWellFormed DEF JournalChecked, Checked, JournalWellFormed, LS!JournalWellFormed
    <2>2. IsFiniteSet(accounts)
      BY LedgerAssumption, FS_Subset
    <2> QED  BY <2>1, <2>2, JournalIsTable, BalancesCancel
  <1> QED  BY <1>1, InitIInv, NextIInv, InitChecked, CheckedStep, LedgerJournalWellFormed,
              PTL DEF Spec

-----------------------------------------------------------------------------
(* Rounding to USD *)

LEMMA SideFinite ==
  ASSUME NEW e \in Seq(Entry), NEW dir
  PROVE  IsFiniteSet(Side(e, dir))
  <1>1. Len(e) \in Nat /\ Side(e, dir) \subseteq 1 .. Len(e)
    BY DEF Side
  <1>2. IsFiniteSet(1 .. Len(e))
    BY <1>1, FS_Interval
  <1> QED  BY <1>1, <1>2, FS_Subset

LEMMA RoundedSide ==
  ASSUME NEW e \in Seq(Entry), NEW r \in Nat, ConvertedAt(e, r), NEW dir
  PROVE  /\ IsFiniteSet(Side(e, dir)) /\ SideSum(e, dir) \in Int /\ UsdTotal(e, dir) \in Int
         /\ 2 * RateScale * UsdTotal(e, dir)
              <= 2 * r * SideSum(e, dir) + RateScale * Cardinality(Side(e, dir))
         /\ 2 * r * SideSum(e, dir)
              <= 2 * RateScale * UsdTotal(e, dir) + RateScale * Cardinality(Side(e, dir))
  <1> DEFINE S == Side(e, dir)
             usd == [i \in DOMAIN e |-> e[i].usd]
             amount == Amounts(e)
             p == 2 * RateScale
             q == 2 * r
  <1>1. RateScale \in Nat
    BY DataAssumption
  <1>2. IsFiniteSet(S)
    BY SideFinite
  <1>3. ASSUME NEW i \in S
        PROVE  /\ usd[i] \in Int /\ amount[i] \in Int
               /\ p * usd[i] <= q * amount[i] + RateScale
               /\ q * amount[i] <= p * usd[i] + RateScale
    <2>1. i \in DOMAIN e /\ e[i] \in Entry
      BY DEF Side
    <2>2. /\ amount[i] = e[i].amount /\ usd[i] = ConvertAmountUsd(e[i].amount, r)
          /\ e[i].amount \in Nat
      BY <2>1 DEF Amounts, ConvertedAt, Entry
    <2>3. /\ usd[i] \in Nat /\ amount[i] \in Nat
          /\ 2 * RateScale * usd[i] <= 2 * amount[i] * r + RateScale
          /\ 2 * amount[i] * r - RateScale < 2 * RateScale * usd[i]
      BY <2>2, ConversionBound
    <2> HIDE DEF usd, amount
    <2> QED  BY <1>1, <2>3, SMTT(30)
  <1>4. p \in Int /\ q \in Int /\ RateScale \in Int
    BY <1>1
  <1> HIDE DEF S, usd, amount, p, q
  <1>5. SumFunctionOnSet(usd, S) \in Int /\ SumFunctionOnSet(amount, S) \in Int
    BY <1>2, <1>3, SumType
  <1>6. p * SumFunctionOnSet(usd, S)
          <= q * SumFunctionOnSet(amount, S) + RateScale * Cardinality(S)
    <2>1. \A i \in S : usd[i] \in Int /\ amount[i] \in Int /\ p * usd[i] <= q * amount[i] + RateScale
      BY <1>3
    <2> QED  BY <1>2, <1>4, <2>1, SumBound
  <1>7. q * SumFunctionOnSet(amount, S)
          <= p * SumFunctionOnSet(usd, S) + RateScale * Cardinality(S)
    <2>1. \A i \in S : amount[i] \in Int /\ usd[i] \in Int /\ q * amount[i] <= p * usd[i] + RateScale
      BY <1>3
    <2> QED  BY <1>2, <1>4, <2>1, SumBound
  <1> QED  BY <1>2, <1>5, <1>6, <1>7 DEF SideSum, UsdTotal, S, usd, amount, p, q

LEMMA SidesCount ==
  ASSUME NEW e \in Seq(Entry)
  PROVE  /\ Cardinality(Side(e, "debit")) \in Nat /\ Cardinality(Side(e, "credit")) \in Nat
         /\ Cardinality(Side(e, "debit")) + Cardinality(Side(e, "credit")) = Len(e)
  <1>1. /\ Len(e) \in Nat /\ DOMAIN e = 1 .. Len(e)
        /\ \A i \in DOMAIN e : e[i].direction \in {"debit", "credit"}
    <2>1. \A i \in DOMAIN e : e[i] \in Entry
      OBVIOUS
    <2> QED  BY <2>1 DEF Entry, Direction
  <1>2. /\ Side(e, "debit") \cup Side(e, "credit") = 1 .. Len(e)
        /\ Side(e, "debit") \cap Side(e, "credit") = {}
    BY <1>1 DEF Side
  <1>3. IsFiniteSet(1 .. Len(e)) /\ Cardinality(1 .. Len(e)) = Len(e)
    BY <1>1, FS_Interval
  <1>4. IsFiniteSet(Side(e, "debit")) /\ IsFiniteSet(Side(e, "credit"))
    BY SideFinite
  <1>5. Cardinality(Side(e, "debit")) \in Nat /\ Cardinality(Side(e, "credit")) \in Nat
    BY <1>4, FS_CardinalityType
  <1>6. Cardinality(Side(e, "debit") \cup Side(e, "credit"))
          = Cardinality(Side(e, "debit")) + Cardinality(Side(e, "credit"))
    <2> DEFINE D == Side(e, "debit")
               C == Side(e, "credit")
    <2>1. Cardinality(D \cap C) = 0
      BY <1>2, FS_EmptySet
    <2>2. Cardinality(D \cup C) = Cardinality(D) + Cardinality(C) - Cardinality(D \cap C)
      BY <1>4, FS_Union
    <2> HIDE DEF D, C
    <2>3. Cardinality(D) \in Nat /\ Cardinality(C) \in Nat
      BY <1>5 DEF D, C
    <2>4. Cardinality(D \cup C) = Cardinality(D) + Cardinality(C)
      BY <2>1, <2>2, <2>3
    <2> QED  BY <2>4 DEF D, C
  <1> QED  BY <1>2, <1>3, <1>5, <1>6

(* Half a minor unit an entry, and no more: the USD sides of a transaction *)
(* that balances differ by the rounding of its entries only                *)
(* (_convert_amount_usd on every one of them), at any rate.                *)
THEOREM RoundingOfBalanced ==
  ASSUME NEW e \in Seq(Entry), Balanced(e), NEW r \in Nat, ConvertedAt(e, r)
  PROVE  2 * (UsdTotal(e, "debit") - UsdTotal(e, "credit")) \in -Len(e) .. Len(e)
  <1> DEFINE ud == UsdTotal(e, "debit")
             uc == UsdTotal(e, "credit")
             m == SideSum(e, "debit")
             nd == Cardinality(Side(e, "debit"))
             nc == Cardinality(Side(e, "credit"))
             x == 2 * r * m
  <1>1. RateScale \in Nat /\ RateScale > 0
    BY DataAssumption
  <1>2. SideSum(e, "credit") = m
    BY DEF Balanced
  <1>3. /\ m \in Int /\ ud \in Int /\ uc \in Int
        /\ 2 * RateScale * ud <= x + RateScale * nd
        /\ x <= 2 * RateScale * ud + RateScale * nd
        /\ 2 * RateScale * uc <= x + RateScale * nc
        /\ x <= 2 * RateScale * uc + RateScale * nc
    BY <1>2, RoundedSide
  <1>4. nd \in Nat /\ nc \in Nat /\ nd + nc = Len(e)
    BY SidesCount
  <1>5. x \in Int
    BY <1>3
  <1> HIDE DEF ud, uc, m, nd, nc, x
  <1>6. 2 * RateScale * ud <= 2 * RateScale * uc + RateScale * nc + RateScale * nd
    BY <1>1, <1>3, <1>4, <1>5
  <1>7. 2 * RateScale * uc <= 2 * RateScale * ud + RateScale * nc + RateScale * nd
    BY <1>1, <1>3, <1>4, <1>5
  <1>8. ASSUME NEW a \in Int, NEW b \in Int, NEW n \in Nat, NEW k \in Nat,
               2 * RateScale * a <= 2 * RateScale * b + RateScale * n + RateScale * k
        PROVE  2 * (a - b) <= n + k
    <2>1. RateScale * (2 * (a - b)) <= RateScale * (n + k)
      BY <1>1, <1>8
    <2>2. ASSUME 2 * (a - b) > n + k PROVE FALSE
      <3>1. RateScale * (2 * (a - b)) >= RateScale * (n + k + 1)
        BY <1>1, <2>2
      <3> QED  BY <1>1, <2>1, <3>1
    <2> QED  BY <2>2
  <1>9. 2 * (ud - uc) <= nc + nd /\ 2 * (uc - ud) <= nc + nd
    BY <1>3, <1>4, <1>6, <1>7, <1>8
  <1> QED  BY <1>3, <1>4, <1>9 DEF ud, uc

THEOREM LedgerUsdSidesWithinRounding == Spec => []UsdSidesWithinRounding
  <1>1. IInv /\ JournalChecked /\ JournalWellFormed => UsdSidesWithinRounding
    <2> SUFFICES ASSUME IInv, JournalChecked, JournalWellFormed, NEW t \in DOMAIN txns
                 PROVE  2 * (UsdTotal(txns[t].entries, "debit") - UsdTotal(txns[t].entries, "credit"))
                          \in -Len(txns[t].entries) .. Len(txns[t].entries)
      BY DEF UsdSidesWithinRounding
    <2>1. PICK r \in Nat : ConvertedAt(txns[t].entries, r)
      BY DEF JournalChecked, Checked
    <2>2. Balanced(txns[t].entries)
      BY SameWellFormed DEF JournalWellFormed, LS!JournalWellFormed, WellFormed
    <2>3. txns[t].entries \in Seq(Entry)
      BY RowEntries DEF IInv, TypeOK
    <2> QED  BY <2>1, <2>2, <2>3, RoundingOfBalanced
  <1> QED  BY <1>1, InitIInv, NextIInv, InitChecked, CheckedStep, LedgerJournalWellFormed,
              PTL DEF Spec

-----------------------------------------------------------------------------
(* Voids of voids *)

IsDepth(table, d) ==
  d = [t \in DOMAIN table |->
         IF table[t].reversalOf = NoTx THEN 0 ELSE 1 + d[table[t].reversalOf]]

(* Reversals do not go round in a circle: every transaction is finitely    *)
(* many voids away from one that reverses nothing.                         *)
ChainsEnd == \E d \in [DOMAIN txns -> Nat] : IsDepth(txns, d)

\* A row reverses nothing or a row of the journal.
LinksHold ==
  \A t \in DOMAIN txns : txns[t].reversalOf # NoTx => txns[t].reversalOf \in DOMAIN txns

LEMMA ChainsStep == IInv /\ LinksHold /\ ChainsEnd /\ [Next]_vars => ChainsEnd'
  <1> SUFFICES ASSUME IInv, LinksHold, ChainsEnd, [Next]_vars PROVE ChainsEnd'
    OBVIOUS
  <1>1. PICK d \in [DOMAIN txns -> Nat] : IsDepth(txns, d)
    BY DEF ChainsEnd
  <1>2. ASSUME NEW t \in DOMAIN txns
        PROVE  t \in DOMAIN txns' /\ txns'[t].reversalOf = txns[t].reversalOf
    <2>1. txns[t] \in TxRow
      BY DEF IInv, TypeOK
    <2> QED  BY <2>1, RowsStay, RowEntries
  <1>3. ASSUME NEW t \in DOMAIN txns' \ DOMAIN txns, txns'[t].reversalOf # NoTx
        PROVE  txns'[t].reversalOf \in DOMAIN txns
    <2>1. ASSUME NEW s \in Session, CommitPost(s), Wrote(s) = {t}, txns'[t] = ws[s].rows[t]
          PROVE  txns'[t].reversalOf = NoTx
      <3>1. pc[s] = "commitPost"
        BY <2>1 DEF CommitPost
      <3>2. PICK u \in Wrote(s) : PostWrites(s, u)
        BY <3>1 DEF IInv, LockDiscipline, SessionSound
      <3>3. u = t
        BY <2>1
      <3> QED  BY <2>1, <3>2, <3>3 DEF PostWrites
    <2>2. ASSUME NEW u \in DOMAIN txns,
                 txns'[t] = Posted(txns[u].date, Mirror(txns[u].entries), u)
          PROVE  txns'[t].reversalOf = u
      BY <2>2 DEF Posted
    <2> QED  BY <1>3, <2>1, <2>2, NewRows
  <1> DEFINE e == [t \in DOMAIN txns' |->
                     IF t \in DOMAIN txns THEN d[t]
                     ELSE IF txns'[t].reversalOf = NoTx THEN 0 ELSE 1 + d[txns'[t].reversalOf]]
  <1>4. e \in [DOMAIN txns' -> Nat]
    BY <1>3
  <1>5. ASSUME NEW t \in DOMAIN txns'
        PROVE  e[t] = IF txns'[t].reversalOf = NoTx THEN 0 ELSE 1 + e[txns'[t].reversalOf]
    <2>1. CASE t \in DOMAIN txns
      <3>1. d[t] = IF txns[t].reversalOf = NoTx THEN 0 ELSE 1 + d[txns[t].reversalOf]
        BY <1>1, <2>1 DEF IsDepth
      <3>2. txns[t].reversalOf # NoTx => e[txns[t].reversalOf] = d[txns[t].reversalOf]
        BY <1>2, <2>1 DEF LinksHold
      <3> QED  BY <1>2, <2>1, <3>1, <3>2
    <2>2. CASE t \notin DOMAIN txns
      <3>1. txns'[t].reversalOf # NoTx => e[txns'[t].reversalOf] = d[txns'[t].reversalOf]
        BY <1>2, <1>3, <2>2
      <3> QED  BY <2>2, <3>1
    <2> QED  BY <2>1, <2>2
  <1> HIDE DEF e
  <1>6. e = [t \in DOMAIN txns' |-> e[t]]
    BY <1>4
  <1>7. IsDepth(txns', e)
    BY <1>5, <1>6 DEF IsDepth
  <1> QED  BY <1>4, <1>7 DEF ChainsEnd

(* The recursion of Depth is well defined, and counts in natural numbers.  *)
LEMMA DepthIs ==
  ASSUME LinksHold, ChainsEnd
  PROVE  /\ Depth \in [DOMAIN txns -> Nat]
         /\ \A t \in DOMAIN txns :
              Depth[t] = IF txns[t].reversalOf = NoTx THEN 0 ELSE 1 + Depth[txns[t].reversalOf]
  <1>1. PICK e \in [DOMAIN txns -> Nat] : IsDepth(txns, e)
    BY DEF ChainsEnd
  <1>2. Depth = CHOOSE d : IsDepth(txns, d)
    BY DEF Depth, IsDepth
  <1>3. IsDepth(txns, Depth)
    BY <1>1, <1>2
  <1>4. \A t \in DOMAIN txns :
          /\ Depth[t] = IF txns[t].reversalOf = NoTx THEN 0 ELSE 1 + Depth[txns[t].reversalOf]
          /\ e[t] = IF txns[t].reversalOf = NoTx THEN 0 ELSE 1 + e[txns[t].reversalOf]
    BY <1>1, <1>3 DEF IsDepth
  <1> DEFINE Bad == {n \in Nat : \E t \in DOMAIN txns : e[t] = n /\ Depth[t] # n}
  <1>5. ASSUME Bad # {} PROVE FALSE
    <2>1. PICK n \in Bad : \A m \in Bad : n <= m
      BY <1>5, LeastNatural
    <2>2. PICK t \in DOMAIN txns : e[t] = n /\ Depth[t] # n
      BY <2>1
    <2>3. txns[t].reversalOf # NoTx
      BY <1>4, <2>2
    <2> DEFINE u == txns[t].reversalOf
    <2>4. u \in DOMAIN txns /\ e[u] \in Nat /\ e[u] = n - 1 /\ Depth[t] = 1 + Depth[u] /\ n \in Nat
      BY <1>1, <1>4, <2>2, <2>3 DEF LinksHold
    <2>5. Depth[u] # e[u]
      BY <2>2, <2>4
    <2>6. n - 1 \in Bad
      BY <2>4, <2>5
    <2> QED  BY <2>1, <2>4, <2>6
  <1>6. \A t \in DOMAIN txns : Depth[t] = e[t]
    BY <1>1, <1>5
  <1>7. Depth = [t \in DOMAIN txns |-> Depth[t]]
    BY <1>3 DEF IsDepth
  <1> QED  BY <1>1, <1>4, <1>6, <1>7

\* Transactions that do not count in the end, each with the one it cancels out with.
Undone == {t \in DOMAIN txns : ~ (txns[t].status = "posted" /\ Depth[t] % 2 = 0)}

Partner(t) ==
  IF Depth[t] % 2 = 1 THEN txns[t].reversalOf
  ELSE CHOOSE r \in DOMAIN txns : txns[r].reversalOf = t

LEMMA PartnerUndoes ==
  ASSUME IInv, VoidedOnceByMirror, ChainsEnd, NEW t \in Undone
  PROVE  /\ Partner(t) \in Undone /\ Partner(Partner(t)) = t
         /\ Undoes(txns[Partner(t)], txns[t])
  <1>1. /\ \A u \in DOMAIN txns :
             txns[u].status = "voided" <=> \E r \in DOMAIN txns : txns[r].reversalOf = u
        /\ \A r \in DOMAIN txns : txns[r].reversalOf # NoTx =>
             /\ txns[r].reversalOf \in DOMAIN txns
             /\ txns[r].date = txns[txns[r].reversalOf].date
             /\ txns[r].entries = Mirror(txns[txns[r].reversalOf].entries)
             /\ \A q \in DOMAIN txns : txns[q].reversalOf = txns[r].reversalOf => q = r
    BY SameRows DEF VoidedOnceByMirror, LS!VoidedOnceByMirror, LS!IsMirror
  <1>2. /\ Depth \in [DOMAIN txns -> Nat]
        /\ \A u \in DOMAIN txns :
             Depth[u] = IF txns[u].reversalOf = NoTx THEN 0 ELSE 1 + Depth[txns[u].reversalOf]
    BY <1>1, DepthIs DEF LinksHold
  <1>3. \A u \in DOMAIN txns : u \in TxId /\ txns[u] \in TxRow /\ txns[u].status \in {"posted", "voided"}
    BY DEF IInv, TypeOK, TxRow, Status
  <1>4. ASSUME NEW r \in DOMAIN txns, txns[r].reversalOf # NoTx
        PROVE  Undoes(txns[r], txns[txns[r].reversalOf]) /\ Undoes(txns[txns[r].reversalOf], txns[r])
    BY <1>1, <1>3, <1>4, MirrorUndoes
  <1>5. \A n \in Nat : /\ n % 2 = 0 \/ n % 2 = 1
                       /\ n % 2 = 1 => (n + 1) % 2 = 0
                       /\ n % 2 = 0 => (n + 1) % 2 = 1
    OBVIOUS
  <1>6. CASE Depth[t] % 2 = 1
    <2> DEFINE u == txns[t].reversalOf
    <2>1. t \in DOMAIN txns /\ u # NoTx /\ u \in DOMAIN txns /\ Depth[t] = Depth[u] + 1
          /\ Depth[u] \in Nat
      BY <1>1, <1>2, <1>6 DEF Undone
    <2>2. Depth[u] % 2 = 0
      BY <1>5, <1>6, <2>1
    <2>3. txns[u].status = "voided"
      BY <1>1, <2>1
    <2>4. Partner(t) = u /\ u \in Undone
      BY <1>6, <2>1, <2>3 DEF Partner, Undone
    <2>5. Partner(u) = t
      <3>1. Partner(u) = CHOOSE r \in DOMAIN txns : txns[r].reversalOf = u
        BY <2>2 DEF Partner
      <3>2. \A r \in DOMAIN txns : txns[r].reversalOf = u <=> r = t
        BY <1>1, <2>1
      <3> QED  BY <2>1, <3>1, <3>2
    <2> QED  BY <1>4, <2>1, <2>4, <2>5
  <1>7. CASE Depth[t] % 2 # 1
    <2>1. t \in DOMAIN txns /\ Depth[t] \in Nat /\ Depth[t] % 2 = 0 /\ txns[t].status = "voided"
          /\ t # NoTx
      BY <1>2, <1>3, <1>5, <1>7, NoTxAssumption DEF Undone
    <2>2. PICK r \in DOMAIN txns : txns[r].reversalOf = t
      BY <1>1, <2>1
    <2>3. \A q \in DOMAIN txns : txns[q].reversalOf = t <=> q = r
      BY <1>1, <2>1, <2>2
    <2>4. Partner(t) = r
      BY <1>7, <2>2, <2>3 DEF Partner
    <2>5. Depth[r] = Depth[t] + 1
      BY <1>2, <2>1, <2>2
    <2>6. Depth[r] % 2 = 1
      BY <1>5, <2>1, <2>5
    <2>7. r \in Undone /\ Partner(r) = t
      BY <2>2, <2>6 DEF Undone, Partner
    <2> QED  BY <1>4, <2>1, <2>2, <2>4, <2>7
  <1> QED  BY <1>6, <1>7

(* A void takes its transaction out of every balance, and the void of a    *)
(* void puts it back, to any depth and whoever voids what first: adding up *)
(* everything, as calculate_balance does, gives the balance of what is in  *)
(* effect.                                                                 *)
THEOREM LedgerVoidNetsToZero == Spec => []VoidNetsToZero
  <1>1. IInv /\ JournalChecked /\ VoidedOnceByMirror /\ ChainsEnd => VoidNetsToZero
    <2> SUFFICES ASSUME IInv, JournalChecked, VoidedOnceByMirror, ChainsEnd,
                        NEW a \in Account, NEW day \in Date
                 PROVE  CalculateBalance(txns, a, day) = CalculateBalance(Effective, a, day)
      BY DEF VoidNetsToZero
    <2> DEFINE partner == [t \in Undone |-> Partner(t)]
    <2>1. \A t \in Undone : /\ partner[t] \in Undone /\ partner[partner[t]] = t
                            /\ Undoes(txns[partner[t]], txns[t])
      BY PartnerUndoes
    <2>2. Effective = Without(txns, Undone)
      BY DEF Effective, Without, Undone
    <2>3. Undone \in SUBSET DOMAIN txns /\ IsTable(txns)
      BY JournalIsTable DEF Undone
    <2> HIDE DEF partner
    <2> QED  BY <2>1, <2>2, <2>3, PairsCancel
  <1>2. Init => ChainsEnd
    <2> SUFFICES ASSUME Init PROVE ChainsEnd
      OBVIOUS
    <2>1. DOMAIN txns = {}
      BY DEF Init, NoRows
    <2>2. IsDepth(txns, [t \in {} |-> 0]) /\ [t \in {} |-> 0] \in [DOMAIN txns -> Nat]
      BY <2>1 DEF IsDepth
    <2> QED  BY <2>2 DEF ChainsEnd
  <1>3. VoidedOnceByMirror => LinksHold
    BY DEF VoidedOnceByMirror, LS!VoidedOnceByMirror, LinksHold
  <1> QED  BY <1>1, <1>2, <1>3, ChainsStep, InitIInv, NextIInv, InitChecked, CheckedStep,
              LedgerVoidedOnceByMirror, PTL DEF Spec
=============================================================================
