-------------------------- MODULE LedgerSpecProofs --------------------------
(***************************************************************************)
(* The invariants of the abstract ledger, for any accounts, currencies,    *)
(* transaction ids and amounts.  Their conjunction is inductive: that a    *)
(* second reversal never appears needs that a voided status and a reversal *)
(* go together, and that the audit log matches needs the former.           *)
(***************************************************************************)
EXTENDS LedgerSpec, DoubleEntryProofs

Inv == TypeOK /\ JournalWellFormed /\ VoidedOnceByMirror /\ AuditMatchesJournal

(* A step that posts a transaction preserves the invariant.                *)
LEMMA PostStep ==
  ASSUME Inv, NEW t \in TxId, t \in DOMAIN txns', Post(t, txns'[t])
  PROVE  Inv'
  <1> DEFINE row == txns'[t]
  <1>1. /\ t \notin DOMAIN txns
        /\ row \in TxRow /\ row.status = "posted" /\ row.reversalOf = NoTx
        /\ WellFormed(row.entries)
        /\ txns' = Overlay(One(t, row), txns)
        /\ audit' = audit \cup {CreateRow(t, NoTx)}
    BY DEF Post, Write
  <1>2. /\ DOMAIN txns' = {t} \cup DOMAIN txns
        /\ txns'[t] = row
        /\ \A u \in DOMAIN txns : txns'[u] = txns[u]
    BY <1>1 DEF Overlay, One
  <1> HIDE DEF row
  <1>3. CreateRow(t, NoTx) \in AuditRow
    BY DEF CreateRow, AuditRow, Status
  <1>4. TypeOK'
    BY <1>1, <1>2, <1>3 DEF Inv, TypeOK
  <1>5. JournalWellFormed'
    BY <1>1, <1>2 DEF Inv, JournalWellFormed
  <1>6. \A u \in DOMAIN txns : txns[u].reversalOf # t
    BY <1>1, NoTxAssumption DEF Inv, VoidedOnceByMirror
  <1>7. VoidedOnceByMirror'
    <2>1. \A u \in DOMAIN txns' :
            txns'[u].status = "voided" <=> \E r \in DOMAIN txns' : txns'[r].reversalOf = u
      BY <1>1, <1>2, <1>6, NoTxAssumption DEF Inv, VoidedOnceByMirror, TypeOK
    <2>2. ASSUME NEW r \in DOMAIN txns', txns'[r].reversalOf # NoTx
          PROVE  /\ txns'[r].reversalOf \in DOMAIN txns'
                 /\ IsMirror(txns'[r], txns'[txns'[r].reversalOf])
                 /\ \A q \in DOMAIN txns' : txns'[q].reversalOf = txns'[r].reversalOf => q = r
      BY <1>1, <1>2, <2>2 DEF Inv, VoidedOnceByMirror, IsMirror
    <2> QED  BY <2>1, <2>2 DEF VoidedOnceByMirror
  <1>8. AuditMatchesJournal'
    BY <1>1, <1>2 DEF Inv, AuditMatchesJournal
  <1> QED  BY <1>4, <1>5, <1>7, <1>8 DEF Inv

(* A step that voids a transaction preserves the invariant.                *)
LEMMA VoidStep ==
  ASSUME Inv, NEW t \in TxId, NEW r \in TxId, Void(t, r)
  PROVE  Inv'
  <1>1. /\ t \in DOMAIN txns /\ r \notin DOMAIN txns /\ t # r
        /\ txns[t].status = "posted"
        /\ txns[t] \in TxRow
        /\ audit' = audit \cup {CreateRow(r, t), VoidRow(t, "posted", r)}
    BY DEF Void, Write, Inv, TypeOK
  <1>2. /\ DOMAIN txns' = {r} \cup DOMAIN txns
        /\ txns'[t] = Voided(txns[t])
        /\ txns'[r] = Reversal(t)
        /\ \A u \in DOMAIN txns \ {t} : txns'[u] = txns[u]
    BY <1>1 DEF Void, Write, Overlay, One
  <1>3. /\ Voided(txns[t]) \in TxRow
        /\ Voided(txns[t]).status = "voided"
        /\ Voided(txns[t]).date = txns[t].date
        /\ Voided(txns[t]).entries = txns[t].entries
        /\ Voided(txns[t]).reversalOf = txns[t].reversalOf
    BY <1>1 DEF Voided, TxRow, Status
  <1>4. /\ Reversal(t) \in TxRow
        /\ Reversal(t).status = "posted"
        /\ Reversal(t).date = txns[t].date
        /\ Reversal(t).entries = Mirror(txns[t].entries)
        /\ Reversal(t).reversalOf = t
    BY <1>1, MirrorType DEF Reversal, Posted, TxRow, Status
  <1>5. \A u \in DOMAIN txns : txns[u].reversalOf # t
    BY <1>1 DEF Inv, VoidedOnceByMirror
  <1>6. \A u \in DOMAIN txns : txns[u].reversalOf # r
    BY <1>1, NoTxAssumption DEF Inv, VoidedOnceByMirror
  <1>7. /\ \A u \in DOMAIN txns : /\ txns'[u].date = txns[u].date
                                  /\ txns'[u].entries = txns[u].entries
                                  /\ txns'[u].reversalOf = txns[u].reversalOf
        /\ \A u \in DOMAIN txns \ {t} : txns'[u].status = txns[u].status
    BY <1>2, <1>3
  <1>8. TypeOK'
    <2>1. CreateRow(r, t) \in AuditRow /\ VoidRow(t, "posted", r) \in AuditRow
      BY DEF CreateRow, VoidRow, AuditRow, Status
    <2> QED  BY <1>1, <1>2, <1>3, <1>4, <2>1 DEF Inv, TypeOK
  <1>9. JournalWellFormed'
    <2>1. WellFormed(Mirror(txns[t].entries))
      BY <1>1, MirrorWellFormed DEF Inv, JournalWellFormed, TxRow
    <2> QED  BY <1>2, <1>4, <1>7, <2>1 DEF Inv, JournalWellFormed
  <1>10. VoidedOnceByMirror'
    <2>1. \A u \in DOMAIN txns' :
            txns'[u].status = "voided" <=> \E q \in DOMAIN txns' : txns'[q].reversalOf = u
      <3>1. ASSUME NEW u \in DOMAIN txns \ {t}
            PROVE  txns'[u].status = "voided" <=> \E q \in DOMAIN txns' : txns'[q].reversalOf = u
        BY <1>2, <1>4, <1>7 DEF Inv, VoidedOnceByMirror
      <3>2. txns'[t].status = "voided" /\ \E q \in DOMAIN txns' : txns'[q].reversalOf = t
        BY <1>2, <1>3, <1>4
      <3>3. txns'[r].status # "voided" /\ \A q \in DOMAIN txns' : txns'[q].reversalOf # r
        BY <1>1, <1>2, <1>4, <1>6, <1>7
      <3> QED  BY <1>2, <3>1, <3>2, <3>3
    <2>2. ASSUME NEW q \in DOMAIN txns', txns'[q].reversalOf # NoTx
          PROVE  /\ txns'[q].reversalOf \in DOMAIN txns'
                 /\ IsMirror(txns'[q], txns'[txns'[q].reversalOf])
                 /\ \A p \in DOMAIN txns' : txns'[p].reversalOf = txns'[q].reversalOf => p = q
      <3>1. CASE q = r
        BY <1>1, <1>2, <1>4, <1>5, <1>7, <3>1 DEF IsMirror
      <3>2. CASE q # r
        <4>1. q \in DOMAIN txns /\ txns'[q].reversalOf = txns[q].reversalOf
          BY <1>2, <1>7, <3>2
        <4>2. /\ txns[q].reversalOf \in DOMAIN txns
              /\ IsMirror(txns[q], txns[txns[q].reversalOf])
              /\ \A p \in DOMAIN txns : txns[p].reversalOf = txns[q].reversalOf => p = q
          BY <2>2, <4>1 DEF Inv, VoidedOnceByMirror
        <4> QED  BY <1>2, <1>4, <1>5, <1>7, <4>1, <4>2 DEF IsMirror
      <3> QED  BY <3>1, <3>2
    <2> QED  BY <2>1, <2>2 DEF VoidedOnceByMirror
  <1>11. AuditMatchesJournal'
    <2>1. {CreateRow(u, txns'[u].reversalOf) : u \in DOMAIN txns'}
            = {CreateRow(u, txns[u].reversalOf) : u \in DOMAIN txns} \cup {CreateRow(r, t)}
      BY <1>1, <1>2, <1>4, <1>7
    <2>2. {q \in DOMAIN txns' : txns'[q].reversalOf # NoTx}
            = {q \in DOMAIN txns : txns[q].reversalOf # NoTx} \cup {r}
      BY <1>2, <1>4, <1>7, NoTxAssumption
    <2>3. {VoidRow(txns'[q].reversalOf, "posted", q) :
             q \in {p \in DOMAIN txns' : txns'[p].reversalOf # NoTx}}
            = {VoidRow(txns[q].reversalOf, "posted", q) :
                 q \in {p \in DOMAIN txns : txns[p].reversalOf # NoTx}}
              \cup {VoidRow(t, "posted", r)}
      BY <1>1, <1>4, <1>2, <1>7, <2>2
    <2> QED  BY <1>1, <2>1, <2>3 DEF Inv, AuditMatchesJournal
  <1> QED  BY <1>8, <1>9, <1>10, <1>11 DEF Inv

(* Every behaviour of the abstract ledger keeps the invariants.            *)
THEOREM LedgerSpecInvariant == Spec => []Inv
  <1>1. Init => Inv
    BY DEF Init, Inv, NoRows, TypeOK, JournalWellFormed, VoidedOnceByMirror,
           AuditMatchesJournal
  <1>2. Inv /\ [Next]_vars => Inv'
    <2> SUFFICES ASSUME Inv, [Next]_vars PROVE Inv'
      OBVIOUS
    <2>1. CASE \E t \in TxId : t \in DOMAIN txns' /\ Post(t, txns'[t])
      BY <2>1, PostStep
    <2>2. CASE \E t, r \in TxId : Void(t, r)
      BY <2>2, VoidStep
    <2>3. CASE UNCHANGED vars
      BY <2>3 DEF vars, Inv, TypeOK, JournalWellFormed, VoidedOnceByMirror, IsMirror,
                  AuditMatchesJournal
    <2> QED  BY <2>1, <2>2, <2>3 DEF Next
  <1> QED  BY <1>1, <1>2, PTL DEF Spec

(* No step of the abstract ledger loses or rewrites history.               *)
THEOREM LedgerSpecImmutable == Spec => Immutable
  <1>1. [Next]_vars => [StepKeepsHistory]_vars
    <2> SUFFICES ASSUME Next PROVE StepKeepsHistory
      BY DEF vars
    <2>1. ASSUME NEW t \in TxId, t \in DOMAIN txns', Post(t, txns'[t])
          PROVE  StepKeepsHistory
      <3>1. t \notin DOMAIN txns /\ txns' = Overlay(One(t, txns'[t]), txns)
        BY <2>1 DEF Post, Write
      <3> DEFINE row == txns'[t]
      <3>2. txns' = Overlay(One(t, row), txns)
        BY <3>1
      <3> HIDE DEF row
      <3>3. \A u \in DOMAIN txns : u \in DOMAIN txns' /\ txns'[u] = txns[u]
        BY <3>1, <3>2 DEF Overlay, One
      <3> QED  BY <2>1, <3>3 DEF Post, Write, StepKeepsHistory
    <2>2. ASSUME NEW t \in TxId, NEW r \in TxId, Void(t, r)
          PROVE  StepKeepsHistory
      <3>1. /\ t # r /\ txns[t].status = "posted" /\ r \notin DOMAIN txns
            /\ t \in DOMAIN txns
            /\ txns' = Overlay(Overlay(One(t, Voided(txns[t])), One(r, Reversal(t))), txns)
        BY <2>2 DEF Void, Write
      <3>2. /\ DOMAIN txns' = {t, r} \cup DOMAIN txns
            /\ txns'[t] = Voided(txns[t])
            /\ \A u \in DOMAIN txns \ {t, r} : txns'[u] = txns[u]
        BY <3>1 DEF Overlay, One
      <3> QED  BY <2>2, <3>1, <3>2 DEF Void, Write, StepKeepsHistory
    <2> QED  BY <2>1, <2>2 DEF Next
  <1> QED  BY <1>1, PTL DEF Spec, Immutable
=============================================================================
