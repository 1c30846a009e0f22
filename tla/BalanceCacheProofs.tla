-------------------------- MODULE BalanceCacheProofs --------------------------
(***************************************************************************)
(* What the cache can and cannot hold, for any number of readers, writers, *)
(* accounts and days: every value was the balance once, under every fault; *)
(* and without a fault an entry that was right when it was set is deleted  *)
(* by the writer of each transaction it lacks.                             *)
(*                                                                         *)
(* A balance grows by appended transactions only, so a prefix of the ledger*)
(* that once gave a value gives it for ever (BalancePrefix); this carries  *)
(* the first invariant, and says of the second that what an entry lacks is *)
(* newer than the entry.                                                   *)
(***************************************************************************)
EXTENDS BalanceCache, TLAPS

Entry == [present : {TRUE}, value : SUBSET Nat, fresh : BOOLEAN]
Computing == [at : {"compute"}, key : CacheKey]
Setting == [at : {"set"}, key : CacheKey, value : SUBSET Nat]
Between == [at : {"next"}, tx : Nat, todo : SUBSET KnownAccount]
Scanning ==
  [at : {"scan"}, tx : Nat, todo : SUBSET KnownAccount, account : KnownAccount,
   left : SUBSET Day, found : SUBSET Day]

CacheTypeOK ==
  /\ ledger \in Seq(Writes)
  /\ cache \in [CacheKey -> {Absent} \cup Entry]
  /\ ask \in [Reader -> {Waiting} \cup Computing \cup Setting]
  /\ job \in [Writer -> {Waiting} \cup Between \cup Scanning]
  /\ faults \in Nat

IInv == CacheTypeOK /\ CachedWasTrue /\ RightEntriesAreDeleted

USE BalanceCacheAssumption

-----------------------------------------------------------------------------
(* Balances and the ledger *)

LEMMA BalanceTyped ==
  ASSUME ledger \in Seq(Writes), NEW a, NEW d
  PROVE  Balance(a, d) \subseteq 1 .. Len(ledger) /\ Balance(a, d) \subseteq Nat
  BY DEF Balance

(* A COMMIT adds at most itself to a balance.                              *)
LEMMA BalancePrefix ==
  ASSUME ledger \in Seq(Writes), NEW t \in Writes, ledger' = Append(ledger, t),
         NEW a, NEW d
  PROVE  /\ Balance(a, d)' \subseteq Balance(a, d) \cup {Len(ledger) + 1}
         /\ Balance(a, d) \subseteq Balance(a, d)'
         /\ Len(ledger') = Len(ledger) + 1
         /\ Len(ledger) + 1 \in Balance(a, d)' => a \in t.accounts
  <1>1. /\ DOMAIN ledger' = 1 .. Len(ledger) + 1 /\ DOMAIN ledger = 1 .. Len(ledger)
        /\ \A i \in 1 .. Len(ledger) : ledger'[i] = ledger[i]
        /\ ledger'[Len(ledger) + 1] = t
        /\ Len(ledger') = Len(ledger) + 1 /\ Len(ledger) \in Nat
    OBVIOUS
  <1> QED  BY <1>1 DEF Balance

(* What was the balance after some number of COMMITs still is.             *)
LEMMA OnceTrueStays ==
  ASSUME ledger \in Seq(Writes), NEW t \in Writes, ledger' = Append(ledger, t),
         NEW k, NEW value, OnceTrue(k, value)
  PROVE  OnceTrue(k, value)'
  <1>1. PICK n \in 0 .. Len(ledger) : value = {i \in Balance(k[1], k[2]) : i <= n}
    BY DEF OnceTrue
  <1>2. value = {i \in Balance(k[1], k[2])' : i <= n}
    BY <1>1, BalancePrefix
  <1>3. n \in 0 .. Len(ledger')
    BY <1>1, BalancePrefix
  <1> QED  BY <1>2, <1>3 DEF OnceTrue, Balance

LEMMA BalanceIsOnceTrue ==
  ASSUME ledger \in Seq(Writes), NEW k
  PROVE  OnceTrue(k, Balance(k[1], k[2]))
  <1>1. Balance(k[1], k[2]) = {i \in Balance(k[1], k[2]) : i <= Len(ledger)}
    BY BalanceTyped
  <1> QED  BY <1>1 DEF OnceTrue

-----------------------------------------------------------------------------
LEMMA InitIInv == Init => IInv
  BY DEF Init, IInv, CacheTypeOK, CachedWasTrue, RightEntriesAreDeleted, Absent, Waiting

-----------------------------------------------------------------------------
(* Typing *)

LEMMA ReaderTypes ==
  ASSUME CacheTypeOK, NEW r \in Reader,
         \/ \E k \in CacheKey : Hit(r, k) \/ Miss(r, k) \/ GetFails(r, k)
         \/ ReaderStep(r) \/ CrashReader(r)
  PROVE  CacheTypeOK'
  <1>1. CASE \E k \in CacheKey : Hit(r, k)
    BY <1>1 DEF Hit, vars, CacheTypeOK
  <1>2. ASSUME NEW k \in CacheKey, Miss(r, k) \/ GetFails(r, k) PROVE CacheTypeOK'
    BY <1>2 DEF Miss, GetFails, StartCompute, Fault, Computing, CacheTypeOK
  <1>3. CASE NotFound(r) \/ CrashReader(r)
    BY <1>3 DEF NotFound, CrashReader, Fault, CacheTypeOK
  <1>4. CASE Compute(r)
    <2>1. ask[r].key \in CacheKey
      BY <1>4 DEF Compute, CacheTypeOK, Computing, Setting, Waiting
    <2>2. Balance(ask[r].key[1], ask[r].key[2]) \subseteq Nat
      BY BalanceTyped DEF CacheTypeOK
    <2> QED  BY <1>4, <2>1, <2>2 DEF Compute, Setting, CacheTypeOK
  <1>5. CASE SetCache(r) \/ SetFails(r)
    <2>1. ask[r].key \in CacheKey /\ ask[r].value \subseteq Nat
      BY <1>5 DEF SetCache, SetFails, CacheTypeOK, Computing, Setting, Waiting
    <2>2. Cached(ask[r].value, ask[r].value = Balance(ask[r].key[1], ask[r].key[2])) \in Entry
      BY <2>1, Zenon DEF Cached, Entry
    <2>3. cache' \in [CacheKey -> {Absent} \cup Entry]
      BY <1>5, <2>1, <2>2 DEF SetCache, SetFails, Fill, CacheTypeOK
    <2> QED  BY <1>5, <2>3 DEF SetCache, SetFails, Fault, CacheTypeOK
  <1> QED  BY <1>1, <1>2, <1>3, <1>4, <1>5 DEF ReaderStep

LEMMA WriterTypes ==
  ASSUME CacheTypeOK, NEW w \in Writer,
         \/ \E t \in Writes : CommitWrite(w, t)
         \/ WriterStep(w) \/ CrashWriter(w)
  PROVE  CacheTypeOK'
  <1>1. ASSUME NEW t \in Writes, CommitWrite(w, t) PROVE CacheTypeOK'
    BY <1>1 DEF CommitWrite, Between, CacheTypeOK
  <1>2. ASSUME NEW a \in KnownAccount, NextAccount(w, a) PROVE CacheTypeOK'
    <2>1. job[w] \in Between
      BY <1>2 DEF NextAccount, CacheTypeOK, Waiting, Scanning
    <2> QED  BY <1>2, <2>1 DEF NextAccount, Between, Scanning, CacheTypeOK
  <1>3. ASSUME NEW d \in Day, Scan(w, d) PROVE CacheTypeOK'
    <2>1. job[w] \in Scanning
      BY <1>3 DEF Scan, CacheTypeOK, Waiting, Between
    <2> QED  BY <1>3, <2>1 DEF Scan, Scanning, CacheTypeOK
  <1>4. CASE DeleteKeys(w)
    <2>1. job[w] \in Scanning
      BY <1>4 DEF DeleteKeys, CacheTypeOK, Waiting, Between
    <2>2. cache' \in [CacheKey -> {Absent} \cup Entry]
      BY <1>4 DEF DeleteKeys, DeleteFound, CacheTypeOK
    <2>3. job' \in [Writer -> {Waiting} \cup Between \cup Scanning]
      BY <1>4, <2>1 DEF DeleteKeys, EndJob, Between, Scanning, CacheTypeOK
    <2> QED  BY <1>4, <2>2, <2>3 DEF DeleteKeys, CacheTypeOK
  <1>5. CASE InvalidationFails(w) \/ CrashWriter(w)
    <2>1. cache' \in [CacheKey -> {Absent} \cup Entry]
      BY <1>5 DEF InvalidationFails, CrashWriter, DeleteFound, CacheTypeOK
    <2>2. job' = [job EXCEPT ![w] = Waiting] /\ faults' \in Nat /\ UNCHANGED <<ledger, ask>>
      BY <1>5 DEF InvalidationFails, CrashWriter, EndJob, Fault, CacheTypeOK
    <2> QED  BY <2>1, <2>2 DEF CacheTypeOK
  <1> QED  BY <1>1, <1>2, <1>3, <1>4, <1>5 DEF WriterStep

LEMMA ExpireTypes ==
  ASSUME CacheTypeOK, NEW k \in CacheKey, Expire(k)
  PROVE  CacheTypeOK'
  BY DEF Expire, CacheTypeOK

-----------------------------------------------------------------------------
(* What is cached was true *)

\* The cache changes by what is deleted, and nothing else changes that a value rests on.
OnlyDeleted ==
  /\ ledger' = ledger
  /\ \A k \in CacheKey : cache'[k] \in {cache[k], Absent}

LEMMA DeletedStaysTrue ==
  ASSUME CacheTypeOK, CachedWasTrue, OnlyDeleted,
         \A r \in Reader : ask'[r].at = "set" => ask'[r] = ask[r]
  PROVE  CachedWasTrue'
  <1>1. \A k, value : OnceTrue(k, value) => OnceTrue(k, value)'
    BY DEF OnceTrue, Balance, OnlyDeleted
  <1> QED  BY <1>1 DEF CachedWasTrue, OnlyDeleted, Absent

LEMMA ReaderTrue ==
  ASSUME CacheTypeOK, CachedWasTrue, NEW r \in Reader,
         \/ \E k \in CacheKey : Hit(r, k) \/ Miss(r, k) \/ GetFails(r, k)
         \/ ReaderStep(r) \/ CrashReader(r)
  PROVE  CachedWasTrue'
  <1>1. CASE \/ \E k \in CacheKey : Hit(r, k) \/ Miss(r, k) \/ GetFails(r, k)
             \/ NotFound(r) \/ CrashReader(r)
    <2>1. OnlyDeleted
      BY <1>1 DEF Hit, Miss, GetFails, StartCompute, NotFound, CrashReader, vars, OnlyDeleted
    <2>2. \A q \in Reader : ask'[q].at = "set" => ask'[q] = ask[q]
      BY <1>1 DEF Hit, Miss, GetFails, StartCompute, NotFound, CrashReader, vars, Waiting, CacheTypeOK
    <2> QED  BY <2>1, <2>2, DeletedStaysTrue
  <1>2. ledger' = ledger => \A k, value : OnceTrue(k, value) => OnceTrue(k, value)'
    BY DEF OnceTrue, Balance
  <1>3. CASE Compute(r)
    <2>1. OnceTrue(ask[r].key, Balance(ask[r].key[1], ask[r].key[2]))
      BY BalanceIsOnceTrue DEF CacheTypeOK
    <2> QED  BY <1>2, <1>3, <2>1 DEF Compute, CachedWasTrue, CacheTypeOK
  <1>4. CASE SetCache(r) \/ SetFails(r)
    <2>1. OnceTrue(ask[r].key, ask[r].value) /\ ledger' = ledger
      BY <1>4 DEF SetCache, SetFails, CachedWasTrue
    <2>2. \A k \in CacheKey :
            cache'[k] = cache[k] \/ (k = ask[r].key /\ cache'[k].value = ask[r].value)
      <3>1. \/ cache' = cache
            \/ cache' = [cache EXCEPT ![ask[r].key] =
                 Cached(ask[r].value, ask[r].value = Balance(ask[r].key[1], ask[r].key[2]))]
        BY <1>4 DEF SetCache, SetFails, Fill
      <3>2. \A fresh : Cached(ask[r].value, fresh).value = ask[r].value
        BY DEF Cached
      <3> QED  BY <3>1, <3>2 DEF CacheTypeOK
    <2>3. \A q \in Reader : ask'[q].at = "set" => ask'[q] = ask[q]
      BY <1>4 DEF SetCache, SetFails, Waiting, CacheTypeOK
    <2> QED  BY <1>2, <2>1, <2>2, <2>3 DEF CachedWasTrue
  <1> QED  BY <1>1, <1>3, <1>4 DEF ReaderStep

LEMMA WriterTrue ==
  ASSUME CacheTypeOK, CachedWasTrue, NEW w \in Writer,
         \/ \E t \in Writes : CommitWrite(w, t)
         \/ WriterStep(w) \/ CrashWriter(w)
  PROVE  CachedWasTrue'
  <1>1. ASSUME NEW t \in Writes, CommitWrite(w, t) PROVE CachedWasTrue'
    <2>1. \A k, value : OnceTrue(k, value) => OnceTrue(k, value)'
      BY <1>1, OnceTrueStays DEF CommitWrite, CacheTypeOK
    <2> QED  BY <1>1, <2>1 DEF CommitWrite, CachedWasTrue
  <1>2. CASE WriterStep(w) \/ CrashWriter(w)
    <2>1. OnlyDeleted /\ ask' = ask
      BY <1>2 DEF WriterStep, NextAccount, Scan, DeleteKeys, InvalidationFails, CrashWriter,
                  DeleteFound, OnlyDeleted
    <2> QED  BY <2>1, DeletedStaysTrue
  <1> QED  BY <1>1, <1>2

LEMMA ExpireTrue ==
  ASSUME CacheTypeOK, CachedWasTrue, NEW k \in CacheKey, Expire(k)
  PROVE  CachedWasTrue'
  <1>1. OnlyDeleted /\ ask' = ask
    BY DEF Expire, OnlyDeleted, CacheTypeOK
  <1> QED  BY <1>1, DeletedStaysTrue

-----------------------------------------------------------------------------
(* What was right when it was cached *)

\* Of each transaction the entry under k lacks, the writer has yet to delete the entry.
Pursued(k) ==
  \A i \in Balance(k[1], k[2]) \ cache[k].value :
    \E w \in Writer : WillDelete(w, k) /\ job[w].tx = i

LEMMA RightIsPursued ==
  RightEntriesAreDeleted <=>
    (faults = 0 => \A k \in CacheKey : cache[k].present /\ cache[k].fresh => Pursued(k))
  BY DEF RightEntriesAreDeleted, Pursued

(* A fault, once it happened, has happened.                                *)
LEMMA FaultCounts ==
  ASSUME CacheTypeOK, NEW kind, Fault(kind)
  PROVE  faults' # 0
  BY DEF Fault, CacheTypeOK

(* An entry marked fresh was the balance.                                  *)
LEMMA FreshWasRight ==
  ASSUME NEW entry, NEW value, NEW balance,
         entry = Cached(value, value = balance), entry.fresh
  PROVE  value = balance /\ entry.value = value
  <1>1. entry.value = value
    BY DEF Cached
  <1>2. CASE value # balance
    <2>1. (value = balance) = FALSE
      BY <1>2
    <2>2. entry = Cached(value, FALSE)
      BY <2>1
    <2> QED  BY <2>2 DEF Cached
  <1> QED  BY <1>1, <1>2

LEMMA ReaderRight ==
  ASSUME CacheTypeOK, RightEntriesAreDeleted, NEW r \in Reader,
         \/ \E k \in CacheKey : Hit(r, k) \/ Miss(r, k) \/ GetFails(r, k)
         \/ ReaderStep(r) \/ CrashReader(r)
  PROVE  RightEntriesAreDeleted'
  <1>1. CASE \/ \E k \in CacheKey : Hit(r, k) \/ Miss(r, k)
             \/ NotFound(r) \/ Compute(r)
    BY <1>1 DEF Hit, Miss, StartCompute, NotFound, Compute, vars,
                RightEntriesAreDeleted, Balance, WillDelete
  <1>2. CASE SetFails(r) \/ CrashReader(r) \/ \E k \in CacheKey : GetFails(r, k)
    BY <1>2, FaultCounts DEF SetFails, CrashReader, GetFails, RightEntriesAreDeleted
  <1>3. CASE SetCache(r)
    <2>1. SUFFICES ASSUME faults = 0, NEW k \in CacheKey, cache'[k].present, cache'[k].fresh
                   PROVE  Pursued(k)'
      BY <1>3 DEF SetCache, RightEntriesAreDeleted, Pursued
    <2>2. CASE cache'[k] = cache[k]
      BY <1>3, <2>1, <2>2 DEF SetCache, RightEntriesAreDeleted, Pursued, Balance, WillDelete
    <2>3. CASE cache'[k] # cache[k]
      <3>1. cache'[k] = Cached(ask[r].value, ask[r].value = Balance(k[1], k[2]))
        BY <1>3, <2>3 DEF SetCache, Fill, CacheTypeOK
      <3>2. ask[r].value = Balance(k[1], k[2]) /\ cache'[k].value = ask[r].value
        BY <2>1, <3>1, FreshWasRight
      <3>3. Balance(k[1], k[2])' = Balance(k[1], k[2])
        BY <1>3 DEF SetCache, Balance
      <3> QED  BY <3>2, <3>3 DEF Pursued
    <2> QED  BY <2>2, <2>3
  <1> QED  BY <1>1, <1>2, <1>3 DEF ReaderStep

LEMMA CommitRight ==
  ASSUME CacheTypeOK, RightEntriesAreDeleted, NEW w \in Writer, NEW t \in Writes,
         CommitWrite(w, t)
  PROVE  RightEntriesAreDeleted'
  <1>1. SUFFICES ASSUME faults = 0, NEW k \in CacheKey, cache[k].present, cache[k].fresh
                 PROVE  Pursued(k)'
    BY DEF CommitWrite, RightEntriesAreDeleted, Pursued
  <1>2. job'[w] = [at |-> "next", tx |-> Len(ledger) + 1, todo |-> t.accounts]
        /\ job[w].at = "idle" /\ \A o \in Writer \ {w} : job'[o] = job[o]
    BY DEF CommitWrite, CacheTypeOK
  <1>3. ASSUME NEW i \in Balance(k[1], k[2])' \ cache[k].value
        PROVE  \E o \in Writer : WillDelete(o, k)' /\ job'[o].tx = i
    <2>1. CASE i = Len(ledger) + 1
      <3>1. k[1] \in t.accounts
        BY <1>3, <2>1, BalancePrefix DEF CommitWrite, CacheTypeOK
      <3> QED  BY <1>2, <2>1, <3>1 DEF WillDelete
    <2>2. CASE i # Len(ledger) + 1
      <3>1. i \in Balance(k[1], k[2]) \ cache[k].value
        BY <1>3, <2>2, BalancePrefix DEF CommitWrite, CacheTypeOK
      <3>2. PICK o \in Writer : WillDelete(o, k) /\ job[o].tx = i
        BY <1>1, <3>1 DEF RightEntriesAreDeleted
      <3>3. job'[o] = job[o]
        BY <1>2, <3>2 DEF WillDelete
      <3> QED  BY <3>2, <3>3 DEF WillDelete
    <2> QED  BY <2>1, <2>2
  <1> QED  BY <1>3 DEF CommitWrite, Pursued

(* A step of a writer keeps every entry but those it deletes pursued.      *)
LEMMA WriterRight ==
  ASSUME CacheTypeOK, RightEntriesAreDeleted, NEW w \in Writer,
         WriterStep(w) \/ CrashWriter(w)
  PROVE  RightEntriesAreDeleted'
  <1>1. CASE InvalidationFails(w) \/ CrashWriter(w)
    BY <1>1, FaultCounts DEF InvalidationFails, CrashWriter, RightEntriesAreDeleted
  <1>2. ASSUME faults' = faults, ledger' = ledger,
               \A o \in Writer \ {w} : job'[o] = job[o],
               \A k \in CacheKey : cache'[k] \in {cache[k], Absent},
               \A k \in CacheKey : cache'[k].present /\ WillDelete(w, k) =>
                  WillDelete(w, k)' /\ job'[w].tx = job[w].tx
        PROVE  RightEntriesAreDeleted'
    <2>1. SUFFICES ASSUME faults = 0, NEW k \in CacheKey, cache'[k].present, cache'[k].fresh,
                          NEW i \in Balance(k[1], k[2]) \ cache[k].value
                   PROVE  \E o \in Writer : WillDelete(o, k)' /\ job'[o].tx = i
      BY <1>2 DEF RightEntriesAreDeleted, Balance, Absent
    <2>2. cache'[k] = cache[k]
      BY <1>2, <2>1 DEF Absent
    <2>3. PICK o \in Writer : WillDelete(o, k) /\ job[o].tx = i
      BY <2>1, <2>2 DEF RightEntriesAreDeleted
    <2>4. CASE o = w
      BY <1>2, <2>1, <2>3, <2>4
    <2>5. CASE o # w
      BY <1>2, <2>3, <2>5 DEF WillDelete
    <2> QED  BY <2>4, <2>5
  <1>3. ASSUME NEW a \in KnownAccount, NextAccount(w, a) PROVE RightEntriesAreDeleted'
    <2>1. /\ job[w].at = "next"
          /\ job'[w] = [at |-> "scan", tx |-> job[w].tx, todo |-> job[w].todo \ {a}, account |-> a,
                        left |-> Day, found |-> {}]
      BY <1>3 DEF NextAccount, CacheTypeOK
    <2>2. \A k \in CacheKey : WillDelete(w, k) => WillDelete(w, k)' /\ job'[w].tx = job[w].tx
      BY <2>1 DEF WillDelete, CacheKey
    <2> QED  BY <1>2, <1>3, <2>2 DEF NextAccount, CacheTypeOK
  <1>4. ASSUME NEW d \in Day, Scan(w, d) PROVE RightEntriesAreDeleted'
    <2>1. job[w] \in Scanning
      BY <1>4 DEF Scan, CacheTypeOK, Waiting, Between
    <2>2. /\ job'[w].at = "scan" /\ job'[w].tx = job[w].tx /\ job'[w].todo = job[w].todo
          /\ job'[w].account = job[w].account /\ job'[w].left = job[w].left \ {d}
          /\ job'[w].found = job[w].found
                              \cup (IF cache[<<job[w].account, d>>].present THEN {d} ELSE {})
      BY <1>4, <2>1 DEF Scan, CacheTypeOK, Scanning
    <2>3. \A k \in CacheKey : cache[k].present /\ WillDelete(w, k) =>
             WillDelete(w, k)' /\ job'[w].tx = job[w].tx
      <3>1. SUFFICES ASSUME NEW k \in CacheKey, cache[k].present, WillDelete(w, k)
                     PROVE  WillDelete(w, k)'
        BY <2>2
      <3>2. k = <<k[1], k[2]>>
        BY DEF CacheKey
      <3> QED  BY <2>2, <3>1, <3>2 DEF WillDelete
    <2> QED  BY <1>2, <1>4, <2>3 DEF Scan, CacheTypeOK
  <1>5. CASE DeleteKeys(w)
    <2>1. job[w] \in Scanning /\ job[w].left = {}
      BY <1>5 DEF DeleteKeys, CacheTypeOK, Waiting, Between
    <2>2. \A k \in CacheKey :
            cache'[k] = IF k[1] = job[w].account /\ k[2] \in job[w].found THEN Absent ELSE cache[k]
      BY <1>5 DEF DeleteKeys, DeleteFound
    <2>3. \A k \in CacheKey : cache'[k].present /\ WillDelete(w, k) => k[1] \in job[w].todo
      BY <2>1, <2>2 DEF WillDelete, Absent
    <2>4. \A k \in CacheKey : cache'[k].present /\ WillDelete(w, k) =>
             WillDelete(w, k)' /\ job'[w].tx = job[w].tx
      BY <1>5, <2>3 DEF DeleteKeys, WillDelete, CacheTypeOK
    <2> QED  BY <1>2, <1>5, <2>2, <2>4 DEF DeleteKeys, EndJob, CacheTypeOK
  <1> QED  BY <1>1, <1>3, <1>4, <1>5 DEF WriterStep

LEMMA ExpireRight ==
  ASSUME CacheTypeOK, RightEntriesAreDeleted, NEW k \in CacheKey, Expire(k)
  PROVE  RightEntriesAreDeleted'
  <1>1. \A l \in CacheKey : cache'[l] \in {cache[l], Absent}
    BY DEF Expire, CacheTypeOK
  <1> QED  BY <1>1 DEF Expire, RightEntriesAreDeleted, Balance, WillDelete, Absent

-----------------------------------------------------------------------------
LEMMA NextIInv == IInv /\ [Next]_vars => IInv'
  <1> SUFFICES ASSUME IInv, [Next]_vars PROVE IInv'
    OBVIOUS
  <1>1. ASSUME NEW r \in Reader,
               \/ \E k \in CacheKey : Hit(r, k) \/ Miss(r, k) \/ GetFails(r, k)
               \/ ReaderStep(r) \/ CrashReader(r)
        PROVE  IInv'
    BY <1>1, ReaderTypes, ReaderTrue, ReaderRight DEF IInv
  <1>2. ASSUME NEW w \in Writer,
               \/ \E t \in Writes : CommitWrite(w, t)
               \/ WriterStep(w) \/ CrashWriter(w)
        PROVE  IInv'
    BY <1>2, WriterTypes, WriterTrue, CommitRight, WriterRight DEF IInv
  <1>3. ASSUME NEW k \in CacheKey, Expire(k) PROVE IInv'
    BY <1>3, ExpireTypes, ExpireTrue, ExpireRight DEF IInv
  <1>4. CASE UNCHANGED vars
    BY <1>4 DEF vars, IInv, CacheTypeOK, CachedWasTrue, OnceTrue, RightEntriesAreDeleted,
                Balance, WillDelete
  <1> QED  BY <1>1, <1>2, <1>3, <1>4 DEF Next

LEMMA CacheInvariant == Spec => []IInv
  BY InitIInv, NextIInv, PTL DEF Spec

(* Nothing uncommitted and no mix of two moments gets into the cache or an *)
(* answer (get_account_balance), whatever fails.                           *)
THEOREM CacheWasTrue == Spec => []CachedWasTrue
  <1>1. IInv => CachedWasTrue
    BY DEF IInv
  <1> QED  BY <1>1, CacheInvariant, PTL

(* Without a fault, what an entry that was right when it was set lacks is  *)
(* still to be invalidated by whoever committed it                         *)
(* (_invalidate_balance_cache).                                            *)
THEOREM CacheRightEntriesAreDeleted == Spec => []RightEntriesAreDeleted
  <1>1. IInv => RightEntriesAreDeleted
    BY DEF IInv
  <1> QED  BY <1>1, CacheInvariant, PTL

(* Where no fault happens and no reader races a COMMIT, a hit is exact for *)
(* every transaction whose request has ended: the promise of               *)
(* ARCHITECTURE.md 8.4, under the two conditions it needs.                 *)
THEOREM CacheNeverWrongWithoutFaults == Spec => [](faults = 0 => OutageNeverWrong)
  <1>1. IInv /\ faults = 0 => OutageNeverWrong
    <2>1. SUFFICES ASSUME IInv, faults = 0, NEW k \in CacheKey, cache[k].present, cache[k].fresh,
                          NEW i \in Balance(k[1], k[2]) \ cache[k].value
                   PROVE  i \notin Finished
      BY DEF OutageNeverWrong
    <2>2. PICK w \in Writer : WillDelete(w, k) /\ job[w].tx = i
      BY <2>1 DEF IInv, RightEntriesAreDeleted
    <2> QED  BY <2>2 DEF Finished, WillDelete
  <1> QED  BY <1>1, CacheInvariant, PTL
=============================================================================
