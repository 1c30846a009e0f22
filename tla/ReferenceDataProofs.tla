------------------------- MODULE ReferenceDataProofs -------------------------
(***************************************************************************)
(* The tables of reference data are sound for any number of sessions, any  *)
(* requests and any sound initial rows, wherever sessions are cut.         *)
(*                                                                         *)
(* The heart is that index entries which somebody holds uncommitted are    *)
(* nobody else's and not committed (HeldApart): then a COMMIT cannot bring *)
(* in a second row for a key, whatever the checks before the INSERT saw.   *)
(***************************************************************************)
EXTENDS ReferenceData, FiniteSetTheorems, TLAPS

\* Every row there can be.
AnyRow == Requests \cup ToSet(Initial) \cup ToSet(SeedPlan)

-----------------------------------------------------------------------------
(* Rows and their keys *)

LEMMA SeedPlanRows ==
  /\ SeedPlan \in Seq(ToSet(SeedPlan)) /\ Len(SeedPlan) = 5
  /\ ToSet(SeedPlan) = {DemoUser, DemoCurrency, DemoTransaction} \cup DemoAccounts
  BY DEF SeedPlan, ToSet, DemoAccounts

LEMMA SeedRows ==
  ASSUME NEW q \in ToSet(SeedPlan)
  PROVE  /\ q.by = "seed"
         /\ q.kind \in {"user", "currency", "account", "transaction"}
         /\ q.kind = "transaction" <=> q = DemoTransaction
         /\ q.kind = "account" <=> q \in DemoAccounts
  <1>1. CASE q = DemoUser
    BY <1>1 DEF DemoUser, DemoTransaction, DemoAccounts, DemoAccount
  <1>2. CASE q = DemoCurrency
    BY <1>2 DEF DemoCurrency, DemoTransaction, DemoAccounts, DemoAccount
  <1>3. CASE q = DemoTransaction
    BY <1>3 DEF DemoTransaction, DemoAccounts, DemoAccount
  <1>4. CASE q \in DemoAccounts
    BY <1>4 DEF DemoTransaction, DemoAccounts, DemoAccount
  <1> QED  BY <1>1, <1>2, <1>3, <1>4, SeedPlanRows

LEMMA RowKinds ==
  ASSUME NEW q \in AnyRow
  PROVE  /\ q.kind \in Creatable \cup {"transaction"}
         /\ q.by \in {"client", "initial", "seed"}
         /\ q.by = "seed" <=> q \in ToSet(SeedPlan)
         /\ q.by = "client" <=> q \in Requests
         /\ q.kind = "transaction" <=> q = DemoTransaction
  <1>1. \A p \in ToSet(Initial) : p.by = "initial" /\ p.kind \in Creatable
    BY ReferenceDataAssumption DEF ToSet
  <1>2. \A p \in Requests : p.by = "client" /\ p.kind \in Creatable
    BY ReferenceDataAssumption
  <1>3. DemoTransaction.kind = "transaction"
    BY DEF DemoTransaction
  <1> QED  BY <1>1, <1>2, <1>3, SeedRows DEF AnyRow, Creatable

\* The keys of a row, as a set.
KeyValues(q) ==
  (IF q.by = "seed" /\ q.kind # "currency" THEN {IdKey(q)} ELSE {}) \cup
  CASE q.kind = "user" -> {<<"user", "email", q.email>>}
    [] q.kind = "currency" -> {CodeKey(q.code)}
    [] q.kind = "account" -> {<<"account", "name", q.name>>, <<"account", "code", q.code>>}
    [] q.kind = "rate" -> {<<"rate", "pair_date", <<q.from, q.to, q.date>> >>}
    [] q.kind = "transaction" -> {}

LEMMA NoneOf == << >> \in Seq(ToSet(<< >>)) /\ ToSet(<< >>) = {}
  BY DEF ToSet

LEMMA OneOf ==
  ASSUME NEW k
  PROVE  <<k>> \in Seq(ToSet(<<k>>)) /\ ToSet(<<k>>) = {k}
  BY DEF ToSet

LEMMA TwoOf ==
  ASSUME NEW k, NEW l
  PROVE  <<k, l>> \in Seq(ToSet(<<k, l>>)) /\ ToSet(<<k, l>>) = {k, l}
  BY DEF ToSet

LEMMA ToSetAppended ==
  ASSUME NEW S, NEW s \in Seq(S), NEW T, NEW t \in Seq(T)
  PROVE  /\ s \o t \in Seq(S \cup T)
         /\ ToSet(s \o t) = ToSet(s) \cup ToSet(t)
  <1>1. /\ DOMAIN (s \o t) = 1 .. Len(s) + Len(t) /\ Len(s) \in Nat /\ Len(t) \in Nat
        /\ DOMAIN s = 1 .. Len(s) /\ DOMAIN t = 1 .. Len(t)
        /\ \A i \in 1 .. Len(s) : (s \o t)[i] = s[i] /\ i \in DOMAIN (s \o t)
        /\ \A i \in 1 .. Len(t) :
             (s \o t)[Len(s) + i] = t[i] /\ Len(s) + i \in DOMAIN (s \o t)
        /\ \A i \in DOMAIN (s \o t) :
             i \in 1 .. Len(s) \/ (i - Len(s) \in 1 .. Len(t) /\ i = Len(s) + (i - Len(s)))
    OBVIOUS
  <1>2. ToSet(s \o t) \subseteq ToSet(s) \cup ToSet(t)
    BY <1>1 DEF ToSet
  <1>3. ToSet(s) \subseteq ToSet(s \o t)
    BY <1>1 DEF ToSet
  <1>4. ToSet(t) \subseteq ToSet(s \o t)
    BY <1>1 DEF ToSet
  <1>5. s \o t \in Seq(S \cup T)
    OBVIOUS
  <1> QED  BY <1>2, <1>3, <1>4, <1>5

\* The keys that say what a row is about.
OwnKeys(q) ==
  CASE q.kind = "user" -> UserKeys(q)
    [] q.kind = "currency" -> CurrencyKeys(q)
    [] q.kind = "account" -> AccountKeys(q)
    [] q.kind = "rate" -> RateKeys(q)
    [] q.kind = "transaction" -> <<>>

LEMMA OwnKeysAre ==
  ASSUME NEW q \in AnyRow
  PROVE  /\ OwnKeys(q) \in Seq(ToSet(OwnKeys(q)))
         /\ ToSet(OwnKeys(q)) =
              CASE q.kind = "user" -> {<<"user", "email", q.email>>}
                [] q.kind = "currency" -> {CodeKey(q.code)}
                [] q.kind = "account" ->
                     {<<"account", "name", q.name>>, <<"account", "code", q.code>>}
                [] q.kind = "rate" -> {<<"rate", "pair_date", <<q.from, q.to, q.date>> >>}
                [] q.kind = "transaction" -> {}
  <1> DEFINE own == OwnKeys(q)
  <1>1. CASE q.kind = "user"
    <2>1. own = << <<"user", "email", q.email>> >>
      BY <1>1 DEF OwnKeys, UserKeys
    <2> QED  BY <1>1, <2>1, OneOf
  <1>2. CASE q.kind = "currency"
    <2>1. own = <<CodeKey(q.code)>>
      BY <1>2 DEF OwnKeys, CurrencyKeys
    <2> QED  BY <1>2, <2>1, OneOf
  <1>3. CASE q.kind = "account"
    <2>1. own = << <<"account", "name", q.name>>, <<"account", "code", q.code>> >>
      BY <1>3 DEF OwnKeys, AccountKeys
    <2> QED  BY <1>3, <2>1, TwoOf
  <1>4. CASE q.kind = "rate"
    <2>1. own = << <<"rate", "pair_date", <<q.from, q.to, q.date>> >> >>
      BY <1>4 DEF OwnKeys, RateKeys
    <2> QED  BY <1>4, <2>1, OneOf
  <1>5. CASE q.kind = "transaction"
    <2>1. own = <<>>
      BY <1>5 DEF OwnKeys
    <2> QED  BY <1>5, <2>1, NoneOf
  <1> QED  BY <1>1, <1>2, <1>3, <1>4, <1>5, RowKinds DEF Creatable

LEMMA KeysAre ==
  ASSUME NEW q \in AnyRow
  PROVE  Keys(q) \in Seq(KeysOf(q)) /\ KeysOf(q) = KeyValues(q)
  <1> DEFINE id == IF q.by = "seed" /\ q.kind # "currency" THEN <<IdKey(q)>> ELSE <<>>
  <1>1. Keys(q) = id \o OwnKeys(q)
    BY DEF Keys, OwnKeys
  <1>2. /\ id \in Seq(ToSet(id))
        /\ ToSet(id) = IF q.by = "seed" /\ q.kind # "currency" THEN {IdKey(q)} ELSE {}
    BY OneOf, NoneOf
  <1> HIDE DEF id
  <1>3. /\ Keys(q) \in Seq(ToSet(id) \cup ToSet(OwnKeys(q)))
        /\ KeysOf(q) = ToSet(id) \cup ToSet(OwnKeys(q))
    <2>1. id \in Seq(ToSet(id)) /\ OwnKeys(q) \in Seq(ToSet(OwnKeys(q)))
      BY <1>2, OwnKeysAre
    <2>2. /\ id \o OwnKeys(q) \in Seq(ToSet(id) \cup ToSet(OwnKeys(q)))
          /\ ToSet(id \o OwnKeys(q)) = ToSet(id) \cup ToSet(OwnKeys(q))
      <3>1. \A a \in Seq(ToSet(id)), b \in Seq(ToSet(OwnKeys(q))) :
              /\ a \o b \in Seq(ToSet(id) \cup ToSet(OwnKeys(q)))
              /\ ToSet(a \o b) = ToSet(a) \cup ToSet(b)
        BY ToSetAppended
      <3> QED  BY <2>1, <3>1
    <2> QED  BY <1>1, <2>2 DEF KeysOf
  <1>4. KeyValues(q) = ToSet(id) \cup ToSet(OwnKeys(q))
    BY <1>2, OwnKeysAre DEF KeyValues
  <1> QED  BY <1>3, <1>4

\* Key k is one of row q's.
IsKey(q, k) ==
  \/ k = <<q.kind, "id", q>> /\ q.by = "seed" /\ q.kind # "currency"
  \/ q.kind = "user" /\ k = <<"user", "email", q.email>>
  \/ q.kind = "currency" /\ k = <<"currency", "code", q.code>>
  \/ q.kind = "account" /\ k = <<"account", "name", q.name>>
  \/ q.kind = "account" /\ k = <<"account", "code", q.code>>
  \/ q.kind = "rate" /\ k = <<"rate", "pair_date", <<q.from, q.to, q.date>> >>

LEMMA KeyCases ==
  ASSUME NEW q \in AnyRow, NEW k
  PROVE  k \in KeysOf(q) <=> IsKey(q, k)
  <1> DEFINE user == <<"user", "email", q.email>>
             code == <<"currency", "code", q.code>>
             name == <<"account", "name", q.name>>
             number == <<"account", "code", q.code>>
             rate == <<"rate", "pair_date", <<q.from, q.to, q.date>> >>
             id == <<q.kind, "id", q>>
  <1>1. KeyValues(q) =
          (IF q.by = "seed" /\ q.kind # "currency" THEN {id} ELSE {}) \cup
          CASE q.kind = "user" -> {user}
            [] q.kind = "currency" -> {code}
            [] q.kind = "account" -> {name, number}
            [] q.kind = "rate" -> {rate}
            [] q.kind = "transaction" -> {}
    BY DEF KeyValues, IdKey, CodeKey
  <1>2. IsKey(q, k) <=>
          \/ k = id /\ q.by = "seed" /\ q.kind # "currency"
          \/ q.kind = "user" /\ k = user
          \/ q.kind = "currency" /\ k = code
          \/ q.kind = "account" /\ k = name
          \/ q.kind = "account" /\ k = number
          \/ q.kind = "rate" /\ k = rate
    BY DEF IsKey
  <1>3. q.kind \in {"user", "currency", "account", "rate", "transaction"}
    BY RowKinds DEF Creatable
  <1> HIDE DEF user, code, name, number, rate, id
  <1> QED  BY <1>1, <1>2, <1>3, KeysAre

(* Only a currency has the key of a currency's code.                       *)
LEMMA CodeKeyMeans ==
  ASSUME NEW q \in AnyRow, NEW c, CodeKey(c) \in KeysOf(q)
  PROVE  q.kind = "currency" /\ q.code = c
  BY KeyCases DEF CodeKey, IsKey

(* The key of an id of the script is the row's it was made for.            *)
LEMMA IdKeyMeans ==
  ASSUME NEW q \in AnyRow, NEW p, IdKey(p) \in KeysOf(q)
  PROVE  q = p
  BY KeyCases DEF IdKey, IsKey

(* Rows that are about the same have a key in common.                      *)
LEMMA SameShareKey ==
  ASSUME NEW p \in AnyRow, NEW q \in AnyRow, Same(p, q)
  PROVE  KeysOf(p) \cap KeysOf(q) # {}
  <1>1. CASE p.kind = "user"
    BY <1>1, KeyCases DEF Same, IsKey
  <1>2. CASE p.kind = "currency"
    BY <1>2, KeyCases DEF Same, IsKey
  <1>3. CASE p.kind = "account"
    BY <1>3, KeyCases DEF Same, IsKey
  <1>4. CASE p.kind = "rate"
    BY <1>4, KeyCases DEF Same, IsKey
  <1>5. CASE p.kind = "transaction"
    <2>1. p = DemoTransaction /\ q = DemoTransaction
      BY <1>5, RowKinds DEF Same
    <2>2. IsKey(DemoTransaction, IdKey(DemoTransaction))
      BY DEF IsKey, IdKey, DemoTransaction
    <2> QED  BY <2>1, <2>2, KeyCases
  <1> QED  BY <1>1, <1>2, <1>3, <1>4, <1>5, RowKinds DEF Creatable

(* What a client's user or rate has a key in common with is the same.      *)
LEMMA SharedKeyMeans ==
  ASSUME NEW p \in AnyRow, NEW q \in AnyRow, NEW k,
         k \in KeysOf(p), k \in KeysOf(q),
         p.by = "client", p.kind \in {"user", "rate"}
  PROVE  Same(q, p)
  <1>1. IsKey(p, k) /\ IsKey(q, k)
    BY KeyCases
  <1>2. CASE p.kind = "user"
    <2>1. k = <<"user", "email", p.email>>
      BY <1>1, <1>2 DEF IsKey
    <2>2. q.kind = "user" /\ k = <<"user", "email", q.email>>
      BY <1>1, <2>1 DEF IsKey
    <2> QED  BY <1>2, <2>1, <2>2 DEF Same
  <1>3. CASE p.kind = "rate"
    <2>1. k = <<"rate", "pair_date", <<p.from, p.to, p.date>> >>
      BY <1>1, <1>3 DEF IsKey
    <2>2. q.kind = "rate" /\ k = <<"rate", "pair_date", <<q.from, q.to, q.date>> >>
      BY <1>1, <2>1 DEF IsKey
    <2> QED  BY <1>3, <2>1, <2>2 DEF Same
  <1> QED  BY <1>2, <1>3

(* No row refers to itself.                                                *)
LEMMA RefersToOthers ==
  ASSUME NEW q \in AnyRow
  PROVE  References(q) \cap KeysOf(q) = {}
  <1>1. CASE q.kind \in {"user", "currency"}
    BY <1>1 DEF References
  <1>2. CASE q.kind = "account"
    BY <1>2, CodeKeyMeans DEF References
  <1>3. CASE q.kind = "rate"
    BY <1>3, CodeKeyMeans DEF References
  <1>4. CASE q.kind = "transaction"
    <2>1. q \notin DemoAccounts
      BY <1>4 DEF DemoAccounts, DemoAccount
    <2> QED  BY <1>4, <2>1, CodeKeyMeans, IdKeyMeans DEF References
  <1> QED  BY <1>1, <1>2, <1>3, <1>4, RowKinds DEF Creatable

(* The script's rows have no key in common.                                *)
LEMMA PlanApart ==
  ASSUME NEW i \in 1 .. 5, NEW j \in 1 .. 5, i # j
  PROVE  KeysOf(SeedPlan[i]) \cap KeysOf(SeedPlan[j]) = {}
  <1>1. /\ SeedPlan[1] = DemoUser /\ SeedPlan[2] = DemoCurrency
        /\ SeedPlan[3] = DemoAccount("1000", "Cash")
        /\ SeedPlan[4] = DemoAccount("4000", "Revenue")
        /\ SeedPlan[5] = DemoTransaction
    BY DEF SeedPlan
  <1>2. \A n \in 1 .. 5 : SeedPlan[n] \in AnyRow
    BY SeedPlanRows DEF AnyRow, ToSet
  <1>3. SUFFICES ASSUME NEW k, IsKey(SeedPlan[i], k), IsKey(SeedPlan[j], k)
                 PROVE  FALSE
    BY <1>2, KeyCases
  <1>4. CASE SeedPlan[i].kind # SeedPlan[j].kind
    BY <1>3, <1>4 DEF IsKey
  <1>5. CASE SeedPlan[i].kind = SeedPlan[j].kind
    <2>1. i \in {3, 4} /\ j \in {3, 4}
      BY <1>1, <1>5 DEF DemoUser, DemoCurrency, DemoAccount, DemoTransaction
    <2> QED  BY <1>1, <1>3, <2>1 DEF IsKey, DemoAccount
  <1> QED  BY <1>4, <1>5

-----------------------------------------------------------------------------
(* What a session has in hand *)

RefTypeOK ==
  /\ rows \in Seq(AnyRow) /\ audit \in Seq(AnyRow)
  /\ pc \in [Session -> {"idle", "check", "insert", "exit"}]
  /\ ask \in [Session -> Requests \cup {DemoUser, DemoTransaction}]
  /\ todo \in [Session -> Seq(AnyRow)]
  /\ wrote \in [Session -> Seq(AnyRow)]
  /\ taken \in [Session -> Nat]
  /\ resp \in [Session -> {0, 201, 409, 422, 500}]
  /\ requests \in Nat /\ faults \in Nat

\* Where a session is says what it has yet to insert and what it has inserted.
InPlace(s) ==
  /\ pc[s] = "idle" => todo[s] = <<>> /\ wrote[s] = <<>>
  /\ pc[s] \in {"check", "insert"} => todo[s] # <<>> /\ resp[s] = 0
  /\ pc[s] = "exit" => todo[s] = <<>> /\ resp[s] \in {0, 201}
  /\ pc[s] # "insert" => taken[s] = 0
  /\ pc[s] = "insert" => taken[s] <= Len(Keys(Row(s)))

\* A client's session is about the row that was asked for.
OfClient(s) ==
  ask[s].by = "client" =>
    /\ pc[s] \in {"check", "insert"} => todo[s] = <<ask[s]>> /\ wrote[s] = <<>>
    /\ pc[s] = "exit" => wrote[s] = <<ask[s]>>

\* The script's session is about its own rows, and will not end without the transaction.
OfSeed(s) ==
  ask[s].by = "seed" =>
    /\ resp[s] # 201
    /\ \A q \in ToSet(todo[s]) \cup ToSet(wrote[s]) : q.by = "seed"
    /\ pc[s] # "idle" => DemoTransaction \in ToSet(rows) \cup ToSet(wrote[s]) \cup ToSet(todo[s])

\* No two rows in hand have a key in common.
InHandApart(s) ==
  /\ \A i, j \in DOMAIN wrote[s] : i # j => KeysOf(wrote[s][i]) \cap KeysOf(wrote[s][j]) = {}
  /\ \A i, j \in DOMAIN todo[s] : i # j => KeysOf(todo[s][i]) \cap KeysOf(todo[s][j]) = {}
  /\ \A i \in DOMAIN wrote[s], j \in DOMAIN todo[s] :
       KeysOf(wrote[s][i]) \cap KeysOf(todo[s][j]) = {}

\* What a row that is inserted refers to is committed or was inserted before it.
WroteRefers(s) ==
  \A i \in DOMAIN wrote[s] :
    References(wrote[s][i]) \subseteq
      CommittedKeys \cup UNION {KeysOf(wrote[s][j]) : j \in 1 .. i - 1}

SessionOK(s) == InPlace(s) /\ OfClient(s) /\ OfSeed(s) /\ InHandApart(s) /\ WroteRefers(s)

HeldApart ==
  \A s \in Session :
    /\ Held(s) \cap CommittedKeys = {}
    /\ \A u \in Session \ {s} : Held(s) \cap Held(u) = {}

RowsApart ==
  \A i, j \in DOMAIN rows : i # j => KeysOf(rows[i]) \cap KeysOf(rows[j]) = {}

RowsRefer ==
  \A i \in DOMAIN rows :
    References(rows[i]) \subseteq UNION {KeysOf(rows[j]) : j \in 1 .. i - 1}

IInv ==
  /\ RefTypeOK
  /\ \A s \in Session : SessionOK(s)
  /\ HeldApart /\ RowsApart /\ RowsRefer
  /\ AuditMatchesRows /\ CreatedIsStored /\ SeedIsWhole

LEMMA DemoRows ==
  /\ DemoUser \in AnyRow /\ DemoUser.by = "seed"
  /\ DemoTransaction \in AnyRow /\ DemoTransaction.by = "seed"
  BY SeedPlanRows DEF AnyRow, DemoUser, DemoTransaction

LEMMA InitIInv == Init => IInv
  <1> SUFFICES ASSUME Init PROVE IInv
    OBVIOUS
  <1>1. RefTypeOK
    <2>1. Initial \in Seq(AnyRow)
      BY ReferenceDataAssumption DEF AnyRow
    <2> QED  BY <2>1 DEF Init, RefTypeOK
  <1>2. ASSUME NEW s \in Session PROVE SessionOK(s) /\ Held(s) = {}
    <2>1. /\ pc[s] = "idle" /\ ask[s] = DemoUser /\ todo[s] = <<>> /\ wrote[s] = <<>>
          /\ taken[s] = 0 /\ resp[s] = 0
      BY DEF Init
    <2>2. ToSet(wrote[s]) = {} /\ ToSet(todo[s]) = {}
          /\ DOMAIN wrote[s] = {} /\ DOMAIN todo[s] = {}
      BY <2>1 DEF ToSet
    <2> QED
      BY <2>1, <2>2, DemoRows
         DEF SessionOK, InPlace, OfClient, OfSeed, InHandApart, WroteRefers, Held
  <1>3. HeldApart
    BY <1>2 DEF HeldApart
  <1>4. RowsApart /\ RowsRefer
    BY ReferenceDataAssumption DEF Init, RowsApart, RowsRefer
  <1>5. \A j \in DOMAIN rows : rows[j].by = "initial"
    BY ReferenceDataAssumption DEF Init
  <1>6. AuditMatchesRows
    <2>1. {j \in DOMAIN rows : rows[j].by = "client"} = {}
      BY <1>5
    <2> QED  BY <2>1, FS_EmptySet DEF AuditMatchesRows, Init
  <1>7. CreatedIsStored /\ SeedIsWhole
    BY <1>5 DEF CreatedIsStored, SeedIsWhole, Init
  <1> QED  BY <1>1, <1>2, <1>3, <1>4, <1>6, <1>7 DEF IInv

-----------------------------------------------------------------------------
(* What no step disturbs *)

LEMMA SubSeqToSet ==
  ASSUME NEW S, NEW q \in Seq(S), NEW n \in 0 .. Len(q)
  PROVE  ToSet(SubSeq(q, 1, n)) = {q[i] : i \in 1 .. n}
  <1>1. /\ DOMAIN SubSeq(q, 1, n) = 1 .. n
        /\ \A i \in 1 .. n : SubSeq(q, 1, n)[i] = q[i]
    OBVIOUS
  <1> QED  BY <1>1 DEF ToSet

\* Session u has in hand what it had; others may have committed.
Keeps(u) ==
  /\ pc'[u] = pc[u] /\ ask'[u] = ask[u] /\ todo'[u] = todo[u] /\ wrote'[u] = wrote[u]
  /\ taken'[u] = taken[u] /\ resp'[u] = resp[u]
  /\ ToSet(rows) \subseteq ToSet(rows)' /\ CommittedKeys \subseteq CommittedKeys'

LEMMA OthersKeep ==
  ASSUME NEW u, SessionOK(u), Keeps(u)
  PROVE  SessionOK(u)' /\ Held(u)' = Held(u)
  <1>1. InPlace(u)' /\ OfClient(u)' /\ InHandApart(u)'
    <2>1. InPlace(u)'
      BY DEF SessionOK, Keeps, InPlace, Row
    <2>2. OfClient(u)' /\ InHandApart(u)'
      BY DEF SessionOK, Keeps, OfClient, InHandApart
    <2> QED  BY <2>1, <2>2
  <1>2. OfSeed(u)'
    BY DEF SessionOK, Keeps, OfSeed
  <1>3. WroteRefers(u)'
    BY DEF SessionOK, Keeps, WroteRefers
  <1>4. Held(u)' = Held(u)
    BY DEF Keeps, Held
  <1> QED  BY <1>1, <1>2, <1>3, <1>4 DEF SessionOK

(* What one session does to its uncommitted keys keeps everybody's apart.  *)
LEMMA ApartKept ==
  ASSUME HeldApart, NEW s \in Session,
         \A u \in Session \ {s} : Held(u)' = Held(u),
         \/ Held(s)' \subseteq Held(s) /\ CommittedKeys' = CommittedKeys
         \/ /\ CommittedKeys' = CommittedKeys
            /\ \E k : /\ Held(s)' \subseteq Held(s) \cup {k} /\ k \notin CommittedKeys
                      /\ \A u \in Session \ {s} : k \notin Held(u)
         \/ Held(s)' = {} /\ CommittedKeys' \subseteq CommittedKeys \cup Held(s)
  PROVE  HeldApart'
  BY DEF HeldApart

\* Nothing is committed.
NoCommit == rows' = rows /\ audit' = audit

LEMMA NoCommitKeeps ==
  ASSUME IInv, NoCommit
  PROVE  /\ RowsApart' /\ RowsRefer' /\ AuditMatchesRows' /\ SeedIsWhole'
         /\ CommittedKeys' = CommittedKeys /\ ToSet(rows)' = ToSet(rows)
  BY DEF IInv, NoCommit, RowsApart, RowsRefer, AuditMatchesRows, SeedIsWhole, CommittedKeys

(* A step of one session that commits nothing and answers no 201 but at its*)
(* exit keeps the invariant, when it keeps its own part.                   *)
LEMMA SessionStep ==
  ASSUME IInv, NEW s \in Session, RefTypeOK', NoCommit,
         \A u \in Session \ {s} : Keeps(u),
         SessionOK(s)',
         \/ Held(s)' \subseteq Held(s)
         \/ \E k : /\ Held(s)' \subseteq Held(s) \cup {k} /\ k \notin CommittedKeys
                   /\ \A u \in Session \ {s} : k \notin Held(u),
         faults' = 0 => faults = 0 /\ (resp'[s] = 201 => pc'[s] = "exit")
  PROVE  IInv'
  <1>1. \A u \in Session \ {s} : SessionOK(u)' /\ Held(u)' = Held(u)
    BY OthersKeep DEF IInv
  <1>2. HeldApart'
    BY <1>1, NoCommitKeeps, ApartKept DEF IInv
  <1>3. CreatedIsStored'
    BY NoCommitKeeps DEF IInv, CreatedIsStored, Keeps
  <1> QED  BY <1>1, <1>2, <1>3, NoCommitKeeps DEF IInv

-----------------------------------------------------------------------------
(* The steps *)

LEMMA BeginKeeps ==
  ASSUME IInv, NEW s \in Session,
         NEW q \in Requests \cup {DemoTransaction}, NEW where \in {"check", "insert"},
         NEW plan, plan = (IF q.by = "client" THEN <<q>> ELSE SeedPlan),
         Begin(s, q, plan, where)
  PROVE  IInv'
  <1>1. /\ pc[s] = "idle" /\ todo[s] = <<>> /\ wrote[s] = <<>> /\ taken[s] = 0
        /\ SessionOK(s) /\ RefTypeOK
    BY DEF Begin, IInv, SessionOK, InPlace
  <1>2. q \in AnyRow /\ plan \in Seq(AnyRow) /\ plan # <<>>
        /\ (q.by = "client" \/ q = DemoTransaction)
    <2>1. q \in AnyRow /\ (q.by = "client" \/ q = DemoTransaction)
      BY DemoRows, RowKinds DEF AnyRow
    <2>2. SeedPlan \in Seq(AnyRow) /\ SeedPlan # <<>>
      <3>1. ToSet(SeedPlan) \subseteq AnyRow
        BY DEF AnyRow
      <3>2. \A S : SeedPlan \in Seq(S) /\ S \subseteq AnyRow => SeedPlan \in Seq(AnyRow)
        OBVIOUS
      <3>3. SeedPlan # <<>>
        BY DEF SeedPlan
      <3> QED  BY <3>1, <3>2, <3>3, SeedPlanRows, Zenon
    <2>3. <<q>> \in Seq(AnyRow) /\ <<q>> # <<>>
      BY <2>1
    <2> QED  BY <2>1, <2>2, <2>3
  <1>3. RefTypeOK'
    BY <1>1, <1>2 DEF Begin, RefTypeOK
  <1>4. /\ pc'[s] = where /\ ask'[s] = q /\ todo'[s] = plan /\ wrote'[s] = <<>>
        /\ taken'[s] = 0 /\ resp'[s] = 0
        /\ rows' = rows /\ audit' = audit /\ faults' = faults
    BY <1>1 DEF Begin, RefTypeOK
  <1>5. \A u \in Session \ {s} : Keeps(u)
    BY <1>1 DEF Begin, Keeps, RefTypeOK, CommittedKeys
  <1>6. Keys(plan[1]) \in Seq(KeysOf(plan[1]))
    BY <1>2, KeysAre
  <1>7. Held(s)' = {}
    <2>1. ToSet(SubSeq(Keys(plan[1]), 1, 0)) = {}
      BY <1>6, SubSeqToSet
    <2>2. ToSet(wrote'[s]) = {}
      BY <1>4, NoneOf
    <2> QED  BY <1>4, <2>1, <2>2 DEF Held
  <1>8. SessionOK(s)'
    <2>1. InPlace(s)'
      BY <1>2, <1>4, <1>6 DEF InPlace, Row
    <2>2. OfClient(s)'
      BY <1>2, <1>4 DEF OfClient
    <2>3. OfSeed(s)'
      <3>1. CASE q.by = "client"
        BY <1>4, <3>1 DEF OfSeed
      <3>2. CASE q.by # "client"
        <4>1. plan = SeedPlan /\ ToSet(wrote'[s]) = {}
          BY <1>4, <3>2, NoneOf
        <4> QED  BY <1>4, <4>1, SeedRows, SeedPlanRows DEF OfSeed
      <3> QED  BY <3>1, <3>2
    <2>4. InHandApart(s)'
      <3>1. DOMAIN wrote'[s] = {}
        BY <1>4
      <3>2. \A i, j \in DOMAIN plan : i # j => KeysOf(plan[i]) \cap KeysOf(plan[j]) = {}
        <4>1. CASE q.by = "client"
          BY <4>1
        <4>2. CASE q.by # "client"
          BY <4>2, PlanApart, SeedPlanRows
        <4> QED  BY <4>1, <4>2
      <3> QED  BY <1>4, <3>1, <3>2 DEF InHandApart
    <2>5. WroteRefers(s)'
      BY <1>4 DEF WroteRefers
    <2> QED  BY <2>1, <2>2, <2>3, <2>4, <2>5 DEF SessionOK
  <1> QED  BY <1>3, <1>4, <1>5, <1>7, <1>8, SessionStep DEF NoCommit

LEMMA EndKeeps ==
  ASSUME IInv, NEW s \in Session, NEW code \in {0, 201, 409, 422, 500},
         End(s, code), NoCommit, UNCHANGED <<ask, requests>>,
         faults' \in Nat, faults' = 0 => faults = 0 /\ code # 201,
         ask[s].by = "seed" => code # 201
  PROVE  IInv'
  <1>1. RefTypeOK /\ RefTypeOK'
    BY DEF End, IInv, RefTypeOK, NoCommit
  <1>2. /\ pc'[s] = "idle" /\ ask'[s] = ask[s] /\ todo'[s] = <<>> /\ wrote'[s] = <<>>
        /\ taken'[s] = 0 /\ resp'[s] = code
    BY <1>1 DEF End, RefTypeOK
  <1>3. \A u \in Session \ {s} : Keeps(u)
    BY <1>1 DEF End, NoCommit, Keeps, RefTypeOK, CommittedKeys
  <1>4. ToSet(wrote'[s]) = {} /\ ToSet(todo'[s]) = {}
        /\ DOMAIN wrote'[s] = {} /\ DOMAIN todo'[s] = {}
    BY <1>2, NoneOf
  <1>5. Held(s)' = {}
    BY <1>2, <1>4 DEF Held
  <1>6. SessionOK(s)'
    BY <1>2, <1>4 DEF SessionOK, InPlace, OfClient, OfSeed, InHandApart, WroteRefers
  <1> QED  BY <1>1, <1>2, <1>3, <1>5, <1>6, SessionStep

LEMMA CheckKeeps ==
  ASSUME IInv, NEW s \in Session, CheckPasses(s)
  PROVE  IInv'
  <1>1. RefTypeOK /\ RefTypeOK' /\ SessionOK(s)
    BY DEF CheckPasses, IInv, RefTypeOK
  <1>2. /\ pc[s] = "check" /\ pc'[s] = "insert" /\ ask' = ask /\ todo' = todo /\ wrote' = wrote
        /\ taken' = taken /\ resp' = resp /\ rows' = rows /\ audit' = audit /\ faults' = faults
        /\ \A u \in Session \ {s} : pc'[u] = pc[u]
    BY <1>1 DEF CheckPasses, RefTypeOK
  <1>3. \A u \in Session \ {s} : Keeps(u)
    BY <1>2 DEF Keeps, CommittedKeys
  <1>4. Held(s)' = Held(s)
    BY <1>2 DEF Held
  <1>5. todo[s] # <<>> /\ taken[s] = 0 /\ resp[s] = 0
    BY <1>1, <1>2 DEF SessionOK, InPlace
  <1>6. Len(Keys(Row(s))) \in Nat
    BY <1>1, <1>5, KeysAre DEF Row, RefTypeOK
  <1>7. SessionOK(s)'
    <2>1. InPlace(s)'
      BY <1>2, <1>5, <1>6 DEF InPlace, Row
    <2>2. OfClient(s)' /\ OfSeed(s)'
      BY <1>1, <1>2 DEF SessionOK, OfClient, OfSeed
    <2>3. InHandApart(s)'
      BY <1>1, <1>2 DEF SessionOK, InHandApart
    <2>4. WroteRefers(s)'
      <3>1. wrote'[s] = wrote[s] /\ CommittedKeys' = CommittedKeys /\ WroteRefers(s)
        BY <1>1, <1>2 DEF SessionOK, CommittedKeys
      <3> QED  BY <3>1 DEF WroteRefers
    <2> QED  BY <2>1, <2>2, <2>3, <2>4 DEF SessionOK
  <1> QED  BY <1>1, <1>2, <1>3, <1>4, <1>5, <1>7, SessionStep DEF NoCommit

LEMMA TakeKeeps ==
  ASSUME IInv, NEW s \in Session, TakeKey(s)
  PROVE  IInv'
  <1>1. RefTypeOK /\ SessionOK(s) /\ HeldApart
    BY DEF IInv
  <1>2. /\ pc[s] = "insert" /\ taken[s] < Len(Keys(Row(s))) /\ NextKey(s) \notin CommittedKeys
        /\ pc' = pc /\ ask' = ask /\ todo' = todo /\ wrote' = wrote /\ resp' = resp
        /\ taken'[s] = taken[s] + 1 /\ taken' \in [Session -> Nat]
        /\ rows' = rows /\ audit' = audit /\ faults' = faults /\ requests' = requests
        /\ \A u \in Session \ {s} : taken'[u] = taken[u]
    BY <1>1 DEF TakeKey, AtKey, RefTypeOK
  <1>3. RefTypeOK'
    BY <1>1, <1>2 DEF RefTypeOK
  <1>4. \A u \in Session \ {s} : Keeps(u)
    BY <1>2 DEF Keeps, CommittedKeys
  <1>5. todo[s] # <<>> /\ resp[s] = 0 /\ Keys(Row(s)) \in Seq(KeysOf(Row(s)))
    BY <1>1, <1>2, KeysAre DEF SessionOK, InPlace, RefTypeOK, Row
  <1>6. Held(s)' = Held(s) \cup {NextKey(s)}
    <2> DEFINE before == ToSet(SubSeq(Keys(todo[s][1]), 1, taken[s]))
               after == ToSet(SubSeq(Keys(todo[s][1]), 1, taken[s] + 1))
    <2>1. taken[s] \in 0 .. Len(Keys(Row(s))) /\ taken[s] + 1 \in 0 .. Len(Keys(Row(s)))
      BY <1>1, <1>2, <1>5 DEF RefTypeOK
    <2>2. before = {Keys(Row(s))[i] : i \in 1 .. taken[s]}
      BY <1>5, <2>1, SubSeqToSet DEF Row
    <2>3. after = {Keys(Row(s))[i] : i \in 1 .. taken[s] + 1}
      BY <1>5, <2>1, SubSeqToSet DEF Row
    <2>4. after = before \cup {NextKey(s)}
      BY <2>1, <2>2, <2>3 DEF NextKey
    <2> DEFINE written == UNION {KeysOf(q) : q \in ToSet(wrote[s])}
    <2> HIDE DEF before, after, written
    <2>5. Held(s) = written \cup before
      BY <1>5 DEF Held, before, written
    <2>6. Held(s)' = written \cup after
      BY <1>2, <1>5 DEF Held, after, written
    <2> QED  BY <2>4, <2>5, <2>6
  <1>7. \A u \in Session \ {s} : NextKey(s) \notin Held(u)
    BY DEF TakeKey, WaitsFor
  <1>8. SessionOK(s)'
    <2>1. InPlace(s)'
      BY <1>1, <1>2, <1>5 DEF InPlace, Row, RefTypeOK
    <2>2. OfClient(s)' /\ OfSeed(s)'
      BY <1>1, <1>2 DEF SessionOK, OfClient, OfSeed
    <2>3. InHandApart(s)'
      BY <1>1, <1>2 DEF SessionOK, InHandApart
    <2>4. WroteRefers(s)'
      <3>1. wrote'[s] = wrote[s] /\ CommittedKeys' = CommittedKeys /\ WroteRefers(s)
        BY <1>1, <1>2 DEF SessionOK, CommittedKeys
      <3> QED  BY <3>1 DEF WroteRefers
    <2> QED  BY <2>1, <2>2, <2>3, <2>4 DEF SessionOK
  <1> QED  BY <1>2, <1>3, <1>4, <1>5, <1>6, <1>7, <1>8, SessionStep DEF NoCommit

LEMMA HeadAndTail ==
  ASSUME NEW S, NEW q \in Seq(S), q # <<>>
  PROVE  /\ q[1] \in S /\ Tail(q) \in Seq(S) /\ 1 \in DOMAIN q
         /\ ToSet(q) = {q[1]} \cup ToSet(Tail(q))
         /\ \A i \in DOMAIN Tail(q) : i + 1 \in DOMAIN q /\ Tail(q)[i] = q[i + 1] /\ i + 1 # 1
         /\ Len(q) = 1 <=> Tail(q) = <<>>
         /\ Len(Tail(q)) = Len(q) - 1
  <1>1. /\ q[1] \in S /\ Tail(q) \in Seq(S) /\ 1 \in DOMAIN q
        /\ DOMAIN q = 1 .. Len(q) /\ DOMAIN Tail(q) = 1 .. Len(q) - 1 /\ Len(q) \in Nat
        /\ \A i \in 1 .. Len(q) - 1 : Tail(q)[i] = q[i + 1] /\ i + 1 \in 1 .. Len(q) /\ i + 1 # 1
        /\ \A i \in 1 .. Len(q) : i = 1 \/ (i - 1 \in 1 .. Len(q) - 1 /\ (i - 1) + 1 = i)
        /\ Len(Tail(q)) = Len(q) - 1
    OBVIOUS
  <1>2. ToSet(q) \subseteq {q[1]} \cup ToSet(Tail(q))
    <2> SUFFICES ASSUME NEW i \in DOMAIN q PROVE q[i] \in {q[1]} \cup ToSet(Tail(q))
      BY DEF ToSet
    <2>1. CASE i = 1
      BY <2>1
    <2>2. CASE i # 1
      <3>1. i - 1 \in DOMAIN Tail(q) /\ Tail(q)[i - 1] = q[i]
        BY <1>1, <2>2
      <3> QED  BY <3>1 DEF ToSet
    <2> QED  BY <2>1, <2>2
  <1>3. {q[1]} \cup ToSet(Tail(q)) \subseteq ToSet(q)
    BY <1>1 DEF ToSet
  <1>4. Len(q) = 1 <=> Tail(q) = <<>>
    <2>1. \A t \in Seq(S) : t = <<>> <=> Len(t) = 0
      OBVIOUS
    <2>2. Tail(q) = <<>> <=> Len(Tail(q)) = 0
      BY <1>1, <2>1
    <2> QED  BY <1>1, <2>2
  <1> QED  BY <1>1, <1>2, <1>3, <1>4

LEMMA AppendToSet ==
  ASSUME NEW S, NEW q \in Seq(S), NEW r
  PROVE  /\ ToSet(Append(q, r)) = ToSet(q) \cup {r}
         /\ DOMAIN Append(q, r) = DOMAIN q \cup {Len(q) + 1}
         /\ DOMAIN q = 1 .. Len(q) /\ Len(q) \in Nat
         /\ \A i \in DOMAIN q : Append(q, r)[i] = q[i]
         /\ Append(q, r)[Len(q) + 1] = r
  <1>1. /\ DOMAIN Append(q, r) = DOMAIN q \cup {Len(q) + 1}
        /\ DOMAIN q = 1 .. Len(q) /\ Len(q) \in Nat
        /\ \A i \in DOMAIN q : Append(q, r)[i] = q[i]
        /\ Append(q, r)[Len(q) + 1] = r
    OBVIOUS
  <1> QED  BY <1>1 DEF ToSet

\* What session s has written, as a set.
WroteSet(s) == ToSet(wrote[s])
WroteKeys(s) == UNION {KeysOf(q) : q \in WroteSet(s)}

LEMMA HeldBetween ==
  ASSUME RefTypeOK, NEW s \in Session, taken[s] = 0
  PROVE  Held(s) = WroteKeys(s)
  <1>1. CASE todo[s] = <<>>
    BY <1>1 DEF Held, WroteKeys, WroteSet
  <1>2. CASE todo[s] # <<>>
    <2>1. todo[s][1] \in AnyRow
      BY <1>2, HeadAndTail DEF RefTypeOK
    <2>2. ToSet(SubSeq(Keys(todo[s][1]), 1, 0)) = {}
      BY <2>1, KeysAre, SubSeqToSet
    <2> QED  BY <1>2, <2>2 DEF Held, WroteKeys, WroteSet
  <1> QED  BY <1>1, <1>2

LEMMA HeldIndexed ==
  ASSUME RefTypeOK, NEW s \in Session, todo[s] # <<>>, taken[s] = Len(Keys(Row(s)))
  PROVE  Held(s) = WroteKeys(s) \cup KeysOf(Row(s))
  <1>1. Row(s) \in AnyRow
    BY HeadAndTail DEF RefTypeOK, Row
  <1>2. Keys(Row(s)) \in Seq(KeysOf(Row(s)))
    BY <1>1, KeysAre
  <1>3. ToSet(SubSeq(Keys(Row(s)), 1, Len(Keys(Row(s))))) = KeysOf(Row(s))
    <2>1. SubSeq(Keys(Row(s)), 1, Len(Keys(Row(s)))) = Keys(Row(s))
      BY <1>2
    <2> QED  BY <2>1 DEF KeysOf
  <1> QED  BY <1>3 DEF Held, WroteKeys, WroteSet, Row

LEMMA AskIs ==
  ASSUME RefTypeOK, NEW s \in Session
  PROVE  ask[s].by \in {"client", "seed"} /\ ask[s] \in AnyRow
  <1>1. ask[s] \in Requests \cup {DemoUser, DemoTransaction}
    BY DEF RefTypeOK
  <1>2. \A q \in Requests : q \in AnyRow /\ q.by = "client"
    BY RowKinds DEF AnyRow
  <1> QED  BY <1>1, <1>2, DemoRows

LEMMA AskedBy ==
  ASSUME IInv, NEW s \in Session, pc[s] \in {"check", "insert"}
  PROVE  /\ todo[s] # <<>> /\ resp[s] = 0 /\ Row(s) \in AnyRow /\ Row(s) \in ToSet(todo[s])
         /\ Row(s).by = "client" => ask[s].by = "client" /\ Row(s) = ask[s]
         /\ Row(s).by = "seed" => ask[s].by = "seed"
         /\ ask[s].by \in {"client", "seed"} /\ ask[s] \in AnyRow
  <1>1. RefTypeOK /\ InPlace(s) /\ OfClient(s) /\ OfSeed(s)
    BY DEF IInv, SessionOK
  <1>2. todo[s] # <<>> /\ resp[s] = 0
    BY <1>1 DEF InPlace
  <1>3. Row(s) \in AnyRow /\ Row(s) \in ToSet(todo[s])
    BY <1>1, <1>2, HeadAndTail DEF RefTypeOK, Row
  <1>4. ask[s].by \in {"client", "seed"} /\ ask[s] \in AnyRow
    BY <1>1, AskIs
  <1>5. ask[s].by = "client" => Row(s) = ask[s]
    <2>1. \A q : <<q>>[1] = q
      OBVIOUS
    <2> QED  BY <1>1, <2>1 DEF OfClient, Row
  <1>6. ask[s].by = "seed" => Row(s).by = "seed"
    BY <1>1, <1>3 DEF OfSeed
  <1> QED  BY <1>2, <1>3, <1>4, <1>5, <1>6

LEMMA InsertKeeps ==
  ASSUME IInv, NEW s \in Session, Inserted(s), NoCommit, UNCHANGED <<ask, requests, faults>>,
         pc' = [pc EXCEPT ![s] = IF Len(todo[s]) = 1 THEN "exit" ELSE "check"],
         resp' = [resp EXCEPT ![s] = IF ask[s].by = "client" THEN 201 ELSE @]
  PROVE  IInv'
  <1> DEFINE r == Row(s)
  <1>1. RefTypeOK /\ SessionOK(s) /\ pc[s] = "insert" /\ taken[s] = Len(Keys(r))
    BY DEF IInv, Inserted, Indexed
  <1>2. /\ todo[s] # <<>> /\ resp[s] = 0 /\ r \in AnyRow
        /\ ask[s].by = "client" => r = ask[s] /\ Len(todo[s]) = 1 /\ wrote[s] = <<>>
        /\ ask[s].by \in {"client", "seed"}
        /\ todo[s] \in Seq(AnyRow) /\ wrote[s] \in Seq(AnyRow)
    <2>1. /\ todo[s] # <<>> /\ resp[s] = 0 /\ r \in AnyRow
          /\ ask[s].by \in {"client", "seed"}
      BY <1>1, AskedBy
    <2>2. ask[s].by = "client" => todo[s] = <<ask[s]>> /\ wrote[s] = <<>>
      BY <1>1 DEF SessionOK, OfClient
    <2>3. \A q : Len(<<q>>) = 1 /\ <<q>>[1] = q
      OBVIOUS
    <2>4. todo[s] \in Seq(AnyRow) /\ wrote[s] \in Seq(AnyRow)
      BY <1>1 DEF RefTypeOK
    <2> QED  BY <2>1, <2>2, <2>3, <2>4 DEF Row
  <1>3. /\ wrote'[s] = Append(wrote[s], r) /\ todo'[s] = Tail(todo[s]) /\ taken'[s] = 0
        /\ ask'[s] = ask[s] /\ rows' = rows
        /\ pc'[s] = IF Len(todo[s]) = 1 THEN "exit" ELSE "check"
        /\ resp'[s] = IF ask[s].by = "client" THEN 201 ELSE 0
    BY <1>1, <1>2 DEF Inserted, RefTypeOK, NoCommit
  <1>4. Tail(todo[s]) \in Seq(AnyRow) /\ Append(wrote[s], r) \in Seq(AnyRow)
    BY <1>2, HeadAndTail
  <1>5. RefTypeOK'
    BY <1>1, <1>4 DEF Inserted, RefTypeOK, NoCommit
  <1>6. \A u \in Session \ {s} : Keeps(u)
    BY <1>1 DEF Inserted, Keeps, RefTypeOK, NoCommit, CommittedKeys
  <1>7. /\ ToSet(wrote'[s]) = ToSet(wrote[s]) \cup {r}
        /\ ToSet(todo[s]) = {r} \cup ToSet(todo'[s])
        /\ Len(todo[s]) = 1 <=> todo'[s] = <<>>
    BY <1>2, <1>3, HeadAndTail, AppendToSet DEF Row
  <1>8. Held(s)' = Held(s)
    <2>1. Held(s) = WroteKeys(s) \cup KeysOf(r)
      BY <1>1, <1>2, HeldIndexed
    <2>2. Held(s)' = WroteKeys(s)'
      <3>1. CASE todo'[s] = <<>>
        BY <3>1 DEF Held, WroteKeys, WroteSet
      <3>2. CASE todo'[s] # <<>>
        <4>1. todo'[s][1] \in AnyRow
          BY <1>3, <1>4, <3>2, HeadAndTail
        <4>2. ToSet(SubSeq(Keys(todo'[s][1]), 1, 0)) = {}
          BY <4>1, KeysAre, SubSeqToSet
        <4> QED  BY <1>3, <3>2, <4>2 DEF Held, WroteKeys, WroteSet
      <3> QED  BY <3>1, <3>2
    <2>3. WroteKeys(s)' = WroteKeys(s) \cup KeysOf(r)
      BY <1>7 DEF WroteKeys, WroteSet
    <2> QED  BY <2>1, <2>2, <2>3
  <1>9. SessionOK(s)'
    <2>1. InPlace(s)'
      BY <1>2, <1>3, <1>7 DEF InPlace
    <2>2. OfClient(s)'
      <3>1. ask[s].by = "client" => wrote'[s] = <<ask[s]>> /\ pc'[s] = "exit"
        <4>1. \A q : Append(<<>>, q) = <<q>>
          OBVIOUS
        <4> QED  BY <1>2, <1>3, <4>1, Zenon
      <3> QED  BY <1>3, <3>1 DEF OfClient
    <2>3. OfSeed(s)'
      <3>1. ToSet(rows)' = ToSet(rows)
        BY <1>3
      <3> QED  BY <1>1, <1>3, <1>7, <3>1 DEF SessionOK, OfSeed
    <2>4. InHandApart(s)'
      <3>1. InHandApart(s) /\ 1 \in DOMAIN todo[s] /\ r = todo[s][1]
        BY <1>1, <1>2, HeadAndTail DEF SessionOK, Row
      <3>2. \A i \in DOMAIN todo'[s] :
              i + 1 \in DOMAIN todo[s] /\ todo'[s][i] = todo[s][i + 1] /\ i + 1 # 1 /\ i \in Nat
        BY <1>2, <1>3, HeadAndTail
      <3>3. \A i \in DOMAIN wrote'[s] :
              \/ i \in DOMAIN wrote[s] /\ wrote'[s][i] = wrote[s][i]
              \/ i = Len(wrote[s]) + 1 /\ wrote'[s][i] = r
        BY <1>2, <1>3, AppendToSet
      <3>4. ASSUME NEW i \in DOMAIN wrote'[s], NEW j \in DOMAIN wrote'[s], i # j
            PROVE  KeysOf(wrote'[s][i]) \cap KeysOf(wrote'[s][j]) = {}
        <4>1. CASE i \in DOMAIN wrote[s] /\ wrote'[s][i] = wrote[s][i]
          <5>1. CASE j \in DOMAIN wrote[s] /\ wrote'[s][j] = wrote[s][j]
            BY <3>1, <3>4, <4>1, <5>1 DEF InHandApart
          <5>2. CASE wrote'[s][j] = r
            BY <3>1, <4>1, <5>2 DEF InHandApart
          <5> QED  BY <3>3, <5>1, <5>2
        <4>2. CASE i = Len(wrote[s]) + 1 /\ wrote'[s][i] = r
          <5>1. j \in DOMAIN wrote[s] /\ wrote'[s][j] = wrote[s][j]
            BY <3>3, <3>4, <4>2
          <5> QED  BY <3>1, <4>2, <5>1 DEF InHandApart
        <4> QED  BY <3>3, <4>1, <4>2
      <3>5. ASSUME NEW i \in DOMAIN todo'[s], NEW j \in DOMAIN todo'[s], i # j
            PROVE  KeysOf(todo'[s][i]) \cap KeysOf(todo'[s][j]) = {}
        <4>1. i + 1 \in DOMAIN todo[s] /\ j + 1 \in DOMAIN todo[s] /\ i + 1 # j + 1
          BY <3>2, <3>5
        <4>2. KeysOf(todo[s][i + 1]) \cap KeysOf(todo[s][j + 1]) = {}
          BY <3>1, <4>1 DEF InHandApart
        <4> QED  BY <3>2, <4>2
      <3>6. ASSUME NEW i \in DOMAIN wrote'[s], NEW j \in DOMAIN todo'[s]
            PROVE  KeysOf(wrote'[s][i]) \cap KeysOf(todo'[s][j]) = {}
        BY <3>1, <3>2, <3>3 DEF InHandApart
      <3> QED  BY <3>4, <3>5, <3>6 DEF InHandApart
    <2>5. WroteRefers(s)'
      <3>1. WroteRefers(s) /\ CommittedKeys' = CommittedKeys
        BY <1>1, <1>3 DEF SessionOK, CommittedKeys
      <3>2. /\ DOMAIN wrote'[s] = 1 .. Len(wrote[s]) + 1 /\ DOMAIN wrote[s] = 1 .. Len(wrote[s])
            /\ Len(wrote[s]) \in Nat
            /\ \A i \in 1 .. Len(wrote[s]) : wrote'[s][i] = wrote[s][i]
            /\ wrote'[s][Len(wrote[s]) + 1] = r
        BY <1>2, <1>3
      <3>3. References(r) \subseteq CommittedKeys \cup WroteKeys(s)
        <4>1. References(r) \subseteq CommittedKeys \cup Held(s)
          BY DEF Inserted
        <4> QED  BY <1>1, <1>2, <4>1, HeldIndexed, RefersToOthers
      <3>4. WroteKeys(s) = UNION {KeysOf(wrote[s][j]) : j \in 1 .. Len(wrote[s])}
        BY <3>2 DEF WroteKeys, WroteSet, ToSet
      <3>5. ASSUME NEW i \in 1 .. Len(wrote[s])
            PROVE  References(wrote'[s][i]) \subseteq
                     CommittedKeys \cup UNION {KeysOf(wrote'[s][j]) : j \in 1 .. i - 1}
        <4>1. \A j \in 1 .. i - 1 : wrote'[s][j] = wrote[s][j]
          BY <3>2
        <4>2. UNION {KeysOf(wrote'[s][j]) : j \in 1 .. i - 1}
                = UNION {KeysOf(wrote[s][j]) : j \in 1 .. i - 1}
          BY <4>1
        <4> QED  BY <3>1, <3>2, <4>2 DEF WroteRefers
      <3>6. References(r) \subseteq
              CommittedKeys \cup UNION {KeysOf(wrote'[s][j]) : j \in 1 .. Len(wrote[s])}
        BY <3>2, <3>3, <3>4
      <3>7. \A i \in DOMAIN wrote'[s] : i \in 1 .. Len(wrote[s]) \/ i = Len(wrote[s]) + 1
        BY <3>2
      <3>8. (Len(wrote[s]) + 1) - 1 = Len(wrote[s])
        BY <3>2
      <3> QED  BY <3>1, <3>2, <3>5, <3>6, <3>7, <3>8 DEF WroteRefers
    <2> QED  BY <2>1, <2>2, <2>3, <2>4, <2>5 DEF SessionOK
  <1>10. resp'[s] = 201 => pc'[s] = "exit"
    <2>1. CASE ask[s].by = "client"
      BY <1>2, <1>3, <2>1
    <2>2. CASE ask[s].by # "client"
      BY <1>3, <2>2
    <2> QED  BY <2>1, <2>2
  <1> QED  BY <1>5, <1>6, <1>8, <1>9, <1>10, SessionStep

(* A key of committed rows is one row's.                                   *)
LEMMA CommittedIsRows ==
  ASSUME RefTypeOK, NEW k \in CommittedKeys
  PROVE  \E i \in DOMAIN rows : rows[i] \in AnyRow /\ k \in KeysOf(rows[i])
  BY DEF CommittedKeys, ToSet, RefTypeOK

(* What the script looks its transaction up by.                            *)
LEMMA LookupOfTransaction == SeedLookup(DemoTransaction) = IdKey(DemoTransaction)
  <1>1. Keys(DemoTransaction) = <<IdKey(DemoTransaction)>>
    <2>1. DemoTransaction.by = "seed" /\ DemoTransaction.kind = "transaction"
      BY DEF DemoTransaction
    <2>2. \A k : <<k>> \o << >> = <<k>>
      OBVIOUS
    <2> QED  BY <2>1, <2>2 DEF Keys
  <1>2. \A k : Last(<<k>>) = k
    BY DEF Last
  <1> QED  BY <1>1, <1>2 DEF SeedLookup, DemoTransaction

LEMMA SkipKeeps ==
  ASSUME IInv, NEW s \in Session, SeedSkips(s)
  PROVE  IInv'
  <1> DEFINE r == Row(s)
  <1>1. RefTypeOK /\ SessionOK(s) /\ pc[s] = "check" /\ taken[s] = 0 /\ r.by = "seed"
    BY DEF IInv, SeedSkips, SessionOK, InPlace
  <1>2. /\ todo[s] # <<>> /\ resp[s] = 0 /\ r \in AnyRow /\ ask[s].by = "seed"
        /\ todo[s] \in Seq(AnyRow)
    BY <1>1, AskedBy DEF RefTypeOK
  <1>3. /\ todo'[s] = Tail(todo[s]) /\ wrote' = wrote /\ taken' = taken /\ resp' = resp
        /\ ask' = ask /\ rows' = rows /\ audit' = audit /\ faults' = faults
        /\ pc'[s] = IF Len(todo[s]) = 1 THEN "exit" ELSE "check"
    BY <1>1 DEF SeedSkips, SeedGoesOn, RefTypeOK
  <1>4. /\ Tail(todo[s]) \in Seq(AnyRow)
        /\ ToSet(todo[s]) = {r} \cup ToSet(todo'[s])
        /\ Len(todo[s]) = 1 <=> todo'[s] = <<>>
    BY <1>2, <1>3, HeadAndTail DEF Row
  <1>5. RefTypeOK'
    BY <1>1, <1>4 DEF SeedSkips, SeedGoesOn, RefTypeOK
  <1>6. \A u \in Session \ {s} : Keeps(u)
    BY <1>1 DEF SeedSkips, SeedGoesOn, Keeps, RefTypeOK, CommittedKeys
  <1>7. Held(s) = WroteKeys(s)
    BY <1>1, HeldBetween
  <1>8. Held(s)' = Held(s)
    <2>1. CASE todo'[s] = <<>>
      BY <1>3, <1>7, <2>1 DEF Held, WroteKeys, WroteSet
    <2>2. CASE todo'[s] # <<>>
      <3>1. todo'[s][1] \in AnyRow
        BY <1>3, <1>4, <2>2, HeadAndTail
      <3>2. ToSet(SubSeq(Keys(todo'[s][1]), 1, 0)) = {}
        BY <3>1, KeysAre, SubSeqToSet
      <3> QED  BY <1>1, <1>3, <1>7, <2>2, <3>2 DEF Held, WroteKeys, WroteSet
    <2> QED  BY <2>1, <2>2
  <1>9. SessionOK(s)'
    <2>1. InPlace(s)'
      BY <1>1, <1>2, <1>3, <1>4 DEF InPlace
    <2>2. OfClient(s)'
      BY <1>2, <1>3 DEF OfClient
    <2>3. OfSeed(s)'
      <3>1. /\ resp'[s] # 201 /\ \A q \in ToSet(todo'[s]) \cup ToSet(wrote'[s]) : q.by = "seed"
            /\ DemoTransaction \in ToSet(rows) \cup ToSet(wrote[s]) \cup ToSet(todo[s])
        BY <1>1, <1>2, <1>3, <1>4 DEF SessionOK, OfSeed
      <3>2. r = DemoTransaction => DemoTransaction \in ToSet(rows) \cup ToSet(wrote[s])
        <4>1. SUFFICES ASSUME r = DemoTransaction
                       PROVE  DemoTransaction \in ToSet(rows) \cup ToSet(wrote[s])
          OBVIOUS
        <4>2. IdKey(DemoTransaction) \in CommittedKeys \cup WroteKeys(s)
          BY <1>7, <4>1, LookupOfTransaction DEF SeedSkips
        <4>3. CASE IdKey(DemoTransaction) \in CommittedKeys
          BY <1>1, <4>3, CommittedIsRows, IdKeyMeans DEF ToSet
        <4>4. CASE IdKey(DemoTransaction) \in WroteKeys(s)
          <5>1. WroteSet(s) \subseteq AnyRow
            BY <1>1 DEF WroteSet, ToSet, RefTypeOK
          <5> QED  BY <4>4, <5>1, IdKeyMeans DEF WroteKeys, WroteSet
        <4> QED  BY <4>2, <4>3, <4>4
      <3>3. DemoTransaction \in ToSet(rows) \cup ToSet(wrote[s]) \cup ToSet(todo'[s])
        BY <1>4, <3>1, <3>2
      <3> QED  BY <1>3, <3>1, <3>3 DEF OfSeed
    <2>4. InHandApart(s)'
      <3>1. InHandApart(s)
        BY <1>1 DEF SessionOK
      <3>2. \A i \in DOMAIN todo'[s] :
              i + 1 \in DOMAIN todo[s] /\ todo'[s][i] = todo[s][i + 1] /\ i \in Nat
        BY <1>2, <1>3, HeadAndTail
      <3>3. ASSUME NEW i \in DOMAIN todo'[s], NEW j \in DOMAIN todo'[s], i # j
            PROVE  KeysOf(todo'[s][i]) \cap KeysOf(todo'[s][j]) = {}
        <4>1. /\ i + 1 \in DOMAIN todo[s] /\ j + 1 \in DOMAIN todo[s] /\ i + 1 # j + 1
              /\ todo'[s][i] = todo[s][i + 1] /\ todo'[s][j] = todo[s][j + 1]
          BY <3>2, <3>3
        <4> QED  BY <3>1, <4>1 DEF InHandApart
      <3>4. ASSUME NEW i \in DOMAIN wrote[s], NEW j \in DOMAIN todo'[s]
            PROVE  KeysOf(wrote[s][i]) \cap KeysOf(todo'[s][j]) = {}
        BY <3>1, <3>2 DEF InHandApart
      <3> QED  BY <1>3, <3>1, <3>3, <3>4 DEF InHandApart
    <2>5. WroteRefers(s)'
      <3>1. wrote'[s] = wrote[s] /\ CommittedKeys' = CommittedKeys /\ WroteRefers(s)
        BY <1>1, <1>3 DEF SessionOK, CommittedKeys
      <3> QED  BY <3>1 DEF WroteRefers
    <2> QED  BY <2>1, <2>2, <2>3, <2>4, <2>5 DEF SessionOK
  <1> QED  BY <1>2, <1>3, <1>5, <1>6, <1>8, <1>9, SessionStep DEF NoCommit

LEMMA ConcatAt ==
  ASSUME NEW S, NEW p \in Seq(S), NEW q \in Seq(S)
  PROVE  /\ p \o q \in Seq(S)
         /\ DOMAIN (p \o q) = 1 .. Len(p) + Len(q) /\ Len(p \o q) = Len(p) + Len(q)
         /\ DOMAIN p = 1 .. Len(p) /\ DOMAIN q = 1 .. Len(q) /\ Len(p) \in Nat /\ Len(q) \in Nat
         /\ \A i \in DOMAIN p : (p \o q)[i] = p[i]
         /\ \A i \in DOMAIN q : (p \o q)[Len(p) + i] = q[i]
         /\ ToSet(p \o q) = ToSet(p) \cup ToSet(q)
  BY ToSetAppended

LEMMA CommitTypes ==
  ASSUME IInv, NEW s \in Session, Commit(s)
  PROVE  /\ RefTypeOK /\ RefTypeOK' /\ SessionOK(s) /\ pc[s] = "exit" /\ todo[s] = <<>>
         /\ wrote[s] \in Seq(AnyRow) /\ rows' = rows \o wrote[s] /\ faults' = faults
         /\ audit' = audit \o Audited(s) /\ Audited(s) \in Seq(AnyRow)
         /\ pc'[s] = "idle" /\ todo'[s] = <<>> /\ wrote'[s] = <<>> /\ taken'[s] = 0
         /\ ask'[s] = ask[s] /\ resp'[s] = resp[s]
         /\ ToSet(rows)' = ToSet(rows) \cup ToSet(wrote[s])
         /\ CommittedKeys' = CommittedKeys \cup WroteKeys(s)
         /\ Held(s) = WroteKeys(s) /\ Held(s)' = {}
         /\ \A u \in Session \ {s} : Keeps(u)
  <1>1. RefTypeOK /\ SessionOK(s) /\ pc[s] = "exit" /\ todo[s] = <<>> /\ taken[s] = 0
    BY DEF IInv, Commit, SessionOK, InPlace
  <1>2. wrote[s] \in Seq(AnyRow) /\ Audited(s) \in Seq(AnyRow)
    BY <1>1 DEF Audited, RefTypeOK
  <1>3. /\ rows' = rows \o wrote[s] /\ faults' = faults /\ audit' = audit \o Audited(s)
        /\ pc'[s] = "idle" /\ todo'[s] = <<>> /\ wrote'[s] = <<>> /\ taken'[s] = 0
        /\ ask'[s] = ask[s] /\ resp'[s] = resp[s]
    BY <1>1 DEF Commit, End, RefTypeOK
  <1>4. RefTypeOK'
    <2>1. rows' \in Seq(AnyRow) /\ audit' \in Seq(AnyRow)
      BY <1>1, <1>2, <1>3, ConcatAt DEF RefTypeOK
    <2> QED  BY <1>1, <2>1 DEF Commit, End, RefTypeOK
  <1>5. ToSet(rows)' = ToSet(rows) \cup ToSet(wrote[s])
    BY <1>1, <1>2, <1>3, ConcatAt DEF RefTypeOK
  <1>6. CommittedKeys' = CommittedKeys \cup WroteKeys(s)
    BY <1>5 DEF CommittedKeys, WroteKeys, WroteSet
  <1>7. Held(s) = WroteKeys(s)
    BY <1>1, HeldBetween
  <1>8. Held(s)' = {}
    <2>1. ToSet(wrote'[s]) = {}
      BY <1>3, NoneOf
    <2> QED  BY <1>3, <2>1 DEF Held
  <1>9. \A u \in Session \ {s} : Keeps(u)
    BY <1>1, <1>5, <1>6 DEF Commit, End, Keeps, RefTypeOK
  <1> QED  BY <1>1, <1>2, <1>3, <1>4, <1>5, <1>6, <1>7, <1>8, <1>9

LEMMA CommitRows ==
  ASSUME IInv, NEW s \in Session, Commit(s)
  PROVE  RowsApart' /\ RowsRefer'
  <1> DEFINE n == Len(rows)
             m == Len(wrote[s])
  <1>1. /\ DOMAIN rows' = 1 .. n + m /\ DOMAIN rows = 1 .. n /\ DOMAIN wrote[s] = 1 .. m
        /\ n \in Nat /\ m \in Nat
        /\ \A i \in 1 .. n : rows'[i] = rows[i]
        /\ \A i \in 1 .. m : rows'[n + i] = wrote[s][i]
    BY CommitTypes, ConcatAt DEF RefTypeOK
  <1>2. /\ RowsApart /\ RowsRefer /\ InHandApart(s) /\ WroteRefers(s)
        /\ WroteKeys(s) \cap CommittedKeys = {}
    BY CommitTypes DEF IInv, HeldApart, SessionOK
  <1>3. /\ \A i \in 1 .. n : KeysOf(rows[i]) \subseteq CommittedKeys
        /\ \A i \in 1 .. m : KeysOf(wrote[s][i]) \subseteq WroteKeys(s)
    BY <1>1 DEF CommittedKeys, WroteKeys, WroteSet, ToSet
  <1>4. \A i \in 1 .. n + m : i \in 1 .. n \/ (i - n \in 1 .. m /\ i = n + (i - n))
    BY <1>1
  <1>5. RowsApart'
    <2>1. SUFFICES ASSUME NEW i \in 1 .. n + m, NEW j \in 1 .. n + m, i # j
                   PROVE  KeysOf(rows'[i]) \cap KeysOf(rows'[j]) = {}
      BY <1>1 DEF RowsApart
    <2>2. CASE i \in 1 .. n /\ j \in 1 .. n
      BY <1>1, <1>2, <2>1, <2>2 DEF RowsApart
    <2>3. CASE i \notin 1 .. n /\ j \notin 1 .. n
      <3>1. i - n \in 1 .. m /\ j - n \in 1 .. m /\ i - n # j - n
            /\ rows'[i] = wrote[s][i - n] /\ rows'[j] = wrote[s][j - n]
        BY <1>1, <1>4, <2>1, <2>3
      <3> QED  BY <1>1, <1>2, <3>1 DEF InHandApart
    <2>4. CASE i \in 1 .. n /\ j \notin 1 .. n
      <3>1. j - n \in 1 .. m /\ rows'[j] = wrote[s][j - n] /\ rows'[i] = rows[i]
        BY <1>1, <1>4, <2>1, <2>4
      <3> QED  BY <1>2, <1>3, <2>4, <3>1
    <2>5. CASE i \notin 1 .. n /\ j \in 1 .. n
      <3>1. i - n \in 1 .. m /\ rows'[i] = wrote[s][i - n] /\ rows'[j] = rows[j]
        BY <1>1, <1>4, <2>1, <2>5
      <3> QED  BY <1>2, <1>3, <2>5, <3>1
    <2> QED  BY <2>2, <2>3, <2>4, <2>5
  <1>6. RowsRefer'
    <2>1. SUFFICES ASSUME NEW i \in 1 .. n + m, NEW k \in References(rows'[i])
                   PROVE  \E j \in 1 .. i - 1 : k \in KeysOf(rows'[j])
      BY <1>1 DEF RowsRefer
    <2>2. CASE i \in 1 .. n
      <3>1. PICK j \in 1 .. i - 1 : k \in KeysOf(rows[j])
        BY <1>1, <1>2, <2>1, <2>2 DEF RowsRefer
      <3>2. rows'[j] = rows[j]
        BY <1>1, <2>2
      <3> QED  BY <3>1, <3>2
    <2>3. CASE i \notin 1 .. n
      <3>1. i - n \in 1 .. m /\ rows'[i] = wrote[s][i - n]
        BY <1>1, <1>4, <2>1, <2>3
      <3>2. k \in CommittedKeys \/ \E j \in 1 .. (i - n) - 1 : k \in KeysOf(wrote[s][j])
        BY <1>1, <1>2, <2>1, <3>1 DEF WroteRefers
      <3>3. CASE k \in CommittedKeys
        <4>1. PICK j \in 1 .. n : k \in KeysOf(rows[j])
          BY <1>1, <3>3, CommittedIsRows DEF IInv
        <4>2. j \in 1 .. i - 1 /\ rows'[j] = rows[j]
          BY <1>1, <3>1
        <4> QED  BY <4>1, <4>2
      <3>4. ASSUME NEW j \in 1 .. (i - n) - 1, k \in KeysOf(wrote[s][j])
            PROVE  \E l \in 1 .. i - 1 : k \in KeysOf(rows'[l])
        <4>1. j \in 1 .. m /\ n + j \in 1 .. i - 1
          BY <1>1, <3>1
        <4>2. rows'[n + j] = wrote[s][j]
          BY <1>1, <4>1
        <4> QED  BY <3>4, <4>1, <4>2
      <3> QED  BY <3>2, <3>3, <3>4
    <2> QED  BY <2>2, <2>3
  <1> QED  BY <1>5, <1>6

\* The places of the rows that clients created.
Created == {j \in DOMAIN rows : rows[j].by = "client"}
CreatedTo(j) == {i \in Created : i <= j}

LEMMA AuditAt ==
  AuditMatchesRows <=>
    /\ Len(audit) = Cardinality(Created)
    /\ \A j \in Created : audit[Cardinality(CreatedTo(j))] = rows[j]
  BY DEF AuditMatchesRows, Created, CreatedTo

LEMMA CreatedFinite ==
  ASSUME RefTypeOK
  PROVE  /\ IsFiniteSet(Created) /\ Cardinality(Created) \in Nat
         /\ \A j \in Created :
              Cardinality(CreatedTo(j)) \in 1 .. Cardinality(Created)
  <1>1. IsFiniteSet(1 .. Len(rows)) /\ Created \subseteq 1 .. Len(rows)
    BY FS_Interval DEF RefTypeOK, Created
  <1>2. IsFiniteSet(Created) /\ Cardinality(Created) \in Nat
    BY <1>1, FS_Subset, FS_CardinalityType
  <1>3. ASSUME NEW j \in Created
        PROVE  Cardinality(CreatedTo(j)) \in 1 .. Cardinality(Created)
    <2>1. j \in CreatedTo(j) /\ CreatedTo(j) \subseteq Created
      BY <1>1, <1>3 DEF CreatedTo
    <2>2. IsFiniteSet(CreatedTo(j)) /\ Cardinality(CreatedTo(j)) <= Cardinality(Created)
      BY <1>2, <2>1, FS_Subset
    <2>3. Cardinality(CreatedTo(j)) \in Nat /\ Cardinality(CreatedTo(j)) # 0
      BY <2>1, <2>2, FS_CardinalityType, FS_EmptySet
    <2> QED  BY <1>2, <2>2, <2>3
  <1> QED  BY <1>2, <1>3

LEMMA CommitAudits ==
  ASSUME IInv, NEW s \in Session, Commit(s)
  PROVE  AuditMatchesRows'
  <1> DEFINE n == Len(rows)
             m == Len(wrote[s])
  <1>1. /\ DOMAIN rows' = 1 .. n + m /\ DOMAIN rows = 1 .. n /\ DOMAIN wrote[s] = 1 .. m
        /\ n \in Nat /\ m \in Nat
        /\ \A i \in 1 .. n : rows'[i] = rows[i]
        /\ \A i \in 1 .. m : rows'[n + i] = wrote[s][i]
    BY CommitTypes, ConcatAt DEF RefTypeOK
  <1>2. /\ Len(audit) = Cardinality(Created)
        /\ \A j \in Created : audit[Cardinality(CreatedTo(j))] = rows[j]
        /\ audit \in Seq(AnyRow)
    BY AuditAt DEF IInv, RefTypeOK
  <1>3. IsFiniteSet(Created) /\ Cardinality(Created) \in Nat
        /\ \A j \in Created : Cardinality(CreatedTo(j)) \in 1 .. Cardinality(Created)
    BY CreatedFinite DEF IInv
  <1>4. \A i \in 1 .. n + m : i \in 1 .. n \/ (i - n \in 1 .. m /\ i = n + (i - n))
    BY <1>1
  <1>5. ask[s].by \in {"client", "seed"}
    BY AskIs DEF IInv
  <1>6. CASE ask[s].by = "client"
    <2>1. wrote[s] = <<ask[s]>>
      BY <1>6, CommitTypes DEF SessionOK, OfClient
    <2>2. m = 1 /\ wrote[s][1] = ask[s]
      BY <2>1
    <2>3. PICK c : c = n + 1
      OBVIOUS
    <2>4. rows'[c] = ask[s] /\ c \in DOMAIN rows' /\ c \notin Created /\ c \in Nat
      BY <1>1, <2>2, <2>3 DEF Created
    <2>5. Created' = Created \cup {c}
      <3>1. \A i \in 1 .. n + 1 : i \in 1 .. n \/ i = c
        BY <1>1, <2>3
      <3> QED  BY <1>1, <1>6, <2>2, <2>3, <2>4, <3>1 DEF Created
    <2>6. Cardinality(Created') = Cardinality(Created) + 1
      BY <1>3, <2>4, <2>5, FS_AddElement
    <2>7. /\ Len(audit') = Len(audit) + 1 /\ audit'[Len(audit) + 1] = ask[s]
          /\ \A i \in 1 .. Len(audit) : audit'[i] = audit[i]
      <3>1. audit' = audit \o wrote[s] /\ wrote[s] \in Seq(AnyRow)
        BY <1>6, CommitTypes DEF Audited
      <3>2. audit' = Append(audit, ask[s])
        BY <1>2, <2>1, <3>1
      <3> QED  BY <1>2, <3>2
    <2>8. ASSUME NEW j \in Created
          PROVE  audit'[Cardinality(CreatedTo(j)')] = rows'[j]
      <3>1. j \in 1 .. n
        BY <1>1 DEF Created
      <3>2. CreatedTo(j)' = CreatedTo(j)
        BY <1>1, <2>3, <2>5, <3>1 DEF CreatedTo
      <3> QED  BY <1>1, <1>2, <1>3, <2>7, <3>1, <3>2
    <2>9. CreatedTo(c)' = Created'
      <3>1. \A i \in Created' : i <= c
        BY <1>1, <2>3, <2>5 DEF Created
      <3> QED  BY <3>1 DEF CreatedTo
    <2>10. \A j \in Created' : audit'[Cardinality(CreatedTo(j)')] = rows'[j]
      BY <1>2, <2>4, <2>5, <2>6, <2>7, <2>8, <2>9
    <2>11. Len(audit') = Cardinality(Created')
      BY <1>2, <2>6, <2>7
    <2> QED  BY <2>10, <2>11 DEF AuditMatchesRows, Created, CreatedTo
  <1>7. CASE ask[s].by = "seed"
    <2>1. \A i \in 1 .. m : wrote[s][i].by = "seed"
      BY <1>1, <1>7, CommitTypes DEF SessionOK, OfSeed, ToSet
    <2>2. Created' = Created
      <3>1. \A i \in 1 .. n + m : rows'[i].by = "client" => i \in 1 .. n /\ rows'[i] = rows[i]
        <4>1. \A i \in 1 .. n + m : i \notin 1 .. n => rows'[i] = wrote[s][i - n] /\ i - n \in 1 .. m
          BY <1>1, <1>4
        <4> QED  BY <1>1, <2>1, <4>1
      <3>2. \A i \in 1 .. n : i \in 1 .. n + m /\ rows'[i] = rows[i]
        BY <1>1
      <3> QED  BY <1>1, <3>1, <3>2 DEF Created
    <2>3. audit' = audit
      <3>1. audit' = audit \o <<>>
        BY <1>7, CommitTypes DEF Audited
      <3> QED  BY <1>2, <3>1
    <2>4. \A j \in Created : CreatedTo(j)' = CreatedTo(j) /\ rows'[j] = rows[j]
      BY <1>1, <2>2 DEF CreatedTo, Created
    <2> QED  BY <1>2, <2>2, <2>3, <2>4, AuditAt DEF AuditMatchesRows, Created, CreatedTo
  <1> QED  BY <1>5, <1>6, <1>7

LEMMA CommitKeeps ==
  ASSUME IInv, NEW s \in Session, Commit(s)
  PROVE  IInv'
  <1>1. \A u \in Session \ {s} : SessionOK(u)' /\ Held(u)' = Held(u)
    BY CommitTypes, OthersKeep DEF IInv
  <1>2. SessionOK(s)'
    <2>1. InPlace(s)' /\ OfClient(s)'
      BY CommitTypes DEF InPlace, OfClient
    <2>2. ToSet(todo'[s]) = {} /\ ToSet(wrote'[s]) = {}
          /\ DOMAIN wrote'[s] = {} /\ DOMAIN todo'[s] = {}
      BY CommitTypes, NoneOf
    <2>3. OfSeed(s)'
      BY <2>2, CommitTypes DEF SessionOK, OfSeed
    <2>4. InHandApart(s)' /\ WroteRefers(s)'
      BY <2>2 DEF InHandApart, WroteRefers
    <2> QED  BY <2>1, <2>3, <2>4 DEF SessionOK
  <1>3. HeldApart'
    BY <1>1, CommitTypes, ApartKept DEF IInv
  <1>4. CreatedIsStored'
    <2>1. SUFFICES ASSUME faults = 0, NEW u \in Session, resp'[u] = 201
                   PROVE  pc'[u] = "exit" \/ ask'[u] \in ToSet(rows)'
      BY CommitTypes DEF CreatedIsStored
    <2>2. CASE u = s
      <3>1. ask[s].by = "client"
        <4>1. ask[s].by = "seed" => resp[s] # 201
          BY CommitTypes DEF SessionOK, OfSeed
        <4> QED  BY <2>1, <2>2, <4>1, CommitTypes, AskIs
      <3>2. wrote[s] = <<ask[s]>>
        BY <3>1, CommitTypes DEF SessionOK, OfClient
      <3>3. ToSet(wrote[s]) = {ask[s]}
        BY <3>2, OneOf
      <3>4. ask'[s] = ask[s] /\ ToSet(wrote[s]) \subseteq ToSet(rows)'
        BY CommitTypes
      <3> QED  BY <2>2, <3>3, <3>4
    <2>3. CASE u # s
      <3>1. Keeps(u) /\ CreatedIsStored
        BY <2>3, CommitTypes DEF IInv
      <3> QED  BY <2>1, <3>1 DEF CreatedIsStored, Keeps
    <2> QED  BY <2>2, <2>3
  <1>5. SeedIsWhole'
    <2>1. SUFFICES ASSUME NEW q \in ToSet(rows)', q.by = "seed"
                   PROVE  DemoTransaction \in ToSet(rows)'
      BY DEF SeedIsWhole, ToSet
    <2>2. CASE q \in ToSet(rows)
      BY <2>1, <2>2, CommitTypes DEF IInv, SeedIsWhole, ToSet
    <2>3. CASE q \in ToSet(wrote[s])
      <3>1. ask[s].by = "seed"
        <4>1. ask[s].by = "client" => wrote[s] = <<ask[s]>>
          BY CommitTypes DEF SessionOK, OfClient
        <4>2. ask[s].by = "client" => q = ask[s]
          BY <2>3, <4>1, OneOf
        <4> QED  BY <2>1, <4>2, CommitTypes, AskIs
      <3>2. DemoTransaction \in ToSet(rows) \cup ToSet(wrote[s]) \cup ToSet(todo[s])
        BY <3>1, CommitTypes DEF SessionOK, OfSeed
      <3>3. ToSet(todo[s]) = {}
        BY CommitTypes, NoneOf
      <3> QED  BY <3>2, <3>3, CommitTypes
    <2> QED  BY <2>1, <2>2, <2>3, CommitTypes
  <1> QED  BY <1>1, <1>2, <1>3, <1>4, <1>5, CommitTypes, CommitRows, CommitAudits DEF IInv

LEMMA RefuseKeeps ==
  ASSUME IInv, NEW s \in Session, NEW code \in {409, 422, 500}, Refuse(s, code)
  PROVE  IInv'
  <1>1. faults' = faults /\ faults \in Nat
    BY DEF Refuse, IInv, RefTypeOK
  <1> QED  BY <1>1, EndKeeps DEF Refuse, NoCommit

LEMMA CutKeeps ==
  ASSUME IInv, NEW s \in Session, Cut(s)
  PROVE  IInv'
  <1>1. PICK code \in {0, 201, 409, 422, 500} : code = resp[s]
    BY DEF IInv, RefTypeOK
  <1>2. faults' \in Nat /\ faults' # 0
    BY DEF Cut, IInv, RefTypeOK
  <1>3. ask[s].by = "seed" => code # 201
    BY <1>1 DEF IInv, SessionOK, OfSeed
  <1> QED  BY <1>1, <1>2, <1>3, EndKeeps DEF Cut, NoCommit

LEMMA RespondKeeps ==
  ASSUME IInv, NEW s \in Session, Respond(s)
  PROVE  IInv'
  <1>1. ask[s].by = "client"
    BY AskedBy DEF Respond, Inserted, Indexed
  <1>2. Len(todo[s]) = 1
    <2>1. todo[s] = <<ask[s]>>
      BY <1>1 DEF Respond, Inserted, Indexed, IInv, SessionOK, OfClient
    <2> QED  BY <2>1
  <1>3. /\ pc' = [pc EXCEPT ![s] = IF Len(todo[s]) = 1 THEN "exit" ELSE "check"]
        /\ resp' = [resp EXCEPT ![s] = IF ask[s].by = "client" THEN 201 ELSE @]
    BY <1>1, <1>2 DEF Respond
  <1> QED  BY <1>3, InsertKeeps DEF Respond, NoCommit

LEMMA SeedInsertKeeps ==
  ASSUME IInv, NEW s \in Session, SeedInserts(s)
  PROVE  IInv'
  <1>1. ask[s].by = "seed"
    BY AskedBy DEF SeedInserts, Inserted, Indexed
  <1>2. resp' = [resp EXCEPT ![s] = IF ask[s].by = "client" THEN 201 ELSE @]
    BY <1>1 DEF SeedInserts, IInv, RefTypeOK
  <1> QED  BY <1>2, InsertKeeps DEF SeedInserts, SeedGoesOn, NoCommit

LEMMA NextIInv ==
  ASSUME IInv, [Next]_vars
  PROVE  IInv'
  <1>1. ASSUME NEW s \in Session, NEW q \in Requests,
               \/ RegisterUser(s, q) \/ CreateAccount(s, q)
               \/ PostCurrency(s, q) \/ PostExchangeRate(s, q)
        PROVE  IInv'
    <2>1. q.by = "client"
      BY RowKinds DEF AnyRow
    <2>2. Begin(s, q, <<q>>, "check") \/ Begin(s, q, <<q>>, "insert")
      BY <1>1 DEF RegisterUser, CreateAccount, PostCurrency, PostExchangeRate
    <2> QED  BY <2>1, <2>2, BeginKeeps
  <1>2. ASSUME NEW s \in Session, StartSeed(s) PROVE IInv'
    BY <1>2, BeginKeeps, DemoRows DEF StartSeed
  <1>3. ASSUME NEW s \in Session, EmailTaken(s) \/ UnknownCurrency(s) PROVE IInv'
    BY <1>3, RefuseKeeps DEF EmailTaken, UnknownCurrency
  <1>4. ASSUME NEW s \in Session,
               KeyViolated(s) \/ ReferenceViolated(s) \/ DeadlockAborts(s) PROVE IInv'
    BY <1>4, RefuseKeeps DEF KeyViolated, ReferenceViolated, DeadlockAborts, IntegrityCode
  <1>5. ASSUME NEW s \in Session, Step(s) PROVE IInv'
    BY <1>3, <1>4, <1>5, CheckKeeps, TakeKeeps, RespondKeeps, SkipKeeps, SeedInsertKeeps,
       CommitKeeps DEF Step
  <1>6. CASE UNCHANGED vars
    <2>1. \A s \in Session : Keeps(s)
      BY <1>6 DEF vars, Keeps, CommittedKeys
    <2>2. \A s \in Session : SessionOK(s)' /\ Held(s)' = Held(s)
      BY <2>1, OthersKeep DEF IInv
    <2>3. HeldApart'
      BY <1>6, <2>2 DEF vars, IInv, HeldApart, CommittedKeys
    <2>4. RefTypeOK' /\ CreatedIsStored'
      BY <1>6 DEF vars, IInv, RefTypeOK, CreatedIsStored
    <2> QED  BY <1>6, <2>2, <2>3, <2>4, NoCommitKeeps DEF vars, NoCommit, IInv
  <1> QED  BY <1>1, <1>2, <1>5, <1>6, CutKeeps DEF Next

(* The invariant that the theorems below rest on.                          *)
THEOREM ReferenceDataInvariant == Spec => []IInv
  BY InitIInv, NextIInv, PTL DEF Spec

-----------------------------------------------------------------------------
(* However many creations race past their checks, an address registers one *)
(* user, a code one currency, a code or a name one account, and a pair of  *)
(* currencies has one rate a day.                                          *)
THEOREM ReferenceOneRowPerKey == Spec => []OneRowPerKey
  <1>1. IInv => OneRowPerKey
    <2> SUFFICES ASSUME IInv, NEW i \in DOMAIN rows, NEW j \in DOMAIN rows, i # j
                 PROVE  ~ Same(rows[i], rows[j])
      BY DEF OneRowPerKey
    <2>1. rows[i] \in AnyRow /\ rows[j] \in AnyRow
      BY DEF IInv, RefTypeOK
    <2>2. KeysOf(rows[i]) \cap KeysOf(rows[j]) = {}
      BY DEF IInv, RowsApart
    <2> QED  BY <2>1, <2>2, SameShareKey
  <1> QED  BY <1>1, ReferenceDataInvariant, PTL

(* What a row refers to was in the tables before it.                       *)
THEOREM ReferenceReferencesHold == Spec => []ReferencesHold
  <1>1. IInv => ReferencesHold
    <2> SUFFICES ASSUME IInv, NEW i \in DOMAIN rows
                 PROVE  /\ rows[i].kind = "account" => IsCurrency(rows[i].currency, i - 1)
                        /\ rows[i].kind = "rate" =>
                             IsCurrency(rows[i].from, i - 1) /\ IsCurrency(rows[i].to, i - 1)
                        /\ rows[i] = DemoTransaction =>
                             DemoAccounts \subseteq ToSet(SubSeq(rows, 1, i - 1))
      BY DEF ReferencesHold
    <2>1. /\ rows \in Seq(AnyRow) /\ i \in 1 .. Len(rows) /\ Len(rows) \in Nat
          /\ \A j \in 1 .. i - 1 : j \in 1 .. Len(rows) /\ rows[j] \in AnyRow
      BY DEF IInv, RefTypeOK
    <2>2. \A k \in References(rows[i]) : \E j \in 1 .. i - 1 : k \in KeysOf(rows[j])
      BY DEF IInv, RowsRefer
    <2>3. ASSUME NEW c, CodeKey(c) \in References(rows[i]) PROVE IsCurrency(c, i - 1)
      BY <2>1, <2>2, <2>3, CodeKeyMeans DEF IsCurrency
    <2>4. rows[i].kind = "account" => CodeKey(rows[i].currency) \in References(rows[i])
      BY DEF References
    <2>5. rows[i].kind = "rate" => /\ CodeKey(rows[i].from) \in References(rows[i])
                                   /\ CodeKey(rows[i].to) \in References(rows[i])
      BY DEF References
    <2>6. ASSUME rows[i] = DemoTransaction, NEW a \in DemoAccounts
          PROVE  a \in ToSet(SubSeq(rows, 1, i - 1))
      <3>1. IdKey(a) \in References(rows[i])
        BY <2>6 DEF References, DemoTransaction
      <3>2. PICK j \in 1 .. i - 1 : IdKey(a) \in KeysOf(rows[j])
        BY <2>2, <3>1
      <3>3. rows[j] = a
        BY <2>1, <3>2, IdKeyMeans
      <3>4. ToSet(SubSeq(rows, 1, i - 1)) = {rows[l] : l \in 1 .. i - 1}
        BY <2>1, SubSeqToSet
      <3> QED  BY <3>3, <3>4
    <2> QED  BY <2>3, <2>4, <2>5, <2>6
  <1> QED  BY <1>1, ReferenceDataInvariant, PTL

(* The audit log tells of every row a client created, once and in order,   *)
(* and of nothing else.                                                    *)
THEOREM ReferenceAuditMatchesRows == Spec => []AuditMatchesRows
  BY ReferenceDataInvariant, PTL DEF IInv

(* Unless a session is cut, a row answered with 201 gets committed.        *)
THEOREM ReferenceCreatedIsStored == Spec => []CreatedIsStored
  BY ReferenceDataInvariant, PTL DEF IInv

(* The script leaves its demo whole or not at all.                         *)
THEOREM ReferenceSeedIsWhole == Spec => []SeedIsWhole
  BY ReferenceDataInvariant, PTL DEF IInv

LEMMA ConflictStep ==
  ASSUME IInv, Next, NEW s \in Session, resp[s] # 409, resp'[s] = 409,
         References(ask[s]) \subseteq CommittedKeys
  PROVE  \E i \in DOMAIN rows : Same(rows[i], ask[s])
  <1>1. RefTypeOK /\ SessionOK(s)
    BY DEF IInv
  <1>2. EmailTaken(s) \/ KeyViolated(s) \/ ReferenceViolated(s)
    <2>1. PICK t \in Session :
            \/ \E q \in Requests :
                 \/ RegisterUser(t, q) \/ CreateAccount(t, q)
                 \/ PostCurrency(t, q) \/ PostExchangeRate(t, q)
            \/ StartSeed(t) \/ Step(t) \/ Cut(t)
      BY DEF Next
    <2>2. ASSUME NEW code, resp' = [resp EXCEPT ![t] = code] PROVE t = s /\ code = 409
      BY <1>1, <2>2 DEF RefTypeOK
    <2>3. CASE \/ \E q \in Requests :
                    \/ RegisterUser(t, q) \/ CreateAccount(t, q)
                    \/ PostCurrency(t, q) \/ PostExchangeRate(t, q)
               \/ StartSeed(t)
      <3>1. resp' = [resp EXCEPT ![t] = 0]
        BY <2>3 DEF RegisterUser, CreateAccount, PostCurrency, PostExchangeRate, StartSeed, Begin
      <3> QED  BY <2>2, <3>1
    <2>4. CASE CheckPasses(t) \/ TakeKey(t) \/ SeedSkips(t) \/ SeedInserts(t)
      BY <2>4 DEF CheckPasses, TakeKey, SeedSkips, SeedInserts
    <2>5. CASE Respond(t)
      BY <2>2, <2>5 DEF Respond
    <2>6. CASE Commit(t) \/ Cut(t)
      <3>1. resp' = [resp EXCEPT ![t] = resp[t]]
        BY <2>6 DEF Commit, Cut, End
      <3> QED  BY <2>2, <3>1
    <2>7. CASE UnknownCurrency(t) \/ DeadlockAborts(t)
      BY <2>2, <2>7 DEF UnknownCurrency, DeadlockAborts, Refuse, End
    <2>8. CASE EmailTaken(t) \/ KeyViolated(t) \/ ReferenceViolated(t)
      <3>1. \E code : resp' = [resp EXCEPT ![t] = code]
        BY <2>8 DEF EmailTaken, KeyViolated, ReferenceViolated, Refuse, End
      <3> QED  BY <2>2, <2>8, <3>1
    <2> QED  BY <2>1, <2>3, <2>4, <2>5, <2>6, <2>7, <2>8 DEF Step
  <1>3. pc[s] \in {"check", "insert"}
    BY <1>2 DEF EmailTaken, KeyViolated, AtKey, ReferenceViolated, Indexed
  <1>4. Row(s).by = "client" /\ Row(s).kind \in {"user", "rate"}
    <2>1. CASE EmailTaken(s)
      BY <2>1 DEF EmailTaken
    <2>2. CASE KeyViolated(s) \/ ReferenceViolated(s)
      <3>1. IntegrityCode(Row(s)) = 409
        BY <1>1, <2>2 DEF KeyViolated, ReferenceViolated, Refuse, End, RefTypeOK
      <3> QED  BY <3>1 DEF IntegrityCode
    <2> QED  BY <1>2, <2>1, <2>2
  <1>5. Row(s) = ask[s] /\ Row(s) \in AnyRow
    BY <1>3, <1>4, AskedBy
  <1>6. ~ ReferenceViolated(s)
    BY <1>5 DEF ReferenceViolated
  <1>7. \E k \in KeysOf(Row(s)) : k \in CommittedKeys
    <2>1. CASE EmailTaken(s)
      <3>1. Row(s).kind = "user" /\ KeysOf(Row(s)) \subseteq CommittedKeys
        BY <2>1 DEF EmailTaken
      <3>2. <<"user", "email", Row(s).email>> \in KeysOf(Row(s))
        BY <1>5, <3>1, KeyCases DEF IsKey
      <3> QED  BY <3>1, <3>2
    <2>2. CASE KeyViolated(s)
      <3>1. taken[s] + 1 \in 1 .. Len(Keys(Row(s)))
        BY <1>1, <1>5, <2>2, KeysAre DEF KeyViolated, AtKey, RefTypeOK
      <3>2. NextKey(s) \in KeysOf(Row(s))
        BY <1>5, <3>1, KeysAre DEF NextKey
      <3> QED  BY <2>2, <3>2 DEF KeyViolated
    <2> QED  BY <1>2, <1>6, <2>1, <2>2
  <1> QED  BY <1>1, <1>4, <1>5, <1>7, CommittedIsRows, SharedKeyMeans

(* "Already registered", "already exists" is said of committed rows only.  *)
THEOREM ReferenceConflictIsTrue == Spec => ConflictIsTrue
  <1>1. IInv /\ [Next]_vars =>
          [\A s \in Session :
             resp[s] # 409 /\ resp'[s] = 409 /\ References(ask[s]) \subseteq CommittedKeys =>
               \E i \in DOMAIN rows : Same(rows[i], ask[s])]_vars
    BY ConflictStep
  <1> QED  BY <1>1, ReferenceDataInvariant, PTL DEF Spec, ConflictIsTrue
=============================================================================
