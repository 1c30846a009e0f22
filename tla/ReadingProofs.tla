---------------------------- MODULE ReadingProofs ----------------------------
(***************************************************************************)
(* How long a token outlives what it says, for any number of users and     *)
(* clients and any lifetime: RevocationWindow, and with it the pages of a  *)
(* list half read.                                                         *)
(*                                                                         *)
(* The window is not inductive by itself.  What makes it so is AuthSound:  *)
(* a log-in holds the row of a moment it has on record and has lasted no   *)
(* longer than LoginTime, so that the token signed from it dates back to   *)
(* that moment.                                                            *)
(***************************************************************************)
EXTENDS Reading, FiniteSetTheorems, TLAPS

Login == [at : {"verify"}, sub : User, row : UserRow, since : Nat]
Token == [sub : User, role : Role, is_active : BOOLEAN, exp : Nat]

AuthTypeOK ==
  /\ now \in Nat
  /\ users \in [User -> UserRow]
  /\ held \subseteq [sub : User, role : Role, at : Nat]
  /\ login \in [Client -> {NoLogin} \cup Login]
  /\ token \in [Client -> {NoToken} \cup Token]

\* The row a log-in has read, if it is active, is on record for when it was read.
LoginSound(l) ==
  /\ l.since <= now /\ now <= l.since + LoginTime
  /\ l.row.is_active => [sub |-> l.sub, role |-> l.row.role, at |-> l.since] \in held

\* What an active token says was so at most a lifetime and a log-in before its expiry.
TokenSound(t) ==
  t.is_active =>
    \E h \in held : h.sub = t.sub /\ h.role = t.role /\ t.exp <= h.at + LoginTime + Lifetime

AuthSound ==
  /\ Granted(users, now) \subseteq held
  /\ \A c \in Client : login[c] # NoLogin => LoginSound(login[c])
  /\ \A c \in Client : token[c] # NoToken => TokenSound(token[c])

IInv == AuthTypeOK /\ AuthSound

USE AuthAssumption

-----------------------------------------------------------------------------
LEMMA GrantedType ==
  ASSUME NEW rows \in [User -> UserRow], NEW at \in Nat
  PROVE  Granted(rows, at) \subseteq [sub : User, role : Role, at : Nat]
  BY DEF Granted, UserRow

LEMMA InitIInv == AuthInit => IInv
  <1> SUFFICES ASSUME AuthInit PROVE IInv
    OBVIOUS
  <1>1. AuthTypeOK
    BY GrantedType DEF AuthInit, AuthTypeOK
  <1>2. AuthSound
    BY DEF AuthInit, AuthSound
  <1> QED  BY <1>1, <1>2 DEF IInv

(* Nobody's log-in and nobody's token is touched while the record grows.   *)
LEMMA RecordGrows ==
  ASSUME IInv, held \subseteq held', UNCHANGED token
  PROVE  \A c \in Client : token'[c] # NoToken => TokenSound(token[c])'
  BY DEF IInv, AuthSound, TokenSound

LEMMA TickIInv == IInv /\ Tick => IInv'
  <1> SUFFICES ASSUME IInv, Tick PROVE IInv'
    OBVIOUS
  <1> USE DEF IInv, Tick
  <1>1. now + 1 \in Nat /\ held \subseteq held'
    BY DEF AuthTypeOK
  <1>2. AuthTypeOK'
    BY <1>1, GrantedType DEF AuthTypeOK
  <1>3. Granted(users, now)' \subseteq held'
    BY DEF Granted
  <1>4. ASSUME NEW c \in Client, login'[c] # NoLogin PROVE LoginSound(login[c])'
    <2>1. login[c] \in Login /\ login[c] # NoLogin /\ login'[c] = login[c]
      BY <1>4 DEF AuthTypeOK
    <2>2. LoginSound(login[c]) /\ now < login[c].since + LoginTime
      BY <2>1 DEF AuthSound
    <2>3. login[c].since \in Nat /\ now \in Nat
      BY <2>1 DEF Login, AuthTypeOK
    <2> QED  BY <1>1, <2>1, <2>2, <2>3 DEF LoginSound
  <1>5. \A c \in Client : token'[c] # NoToken => TokenSound(token[c])'
    BY <1>1, RecordGrows
  <1> QED  BY <1>2, <1>3, <1>4, <1>5 DEF AuthSound

LEMMA ChangeUserIInv ==
  ASSUME NEW u \in User, NEW row \in UserRow, IInv, ChangeUser(u, row)
  PROVE  IInv'
  <1> USE DEF IInv, ChangeUser
  <1>1. held \subseteq held' /\ users' \in [User -> UserRow]
    BY DEF AuthTypeOK
  <1>2. AuthTypeOK'
    BY <1>1, GrantedType DEF AuthTypeOK
  <1>3. Granted(users, now)' \subseteq held'
    BY DEF Granted
  <1>4. \A c \in Client : login'[c] # NoLogin => LoginSound(login[c])'
    BY <1>1 DEF AuthSound, LoginSound
  <1>5. \A c \in Client : token'[c] # NoToken => TokenSound(token[c])'
    BY <1>1, RecordGrows
  <1> QED  BY <1>2, <1>3, <1>4, <1>5 DEF AuthSound

LEMMA FindUserIInv ==
  ASSUME NEW c \in Client, NEW u \in User, IInv, FindUser(c, u)
  PROVE  IInv'
  <1> DEFINE read == [at |-> "verify", sub |-> u, row |-> users[u], since |-> now]
  <1> USE DEF IInv, FindUser
  <1>1. read \in Login
    BY DEF AuthTypeOK, Login
  <1>2. AuthTypeOK'
    BY <1>1 DEF AuthTypeOK
  <1>3. Granted(users, now)' \subseteq held'
    BY DEF AuthSound, Granted
  <1>4. LoginSound(read)'
    <2>1. users[u].is_active => [sub |-> u, role |-> users[u].role, at |-> now] \in Granted(users, now)
      BY DEF Granted
    <2>2. now \in Nat
      BY DEF AuthTypeOK
    <2> QED  BY <2>1, <2>2 DEF LoginSound, AuthSound
  <1>5. login'[c] = read /\ \A d \in Client \ {c} : login'[d] = login[d]
    BY DEF AuthTypeOK
  <1>6. \A d \in Client : login'[d] # NoLogin => LoginSound(login[d])'
    BY <1>4, <1>5 DEF AuthSound, LoginSound
  <1>7. \A d \in Client : token'[d] # NoToken => TokenSound(token[d])'
    BY RecordGrows
  <1> QED  BY <1>2, <1>3, <1>6, <1>7 DEF AuthSound

LEMMA LoginFailsIInv ==
  ASSUME NEW c \in Client, IInv, LoginFails(c)
  PROVE  IInv'
  <1> USE DEF IInv, LoginFails
  <1>1. AuthTypeOK'
    BY DEF AuthTypeOK
  <1>2. Granted(users, now)' \subseteq held'
    BY DEF AuthSound, Granted
  <1>3. \A d \in Client : login'[d] # NoLogin => LoginSound(login[d])'
    BY DEF AuthTypeOK, AuthSound, LoginSound
  <1>4. \A d \in Client : token'[d] # NoToken => TokenSound(token[d])'
    BY RecordGrows
  <1> QED  BY <1>1, <1>2, <1>3, <1>4 DEF AuthSound

LEMMA IssueTokenIInv ==
  ASSUME NEW c \in Client, IInv, IssueToken(c)
  PROVE  IInv'
  <1> DEFINE l == login[c]
             signed == AccessToken(l.sub, l.row, l.row.is_active)
  <1> USE DEF IInv, IssueToken
  <1>1. l \in Login /\ LoginSound(l) /\ now \in Nat
    BY DEF AuthTypeOK, AuthSound
  <1>2. signed \in Token
    BY <1>1 DEF AccessToken, Token, Login, UserRow
  <1>3. /\ token'[c] = signed /\ \A d \in Client \ {c} : token'[d] = token[d]
        /\ login'[c] = NoLogin /\ \A d \in Client \ {c} : login'[d] = login[d]
    BY DEF AuthTypeOK
  <1>4. AuthTypeOK'
    BY <1>2 DEF AuthTypeOK
  <1>5. Granted(users, now)' \subseteq held'
    BY DEF AuthSound, Granted
  <1>6. \A d \in Client : login'[d] # NoLogin => LoginSound(login[d])'
    BY <1>3 DEF AuthSound, LoginSound
  <1>7. TokenSound(signed)
    <2> SUFFICES ASSUME l.row.is_active PROVE TokenSound(signed)
      BY DEF TokenSound, AccessToken
    <2> DEFINE h == [sub |-> l.sub, role |-> l.row.role, at |-> l.since]
    <2>1. h \in held
      BY <1>1 DEF LoginSound
    <2>2. signed.exp = now + Lifetime /\ signed.sub = h.sub /\ signed.role = h.role
      BY DEF AccessToken
    <2>3. now <= h.at + LoginTime /\ h.at \in Nat
      BY <1>1 DEF LoginSound, Login
    <2>4. now + Lifetime <= h.at + LoginTime + Lifetime
      <3> HIDE DEF h
      <3> QED  BY <1>1, <2>3
    <2> QED  BY <2>1, <2>2, <2>4 DEF TokenSound, AccessToken
  <1>8. \A d \in Client : token'[d] # NoToken => TokenSound(token[d])'
    BY <1>3, <1>7 DEF AuthSound, TokenSound
  <1> QED  BY <1>4, <1>5, <1>6, <1>8 DEF AuthSound

LEMMA NextIInv == IInv /\ [Next]_vars => IInv'
  <1> SUFFICES ASSUME IInv, [Next]_vars PROVE IInv'
    OBVIOUS
  <1>1. CASE AuthStep
    BY <1>1, TickIInv, ChangeUserIInv, FindUserIInv, LoginFailsIInv, IssueTokenIInv DEF AuthStep
  <1>2. CASE UNCHANGED authVars
    BY <1>2 DEF authVars, IInv, AuthTypeOK, AuthSound, Granted, LoginSound, TokenSound
  <1> QED  BY <1>1, <1>2 DEF Next, Start, Serve, Refuse, vars

-----------------------------------------------------------------------------
(* Types of the clock, the users, the log-ins and the tokens, and what ties*)
(* every token to a moment its user was active (create_access_token).      *)
THEOREM AuthInvariant == Spec => []IInv
  <1>1. Init => IInv
    BY InitIInv DEF Init
  <1> QED  BY <1>1, NextIInv, PTL DEF Spec

(* What lets a client through was so within the window.                    *)
LEMMA WindowOfToken ==
  ASSUME IInv, NEW c \in Client, NEW roles, Admitted(token[c], roles)
  PROVE  \E h \in held :
           h.sub = token[c].sub /\ h.role \in roles /\ h.at > now - Lifetime - LoginTime
  <1>1. token[c] # NoToken /\ token[c].is_active /\ now < token[c].exp /\ token[c].role \in roles
    BY DEF Admitted, Authenticated
  <1>2. PICK h \in held : /\ h.sub = token[c].sub /\ h.role = token[c].role
                          /\ token[c].exp <= h.at + LoginTime + Lifetime
    BY <1>1 DEF IInv, AuthSound, TokenSound
  <1>3. token[c].exp \in Nat /\ now \in Nat /\ h.at \in Nat
    BY <1>1 DEF IInv, AuthTypeOK, Token
  <1>4. h.at > now - Lifetime - LoginTime
    BY <1>1, <1>2, <1>3
  <1> QED  BY <1>1, <1>2, <1>4

(* A deactivation, or the loss of a role, bites after at most the lifetime *)
(* of a token and the time of a log-in (get_current_user, require_admin).  *)
THEOREM ReadingRevocationWindow == Spec => []RevocationWindow
  <1>1. IInv => RevocationWindow
    BY WindowOfToken DEF RevocationWindow
  <1> QED  BY <1>1, AuthInvariant, PTL

(* Every page of a list is served within that window, also the later ones  *)
(* of a reading begun long before.                                         *)
THEOREM ReadingPagesForEntitled == Spec => PagesForEntitled
  <1> DEFINE Entitled(list) ==
        \E h \in held :
          /\ h.sub = token[Reader].sub /\ h.role \in Roles(list)
          /\ h.at > now - Lifetime - LoginTime
      Page == \A list \in List :
                walk.at = "reading" /\ walk.list = list /\ walk' # walk => Entitled(list)
  <1>1. IInv /\ [Next]_vars => [Page]_vars
    <2> SUFFICES ASSUME IInv, Next, NEW list \in List,
                        walk.at = "reading", walk.list = list, walk' # walk
                 PROVE  Entitled(list)
      OBVIOUS
    <2>1. Serve
      <3>1. walk # NoWalk
        BY DEF NoWalk
      <3> QED  BY <3>1 DEF Next, Start, StartWalk, Post, Void, Refuse, vars, listVars
    <2> QED  BY <2>1, WindowOfToken, ReadingAssumption DEF Serve
  <1> QED  BY <1>1, AuthInvariant, PTL DEF Spec, PagesForEntitled

-----------------------------------------------------------------------------
(* The pages.  rank: the rows of a list a row comes behind.  A row that was*)
(* there when the reading began and has not been shown is behind at least  *)
(* as many rows as the client will skip, or ties with another.             *)
Rank(list, rows, x) == {y \in rows : Before(list, y, x)}

Tied(list, rows, x) ==
  \E y \in rows \ {x} : ~ Before(list, x, y) /\ ~ Before(list, y, x)

LEMMA HeadIs ==
  ASSUME NEW list, NEW rows, IsFiniteSet(rows), NEW n \in Nat,
         NEW h \in Heads(list, rows, n)
  PROVE  /\ h \subseteq rows /\ IsFiniteSet(h) /\ Cardinality(h) \in Nat
         /\ Cardinality(h) <= n
         /\ h # rows => Cardinality(h) = n
         /\ \A x \in h, y \in rows \ h : ~ Before(list, y, x)
  <1> DEFINE size == IF n < Cardinality(rows) THEN n ELSE Cardinality(rows)
  <1>1. /\ h \subseteq rows /\ Cardinality(h) = size
        /\ \A x \in h, y \in rows \ h : ~ Before(list, y, x)
    BY DEF Heads, kSubset
  <1>2. /\ IsFiniteSet(h)
        /\ Cardinality(h) = Cardinality(rows) => h = rows
    BY <1>1, FS_Subset
  <1>3. Cardinality(h) \in Nat /\ Cardinality(rows) \in Nat
    BY <1>2, FS_CardinalityType
  <1>4. Cardinality(h) <= n /\ (h # rows => Cardinality(h) = n)
    BY <1>1, <1>2, <1>3
  <1> QED  BY <1>1, <1>2, <1>3, <1>4

(* No row of lower rank than the offset is left, and a row that is not on  *)
(* the page has a rank beyond it: the page was full.                       *)
LEMMA PageMoves ==
  ASSUME NEW list, NEW rows, IsFiniteSet(rows), NEW offset \in Nat,
         NEW page \in Pages(list, rows, offset), NEW x \in rows \ page,
         ~ Before(list, x, x), ~ Tied(list, rows, x),
         offset <= Cardinality(Rank(list, rows, x))
  PROVE  /\ offset + Limit <= Cardinality(Rank(list, rows, x))
         /\ ~ (Cardinality(page) < Limit)
  <1> DEFINE R == Rank(list, rows, x)
  <1>1. PICK h1 \in Heads(list, rows, offset), h2 \in Heads(list, rows, offset + Limit) :
          h1 \subseteq h2 /\ page = h2 \ h1
    BY DEF Pages
  <1>2. Limit \in Nat /\ offset + Limit \in Nat
    BY ListingAssumption
  <1>3. /\ h1 \subseteq rows /\ IsFiniteSet(h1) /\ Cardinality(h1) \in Nat
        /\ Cardinality(h1) <= offset
        /\ \A z \in h1, y \in rows \ h1 : ~ Before(list, y, z)
    BY HeadIs
  <1>4. /\ h2 \subseteq rows /\ IsFiniteSet(h2) /\ Cardinality(h2) \in Nat
        /\ h2 # rows => Cardinality(h2) = offset + Limit
        /\ \A z \in h2, y \in rows \ h2 : ~ Before(list, y, z)
    BY <1>2, HeadIs
  <1>5. IsFiniteSet(R) /\ Cardinality(R) \in Nat
    BY FS_Subset, FS_CardinalityType DEF Rank
  <1>6. x \notin h1
    <2> SUFFICES ASSUME x \in h1 PROVE FALSE
      OBVIOUS
    <2>1. R \subseteq h1 \ {x}
      BY <1>3 DEF Rank
    <2>2. IsFiniteSet(h1 \ {x}) /\ Cardinality(h1 \ {x}) = Cardinality(h1) - 1
      BY <1>3, FS_RemoveElement
    <2>3. Cardinality(R) <= Cardinality(h1 \ {x})
      BY <2>1, <2>2, FS_Subset
    <2> HIDE DEF R
    <2> QED  BY <1>3, <1>5, <2>2, <2>3 DEF R
  <1>7. h2 \subseteq R /\ h2 # rows
    BY <1>1, <1>4, <1>6 DEF Rank, Tied
  <1>8. Cardinality(h2) = offset + Limit /\ Cardinality(h2) <= Cardinality(R)
    BY <1>4, <1>5, <1>7, FS_Subset
  <1>9. ~ (Cardinality(page) < Limit)
    <2>1. IsFiniteSet(page) /\ Cardinality(page) \in Nat
      BY <1>1, <1>4, FS_Subset, FS_CardinalityType
    <2>2. h2 = page \cup h1 /\ page \cap h1 = {}
      BY <1>1
    <2>3. Cardinality(h2) = Cardinality(page) + Cardinality(h1) - Cardinality(page \cap h1)
      BY <1>3, <2>1, <2>2, FS_Union
    <2>4. Cardinality(page \cap h1) = 0
      BY <2>2, FS_EmptySet
    <2> QED  BY <1>2, <1>3, <1>8, <2>1, <2>3, <2>4
  <1> QED  BY <1>8, <1>9

-----------------------------------------------------------------------------
(* The tables.  A void began after the COMMIT of what it reverses.         *)
CommitRow == [id : TxId, date : Date, created : Nat, posted : Nat, of : TxId \cup {0}]

CommitsSound ==
  /\ commits \in Seq(CommitRow)
  /\ \A i, j \in DOMAIN commits : i # j => commits[i].id # commits[j].id
  /\ \A i \in DOMAIN commits :
       /\ commits[i].created < i
       /\ commits[i].of # 0 =>
            \E j \in 1 .. commits[i].created : commits[j].id = commits[i].of

LEMMA AddSound ==
  ASSUME CommitsSound, NEW first \in Nat, NEW date \in Date, NEW of \in TxId \cup {0},
         of # 0 => \E j \in DOMAIN commits : j <= first /\ commits[j].id = of,
         AddTransaction(first, date, of)
  PROVE  /\ CommitsSound'
         /\ \E t \in CommitRow : commits' = Append(commits, t)
  <1>1. PICK id \in TxId \ Used, created \in first .. Len(commits) :
          \E posted \in created .. Len(commits) :
            commits' = Append(commits, [id |-> id, date |-> date, created |-> created,
                                        posted |-> posted, of |-> of])
    BY DEF AddTransaction
  <1>2. PICK posted \in created .. Len(commits) :
          commits' = Append(commits, [id |-> id, date |-> date, created |-> created,
                                      posted |-> posted, of |-> of])
    BY <1>1
  <1> DEFINE t == [id |-> id, date |-> date, created |-> created, posted |-> posted, of |-> of]
             n == Len(commits)
  <1>3. commits \in Seq(CommitRow) /\ n \in Nat /\ created \in Nat /\ posted \in Nat
    BY DEF CommitsSound
  <1>4. t \in CommitRow
    BY <1>3 DEF CommitRow
  <1>5. /\ commits' \in Seq(CommitRow) /\ DOMAIN commits' = 1 .. n + 1 /\ DOMAIN commits = 1 .. n
        /\ commits'[n + 1] = t /\ \A i \in 1 .. n : commits'[i] = commits[i]
    BY <1>2, <1>3, <1>4
  <1>6. /\ t.id = id /\ t.created = created /\ t.of = of
        /\ created <= n /\ first <= created
    BY <1>3
  <1> HIDE DEF t, n
  <1>7. \A i \in 1 .. n : commits[i].id # t.id
    BY <1>5, <1>6 DEF Used
  <1>8. \A i, j \in DOMAIN commits' : i # j => commits'[i].id # commits'[j].id
    BY <1>3, <1>5, <1>7 DEF CommitsSound
  <1>9. ASSUME NEW i \in DOMAIN commits'
        PROVE  /\ commits'[i].created < i
               /\ commits'[i].of # 0 =>
                    \E j \in 1 .. commits'[i].created : commits'[j].id = commits'[i].of
    <2>1. CASE i = n + 1
      <3>1. commits'[i] = t /\ t.created < i
        BY <1>3, <1>5, <1>6, <2>1
      <3>2. ASSUME commits'[i].of # 0
            PROVE  \E j \in 1 .. commits'[i].created : commits'[j].id = commits'[i].of
        <4>1. PICK j \in DOMAIN commits : j <= first /\ commits[j].id = of
          BY <1>6, <3>1, <3>2
        <4>2. j \in 1 .. n /\ j \in 1 .. created
          BY <1>3, <1>5, <1>6, <4>1
        <4> QED  BY <1>5, <1>6, <3>1, <4>1, <4>2
      <3> QED  BY <3>1, <3>2
    <2>2. CASE i \in 1 .. n
      <3>1. commits'[i] = commits[i] /\ commits[i] \in CommitRow
        BY <1>3, <1>5, <2>2
      <3>2. commits[i].created < i /\ commits[i].created \in Nat
        BY <1>5, <2>2, <3>1 DEF CommitsSound, CommitRow
      <3>3. \A j \in 1 .. commits[i].created : commits'[j] = commits[j]
        BY <1>3, <1>5, <2>2, <3>2
      <3> QED  BY <1>5, <2>2, <3>1, <3>2, <3>3 DEF CommitsSound
    <2> QED  BY <1>3, <1>5, <2>1, <2>2
  <1> QED  BY <1>2, <1>4, <1>5, <1>8, <1>9 DEF CommitsSound, t

LEMMA WriteSound ==
  ASSUME CommitsSound, Post \/ Void
  PROVE  /\ CommitsSound' /\ UNCHANGED walk
         /\ \E t \in CommitRow : commits' = Append(commits, t)
  <1>1. CASE Post
    BY <1>1, AddSound DEF Post
  <1>2. CASE Void
    <2>1. PICK i \in DOMAIN commits : AddTransaction(i, commits[i].date, commits[i].id)
      BY <1>2 DEF Void
    <2>2. i \in Nat /\ commits[i].date \in Date /\ commits[i].id \in TxId
      <3>1. DOMAIN commits = 1 .. Len(commits) /\ Len(commits) \in Nat /\ commits[i] \in CommitRow
        BY DEF CommitsSound
      <3> QED  BY <3>1 DEF CommitRow
    <2> QED  BY <1>2, <2>1, <2>2, AddSound DEF Void
  <1> QED  BY <1>1, <1>2

(* What one transaction adds to a list.                                    *)
EntryRows(t) == {[id |-> e, key |-> TxKey(t)] : e \in EntryIds[t.id]}

RowsOf(list, filter, t) ==
  CASE list = "transactions" -> {[id |-> t.id, key |-> TxKey(t)]}
    [] list = "ledger" -> IF t.date >= filter THEN EntryRows(t) ELSE {}
    [] list = "audit_logs" ->
         {[id |-> r.id, key |-> <<r.created, 0>>] : r \in {q \in AuditRows(t) : filter \in {0, q.entity}}}

LEMMA SelectedAre ==
  ASSUME NEW list \in List, NEW filter, NEW x
  PROVE  x \in Selected(list, filter) <=> \E i \in DOMAIN commits : x \in RowsOf(list, filter, commits[i])
  <1>1. CASE list = "transactions"
    BY <1>1 DEF Selected, RowsOf, Transactions
  <1>2. CASE list = "ledger"
    BY <1>2 DEF Selected, RowsOf, Transactions, EntryRows
  <1>3. CASE list = "audit_logs"
    BY <1>3 DEF Selected, RowsOf, Transactions
  <1> QED  BY <1>1, <1>2, <1>3 DEF List

LEMMA SelectedGrows ==
  ASSUME CommitsSound, NEW t \in CommitRow, commits' = Append(commits, t),
         NEW list \in List, NEW filter
  PROVE  Selected(list, filter)' = Selected(list, filter) \cup RowsOf(list, filter, t)
  <1>1. /\ DOMAIN commits' = 1 .. Len(commits) + 1 /\ DOMAIN commits = 1 .. Len(commits)
        /\ commits'[Len(commits) + 1] = t /\ Len(commits) \in Nat
        /\ \A i \in 1 .. Len(commits) : commits'[i] = commits[i]
    BY DEF CommitsSound
  <1>2. ASSUME NEW x
        PROVE  x \in Selected(list, filter)' <=>
                 x \in Selected(list, filter) \/ x \in RowsOf(list, filter, t)
    <2>1. x \in Selected(list, filter)' <=>
            \E i \in DOMAIN commits' : x \in RowsOf(list, filter, commits'[i])
      <3>1. CASE list = "transactions"
        BY <3>1 DEF Selected, RowsOf, Transactions
      <3>2. CASE list = "ledger"
        BY <3>2 DEF Selected, RowsOf, Transactions, EntryRows
      <3>3. CASE list = "audit_logs"
        BY <3>3 DEF Selected, RowsOf, Transactions
      <3> QED  BY <3>1, <3>2, <3>3 DEF List
    <2>2. (\E i \in DOMAIN commits' : x \in RowsOf(list, filter, commits'[i])) <=>
            \/ \E i \in DOMAIN commits : x \in RowsOf(list, filter, commits[i])
            \/ x \in RowsOf(list, filter, t)
      BY <1>1
    <2> QED  BY <2>1, <2>2, SelectedAre
  <1> QED  BY <1>2

(* Rows have an id and two numbers to order by; in the lists of            *)
(* transactions and entries the id is a number too.                        *)
ListRow(id) == [id : id, key : Nat \X Nat]
AnyId == Nat \cup (TxId \X {"create", "void"})

LEMMA EntryRowsFinite ==
  ASSUME NEW t \in CommitRow
  PROVE  IsFiniteSet(EntryRows(t))
  <1> DEFINE f == [e \in EntryIds[t.id] |-> [id |-> e, key |-> TxKey(t)]]
  <1>1. IsFiniteSet(EntryIds[t.id])
    BY ListingAssumption DEF CommitRow
  <1>2. f \in Surjection(EntryIds[t.id], EntryRows(t))
    BY DEF Surjection, EntryRows
  <1> QED  BY <1>1, <1>2, FS_Surjection

LEMMA RowsOfType ==
  ASSUME NEW t \in CommitRow, NEW list \in List, NEW filter
  PROVE  /\ IsFiniteSet(RowsOf(list, filter, t))
         /\ RowsOf(list, filter, t) \subseteq ListRow(AnyId)
         /\ list # "audit_logs" => RowsOf(list, filter, t) \subseteq ListRow(Nat)
  <1>1. /\ t.id \in TxId /\ t.id \in Nat /\ t.of \in TxId \cup {0} /\ t.created \in Nat
        /\ TxKey(t) \in Nat \X Nat /\ EntryIds[t.id] \subseteq Nat
    BY ListingAssumption DEF CommitRow, TxKey
  <1>2. CASE list = "transactions"
    <2>1. RowsOf(list, filter, t) = {[id |-> t.id, key |-> TxKey(t)]}
      BY <1>2 DEF RowsOf
    <2>2. [id |-> t.id, key |-> TxKey(t)] \in ListRow(Nat) \cap ListRow(AnyId)
      BY <1>1 DEF ListRow, AnyId
    <2>3. IsFiniteSet(RowsOf(list, filter, t))
      <3> DEFINE row == [id |-> t.id, key |-> TxKey(t)]
      <3>1. RowsOf(list, filter, t) = {row}
        BY <2>1
      <3> HIDE DEF row
      <3> QED  BY <3>1, FS_Singleton
    <2> QED  BY <2>1, <2>2, <2>3
  <1>3. CASE list = "ledger"
    <2>1. RowsOf(list, filter, t) \subseteq EntryRows(t)
      BY <1>3 DEF RowsOf
    <2>2. EntryRows(t) \subseteq ListRow(Nat) /\ EntryRows(t) \subseteq ListRow(AnyId)
      BY <1>1 DEF EntryRows, ListRow, AnyId
    <2>3. IsFiniteSet(RowsOf(list, filter, t))
      BY <2>1, EntryRowsFinite, FS_Subset
    <2> QED  BY <1>3, <2>1, <2>2, <2>3
  <1>4. CASE list = "audit_logs"
    <2> DEFINE create == [id |-> <<t.id, "create">>, key |-> <<t.created, 0>>]
               void == [id |-> <<t.of, "void">>, key |-> <<t.created, 0>>]
    <2>1. RowsOf(list, filter, t) \subseteq {create, void}
      BY <1>4 DEF RowsOf, AuditRows
    <2>2. IsFiniteSet({create, void})
      <3> HIDE DEF create, void
      <3>1. IsFiniteSet({create}) /\ {create, void} = {create} \cup {void}
        BY FS_Singleton
      <3>2. IsFiniteSet({create} \cup {void})
        BY <3>1, FS_AddElement
      <3> QED  BY <3>1, <3>2
    <2>3. RowsOf(list, filter, t) \subseteq ListRow(AnyId)
      <3>1. create \in ListRow(AnyId)
        BY <1>1 DEF ListRow, AnyId
      <3>2. CASE t.of = 0
        <4>1. RowsOf(list, filter, t) \subseteq {create}
          BY <1>4, <3>2 DEF RowsOf, AuditRows
        <4> QED  BY <3>1, <4>1
      <3>3. CASE t.of \in TxId
        <4>1. void \in ListRow(AnyId)
          BY <1>1, <3>3 DEF ListRow, AnyId
        <4> QED  BY <2>1, <3>1, <4>1
      <3> QED  BY <1>1, <3>2, <3>3
    <2> QED  BY <1>4, <2>1, <2>2, <2>3, FS_Subset
  <1> QED  BY <1>2, <1>3, <1>4 DEF List

ListsFinite ==
  \A list \in List : \A filter \in Filters(list) : IsFiniteSet(Selected(list, filter))

LEMMA ListsFiniteStep ==
  ASSUME CommitsSound, ListsFinite, NEW t \in CommitRow, commits' = Append(commits, t)
  PROVE  ListsFinite'
  <1> SUFFICES ASSUME NEW list \in List, NEW filter \in Filters(list)
               PROVE  IsFiniteSet(Selected(list, filter)')
    BY DEF ListsFinite, Filters
  <1>1. IsFiniteSet(Selected(list, filter)) /\ IsFiniteSet(RowsOf(list, filter, t))
    BY RowsOfType DEF ListsFinite
  <1>2. Selected(list, filter)' = Selected(list, filter) \cup RowsOf(list, filter, t)
    BY SelectedGrows
  <1>3. IsFiniteSet(Selected(list, filter) \cup RowsOf(list, filter, t))
    BY <1>1, FS_Union
  <1> QED  BY <1>2, <1>3

LEMMA SelectedType ==
  ASSUME CommitsSound, NEW list \in List, NEW filter
  PROVE  /\ Selected(list, filter) \subseteq ListRow(AnyId)
         /\ list # "audit_logs" => Selected(list, filter) \subseteq ListRow(Nat)
  <1>1. \A i \in DOMAIN commits : commits[i] \in CommitRow
    BY DEF CommitsSound
  <1> QED  BY <1>1, SelectedAre, RowsOfType

(* No order puts a row before itself, and those with the id last leave no  *)
(* tie.                                                                    *)
LEMMA OrderOfRows ==
  ASSUME CommitsSound, NEW list \in List, NEW filter, NEW x \in Selected(list, filter)
  PROVE  /\ ~ Before(list, x, x)
         /\ list # "audit_logs" => ~ Tied(list, Selected(list, filter), x)
         /\ Tied(list, Selected(list, filter), x) =>
              \E y \in Selected(list, filter) : y # x /\ y.key = x.key
  <1>1. x \in ListRow(AnyId) /\ x.key \in Nat \X Nat
    BY SelectedType DEF ListRow
  <1>2. ~ Before(list, x, x)
    <2>1. ~ Later(x.key, x.key)
      BY <1>1 DEF Later
    <2>2. list # "audit_logs" => x.id \in Nat
      BY SelectedType DEF ListRow
    <2> QED  BY <2>1, <2>2 DEF Before
  <1>3. ASSUME NEW y \in Selected(list, filter) \ {x},
               ~ Before(list, x, y), ~ Before(list, y, x)
        PROVE  y.key = x.key /\ list = "audit_logs"
    <2>1. y \in ListRow(AnyId) /\ y.key \in Nat \X Nat
      BY SelectedType DEF ListRow
    <2>2. ~ Later(x.key, y.key) /\ ~ Later(y.key, x.key)
      BY <1>3 DEF Before
    <2>3. y.key = x.key
      BY <1>1, <2>1, <2>2 DEF Later
    <2>4. ASSUME list # "audit_logs" PROVE FALSE
      <3>1. x \in ListRow(Nat) /\ y \in ListRow(Nat)
        BY <2>4, SelectedType
      <3>2. x.id \in Nat /\ y.id \in Nat /\ x.id # y.id
        BY <2>3, <3>1 DEF ListRow
      <3> QED  BY <1>3, <2>3, <2>4, <3>2 DEF Before
    <2> QED  BY <2>3, <2>4
  <1> QED  BY <1>2, <1>3 DEF Tied

-----------------------------------------------------------------------------
(* The reading.                                                            *)
Walk(w) ==
  /\ w = [at |-> w.at, list |-> w.list, filter |-> w.filter, offset |-> w.offset,
          begun |-> w.begun, seen |-> w.seen]
  /\ w.at \in {"reading", "done"} /\ w.list \in List /\ w.filter \in Filters(w.list)
  /\ w.offset \in Nat

\* What is on the client's list now.
Current == Selected(walk.list, walk.filter)

\* Row x, not yet shown, is still ahead of the client or in a tie.
Ahead(x) ==
  \/ Tied(walk.list, Current, x)
  \/ walk.at = "reading" /\ walk.offset <= Cardinality(Rank(walk.list, Current, x))

WalkSound ==
  walk # NoWalk => Walk(walk) /\ walk.begun \subseteq Current /\ \A x \in Missed : Ahead(x)

ListInv == CommitsSound /\ ListsFinite /\ WalkSound

LEMMA TablesStay ==
  ASSUME CommitsSound, ListsFinite, UNCHANGED commits
  PROVE  /\ CommitsSound' /\ ListsFinite'
         /\ \A list, filter : Selected(list, filter)' = Selected(list, filter)
  <1>1. \A list, filter : Selected(list, filter)' = Selected(list, filter)
    BY DEF Selected, Transactions
  <1>2. ListsFinite'
    BY <1>1 DEF ListsFinite, Filters
  <1> QED  BY <1>1, <1>2 DEF CommitsSound

LEMMA ListInitInv == ListInit => ListInv
  <1> SUFFICES ASSUME ListInit PROVE ListInv
    OBVIOUS
  <1>1. CommitsSound
    BY DEF ListInit, CommitsSound
  <1>2. ASSUME NEW list \in List, NEW filter PROVE Selected(list, filter) = {}
    BY SelectedAre DEF ListInit
  <1>3. ListsFinite
    BY <1>2, FS_EmptySet DEF ListsFinite
  <1> QED  BY <1>1, <1>3 DEF ListInv, WalkSound, ListInit

(* Posts and voids only add rows: a rank never falls, a tie stays a tie.   *)
LEMMA WriteKeeps ==
  ASSUME ListInv, Post \/ Void
  PROVE  ListInv'
  <1>1. PICK t \in CommitRow : commits' = Append(commits, t)
    BY WriteSound DEF ListInv
  <1>2. CommitsSound' /\ walk' = walk /\ CommitsSound /\ ListsFinite /\ WalkSound
    BY WriteSound DEF ListInv
  <1>3. ListsFinite'
    BY <1>1, <1>2, ListsFiniteStep
  <1>4. WalkSound'
    <2> SUFFICES ASSUME walk # NoWalk
                 PROVE  walk.begun \subseteq Current' /\ \A x \in Missed : Ahead(x)'
      BY <1>2 DEF WalkSound, Missed
    <2>1. /\ Walk(walk) /\ walk.begun \subseteq Current /\ \A x \in Missed : Ahead(x)
          /\ walk.list \in List /\ walk.filter \in Filters(walk.list)
      BY <1>2 DEF WalkSound, Walk
    <2>2. Current \subseteq Current' /\ IsFiniteSet(Current')
      <3>1. Current' = Selected(walk.list, walk.filter)'
        BY <1>2 DEF Current
      <3>2. Selected(walk.list, walk.filter)' = Selected(walk.list, walk.filter) \cup RowsOf(walk.list, walk.filter, t)
        BY <1>1, <1>2, <2>1, SelectedGrows
      <3>3. IsFiniteSet(Selected(walk.list, walk.filter)')
        BY <1>2, <1>3, <2>1 DEF ListsFinite
      <3> QED  BY <3>1, <3>2, <3>3 DEF Current
    <2>3. ASSUME NEW x \in Missed PROVE Ahead(x)'
      <3>1. CASE Tied(walk.list, Current, x)
        BY <1>2, <2>2, <3>1 DEF Ahead, Tied
      <3>2. CASE /\ walk.at = "reading"
                 /\ walk.offset <= Cardinality(Rank(walk.list, Current, x))
        <4> DEFINE R == Rank(walk.list, Current, x)
                   R2 == Rank(walk.list, Current', x)
        <4>1. R \subseteq R2 /\ R2 \subseteq Current'
          BY <2>2 DEF Rank
        <4>2. IsFiniteSet(R2) /\ Cardinality(R2) \in Nat
          BY <2>2, <4>1, FS_Subset, FS_CardinalityType
        <4>3. IsFiniteSet(R) /\ Cardinality(R) \in Nat /\ Cardinality(R) <= Cardinality(R2)
          BY <4>1, <4>2, FS_Subset, FS_CardinalityType
        <4>4. walk.offset \in Nat
          BY <2>1 DEF Walk
        <4>5. walk.offset <= Cardinality(R2)
          <5> HIDE DEF R2
          <5> QED  BY <3>2, <4>2, <4>3, <4>4
        <4> QED  BY <1>2, <3>2, <4>5 DEF Ahead, Rank
      <3> QED  BY <2>1, <3>1, <3>2 DEF Ahead
    <2> QED  BY <2>1, <2>2, <2>3
  <1> QED  BY <1>2, <1>3, <1>4 DEF ListInv

(* list_logs, list_entries and list_all at the next offset: a row that is  *)
(* ahead is on the page or stays ahead.                                    *)
LEMMA PageKeeps ==
  ASSUME ListInv, GetPage
  PROVE  ListInv'
  <1>1. CommitsSound /\ ListsFinite /\ WalkSound /\ commits' = commits
    BY DEF ListInv, GetPage
  <1>2. walk # NoWalk /\ walk.at = "reading"
    BY DEF GetPage, NoWalk
  <1>3. Walk(walk) /\ walk.begun \subseteq Current /\ \A x \in Missed : Ahead(x)
    BY <1>1, <1>2 DEF WalkSound
  <1>4. PICK page \in Pages(walk.list, Current, walk.offset) :
          walk' = [walk EXCEPT !.seen = @ \cup page, !.offset = @ + Limit,
                               !.at = IF Cardinality(page) < Limit THEN "done" ELSE "reading"]
    BY DEF GetPage, Current
  <1>5. /\ walk.list \in List /\ walk.filter \in Filters(walk.list) /\ walk.offset \in Nat
        /\ Limit \in Nat
    BY <1>3, ListingAssumption DEF Walk
  <1>6. /\ walk'.list = walk.list /\ walk'.filter = walk.filter /\ walk'.begun = walk.begun
        /\ walk'.offset = walk.offset + Limit /\ walk'.seen = walk.seen \cup page
        /\ walk'.at = IF Cardinality(page) < Limit THEN "done" ELSE "reading"
    BY <1>3, <1>4 DEF Walk
  <1>7. Walk(walk')
    <2>1. walk' = [at |-> IF Cardinality(page) < Limit THEN "done" ELSE "reading",
                   list |-> walk.list, filter |-> walk.filter, offset |-> walk.offset + Limit,
                   begun |-> walk.begun, seen |-> walk.seen \cup page]
      BY <1>3, <1>4 DEF Walk
    <2>2. walk'.at \in {"reading", "done"} /\ walk.offset + Limit \in Nat
      BY <1>5, <1>6
    <2> QED  BY <1>5, <1>6, <2>1, <2>2 DEF Walk
  <1>8. Current' = Current
    BY <1>1, <1>6, TablesStay DEF Current
  <1>9. IsFiniteSet(Current)
    BY <1>1, <1>5 DEF ListsFinite, Current
  <1>10. ASSUME NEW x \in Missed' PROVE Ahead(x)'
    <2>1. x \in Missed /\ x \in Current \ page /\ Ahead(x)
      BY <1>3, <1>6 DEF Missed
    <2>2. CASE Tied(walk.list, Current, x)
      BY <1>6, <1>8, <2>2 DEF Ahead
    <2>3. CASE ~ Tied(walk.list, Current, x)
      <3>1. walk.offset <= Cardinality(Rank(walk.list, Current, x))
        BY <2>1, <2>3 DEF Ahead
      <3>2. ~ Before(walk.list, x, x)
        BY <1>1, <1>5, <2>1, OrderOfRows DEF Current
      <3>3. /\ walk.offset + Limit <= Cardinality(Rank(walk.list, Current, x))
            /\ ~ (Cardinality(page) < Limit)
        BY <1>5, <1>9, <2>1, <2>3, <3>1, <3>2, PageMoves
      <3> QED  BY <1>6, <1>8, <3>3 DEF Ahead
    <2> QED  BY <2>2, <2>3
  <1>11. CommitsSound' /\ ListsFinite'
    BY <1>1, TablesStay
  <1>12. walk'.begun \subseteq Current'
    BY <1>3, <1>6, <1>8
  <1> QED  BY <1>7, <1>10, <1>11, <1>12 DEF ListInv, WalkSound

LEMMA StartKeeps ==
  ASSUME ListInv, NEW list \in List, NEW filter \in Filters(list), StartWalk(list, filter)
  PROVE  ListInv'
  <1>1. CommitsSound /\ ListsFinite /\ commits' = commits
    BY DEF ListInv, StartWalk
  <1>2. /\ walk' = [at |-> "reading", list |-> list, filter |-> filter, offset |-> 0,
                    begun |-> Selected(list, filter), seen |-> {}]
    BY DEF StartWalk
  <1>3. Walk(walk')
    BY <1>2 DEF Walk
  <1>4. Current' = Selected(list, filter) /\ walk'.begun = Selected(list, filter)
    BY <1>1, <1>2, TablesStay DEF Current
  <1>5. IsFiniteSet(Current')
    BY <1>1, <1>4 DEF ListsFinite
  <1>6. ASSUME NEW x \in Missed' PROVE Ahead(x)'
    <2>1. Cardinality(Rank(list, Current', x)) \in Nat
      BY <1>5, FS_Subset, FS_CardinalityType DEF Rank
    <2> QED  BY <1>2, <2>1 DEF Ahead
  <1>7. CommitsSound' /\ ListsFinite'
    BY <1>1, TablesStay
  <1> QED  BY <1>3, <1>4, <1>6, <1>7 DEF ListInv, WalkSound

LEMMA ListInvariant == Spec => []ListInv
  <1>1. Init => ListInv
    BY ListInitInv DEF Init
  <1>2. ListInv /\ [Next]_vars => ListInv'
    <2> SUFFICES ASSUME ListInv, [Next]_vars PROVE ListInv'
      OBVIOUS
    <2>1. CASE UNCHANGED listVars
      <3>1. CommitsSound' /\ ListsFinite' /\ Current' = Current /\ walk' = walk
        BY <2>1, TablesStay DEF listVars, ListInv, Current
      <3> QED  BY <3>1 DEF ListInv, WalkSound, Ahead, Missed
    <2>2. CASE \E list \in List : \E filter \in Filters(list) : Start(list, filter)
      BY <2>2, StartKeeps DEF Start
    <2> QED  BY <2>1, <2>2, WriteKeeps, PageKeeps DEF Next, Serve, Refuse, vars
  <1> QED  BY <1>1, <1>2, PTL DEF Spec

(* Only a tie hides a row from who has read a list to its end.             *)
LEMMA MissedAreTied ==
  ASSUME ListInv, walk.at = "done", NEW x \in Missed
  PROVE  /\ walk.list \in List /\ walk.filter \in Filters(walk.list)
         /\ x \in Current /\ Tied(walk.list, Current, x)
  <1>1. walk # NoWalk
    BY DEF NoWalk
  <1> QED  BY <1>1 DEF ListInv, WalkSound, Walk, Ahead, Missed

(* GET /transactions and GET /ledger, page by page: whatever is posted or  *)
(* voided meanwhile, at whatever dates, every row there was is shown.      *)
THEOREM ReadingPagesMissNothing == Spec => []PagesMissNothing
  <1>1. ListInv => PagesMissNothing
    <2> SUFFICES ASSUME ListInv, walk.at = "done", walk.list # "audit_logs",
                        NEW x \in Missed
                 PROVE  FALSE
      BY DEF PagesMissNothing
    <2>1. CommitsSound
      BY DEF ListInv
    <2> QED  BY <2>1, MissedAreTied, OrderOfRows DEF Current
  <1> QED  BY <1>1, ListInvariant, PTL

(* GET /audit-logs: what is missed shares its created_at with another row. *)
THEOREM ReadingAuditMissesOnlyTies == Spec => []AuditMissesOnlyTies
  <1>1. ListInv => AuditMissesOnlyTies
    <2> SUFFICES ASSUME ListInv, walk.at = "done", walk.list = "audit_logs", NEW x \in Missed
                 PROVE  \E y \in Selected("audit_logs", walk.filter) : y # x /\ y.key = x.key
      BY DEF AuditMissesOnlyTies
    <2>1. CommitsSound
      BY DEF ListInv
    <2> QED  BY <2>1, MissedAreTied, OrderOfRows DEF Current
  <1> QED  BY <1>1, ListInvariant, PTL

(* The two rows of one transaction's history have different times: who     *)
(* voids it began after its COMMIT, so after its BEGIN.                    *)
LEMMA HistoryHasNoTies ==
  ASSUME CommitsSound, NEW e \in TxId,
         NEW x \in Selected("audit_logs", e), NEW y \in Selected("audit_logs", e), x # y
  PROVE  x.key # y.key
  <1> DEFINE Create(i) == [id |-> <<e, "create">>, key |-> <<commits[i].created, 0>>]
             Undo(i) == [id |-> <<e, "void">>, key |-> <<commits[i].created, 0>>]
             Tells(z, i) == \/ z = Create(i) /\ commits[i].id = e
                            \/ z = Undo(i) /\ commits[i].of = e
  <1>1. e \in Nat /\ e # 0 /\ "audit_logs" \in List
    BY ListingAssumption DEF List
  <1>2. ASSUME NEW z \in Selected("audit_logs", e)
        PROVE  \E i \in DOMAIN commits : Tells(z, i)
    <2>1. PICK i \in DOMAIN commits : z \in RowsOf("audit_logs", e, commits[i])
      BY <1>1, SelectedAre
    <2>2. PICK r \in AuditRows(commits[i]) :
            z = [id |-> r.id, key |-> <<r.created, 0>>] /\ e \in {0, r.entity}
      <3>1. z \in {[id |-> r.id, key |-> <<r.created, 0>>] :
                     r \in {q \in AuditRows(commits[i]) : e \in {0, q.entity}}}
        BY <2>1 DEF RowsOf
      <3>2. PICK r \in {q \in AuditRows(commits[i]) : e \in {0, q.entity}} :
              z = [id |-> r.id, key |-> <<r.created, 0>>]
        BY <3>1
      <3>3. r \in AuditRows(commits[i]) /\ e \in {0, r.entity}
        BY <3>2
      <3> QED  BY <1>1, <3>2, <3>3
    <2>3. r.entity = e
      BY <1>1, <2>2
    <2>4. CASE r = [id |-> <<commits[i].id, "create">>, entity |-> commits[i].id,
                    created |-> commits[i].created]
      BY <2>2, <2>3, <2>4
    <2>5. CASE r = [id |-> <<commits[i].of, "void">>, entity |-> commits[i].of,
                    created |-> commits[i].created]
      BY <2>2, <2>3, <2>5
    <2> QED  BY <2>2, <2>4, <2>5 DEF AuditRows
  <1>3. ASSUME NEW i \in DOMAIN commits, NEW k \in DOMAIN commits,
               commits[i].id = e, commits[k].of = e
        PROVE  commits[i].created # commits[k].created
    <2>1. PICK j \in 1 .. commits[k].created : commits[j].id = commits[k].of
      BY <1>1, <1>3 DEF CommitsSound
    <2>2. /\ commits[k] \in CommitRow /\ commits[i] \in CommitRow
          /\ DOMAIN commits = 1 .. Len(commits) /\ Len(commits) \in Nat
          /\ commits[k].created < k /\ commits[i].created < i
      BY DEF CommitsSound
    <2>3. commits[k].created \in Nat /\ commits[i].created \in Nat /\ i \in Nat /\ k \in Nat
      BY <2>2 DEF CommitRow
    <2>4. j \in DOMAIN commits
      BY <2>1, <2>2, <2>3
    <2>5. j = i
      BY <1>3, <2>1, <2>4 DEF CommitsSound
    <2> QED  BY <2>1, <2>2, <2>3, <2>5
  <1>4. PICK i \in DOMAIN commits : Tells(x, i)
    BY <1>2
  <1>5. PICK k \in DOMAIN commits : Tells(y, k)
    BY <1>2
  <1> QED  BY <1>3, <1>4, <1>5

(* GET /audit-logs?entity_id=...: the history of one transaction is whole, *)
(* also when it is voided while it is read.                                *)
THEOREM ReadingEntityHistoryComplete == Spec => []EntityHistoryComplete
  <1>1. ListInv => EntityHistoryComplete
    <2> SUFFICES ASSUME ListInv, walk.at = "done", walk.list = "audit_logs", walk.filter # 0,
                        NEW x \in Missed
                 PROVE  FALSE
      BY DEF EntityHistoryComplete
    <2>1. CommitsSound
      BY DEF ListInv
    <2>2. walk.filter \in TxId /\ x \in Selected("audit_logs", walk.filter)
      BY MissedAreTied DEF Filters, Current
    <2>3. PICK y \in Selected("audit_logs", walk.filter) : y # x /\ y.key = x.key
      BY <2>1, MissedAreTied, OrderOfRows DEF Current
    <2> QED  BY <2>1, <2>2, <2>3, HistoryHasNoTies
  <1> QED  BY <1>1, ListInvariant, PTL
=============================================================================
