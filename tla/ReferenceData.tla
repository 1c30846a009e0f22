---------------------------- MODULE ReferenceData ----------------------------
(***************************************************************************)
(* Users, currencies, accounts and exchange rates, each created by an      *)
(* endpoint of its own, and the script that seeds a demo.  All of them look*)
(* first and insert later, at READ COMMITTED: what keeps the tables sound  *)
(* are their unique indexes, where an insert waits for the session that has*)
(* the same key uncommitted, and their foreign keys.                       *)
(*                                                                         *)
(* These endpoints have no commit of their own.  get_db commits when the   *)
(* request is left, and that is after the response was sent: a 201 is an   *)
(* answer about rows that nobody else can see yet.                         *)
(***************************************************************************)
EXTENDS Naturals, SequencesExt

CONSTANTS
  Session,      \* database sessions: requests in flight, runs of the script
  Requests,     \* what clients may ask to create
  Initial,      \* the rows there are at the start
  MaxRequests,  \* bound: how many requests and runs of the script
  MaxFaults     \* bound: how many sessions are cut

VARIABLES
  rows,         \* the committed rows of all the tables, in the order of COMMITs
  audit,        \* the committed audit log: the rows it tells of
  pc,           \* where each session is
  ask,          \* what it was asked for
  todo,         \* what it has yet to insert
  wrote,        \* what it has inserted and not committed
  taken,        \* into how many unique indexes the row in hand has gone
  resp,         \* the answer, 0 when there is none
  requests, faults

vars == <<rows, audit, pc, ask, todo, wrote, taken, resp, requests, faults>>

-----------------------------------------------------------------------------
(* Rows.  A row is what it was created from; by says whether a client did  *)
(* so, with a new uuid4, or the script, with a constant id.  A currency's  *)
(* code stands for its id too: neither ever changes.                       *)

\* The script, in its order: the user, the currency, two accounts and a
\* transaction between them.
DemoUser == [kind |-> "user", by |-> "seed", email |-> "demo"]
DemoCurrency == [kind |-> "currency", by |-> "seed", code |-> "USD"]
DemoAccount(code, name) ==
  [kind |-> "account", by |-> "seed", code |-> code, name |-> name, currency |-> "USD"]
DemoAccounts == {DemoAccount("1000", "Cash"), DemoAccount("4000", "Revenue")}
DemoTransaction == [kind |-> "transaction", by |-> "seed"]

SeedPlan ==
  <<DemoUser, DemoCurrency, DemoAccount("1000", "Cash"), DemoAccount("4000", "Revenue"),
    DemoTransaction>>

\* The primary key, for the rows whose id is a constant of the script.
IdKey(q) == <<q.kind, "id", q>>

CodeKey(code) == <<"currency", "code", code>>

UserKeys(q) == << <<"user", "email", q.email>> >>
CurrencyKeys(q) == <<CodeKey(q.code)>>

\* Mutant: accounts.name without its unique index.
AccountKeysWithoutName(q) == << <<"account", "code", q.code>> >>

AccountKeys(q) == << <<"account", "name", q.name>>, <<"account", "code", q.code>> >>
RateKeys(q) == << <<"rate", "pair_date", <<q.from, q.to, q.date>> >> >>

\* The unique indexes a row goes into, in the order PostgreSQL takes them, the
\* order of their creation.
Keys(q) ==
  (IF q.by = "seed" /\ q.kind # "currency" THEN <<IdKey(q)>> ELSE <<>>) \o
  CASE q.kind = "user" -> UserKeys(q)
    [] q.kind = "currency" -> CurrencyKeys(q)
    [] q.kind = "account" -> AccountKeys(q)
    [] q.kind = "rate" -> RateKeys(q)
    [] q.kind = "transaction" -> <<>>

\* Mutant: exchange_rates without its foreign keys.
ReferencesOfAccounts(q) ==
  CASE q.kind = "account" -> {CodeKey(q.currency)}
    [] q.kind = "transaction" -> {CodeKey("USD")} \cup {IdKey(a) : a \in DemoAccounts}
    [] OTHER -> {}

\* The foreign keys of a row; a transaction has those of its entries.
References(q) ==
  CASE q.kind = "account" -> {CodeKey(q.currency)}
    [] q.kind = "rate" -> {CodeKey(q.from), CodeKey(q.to)}
    [] q.kind = "transaction" -> {CodeKey("USD")} \cup {IdKey(a) : a \in DemoAccounts}
    [] OTHER -> {}

\* The key the script looks a row up by before it inserts it.
SeedLookup(q) ==
  CASE q.kind = "account" -> <<"account", "code", q.code>>
    [] OTHER -> Last(Keys(q))

\* What a violated constraint becomes: two of the repositories catch it.
IntegrityCode(q) == IF q.by = "client" /\ q.kind \in {"user", "rate"} THEN 409 ELSE 500

KeysOf(q) == ToSet(Keys(q))

\* What has an endpoint to create it.
Creatable == {"user", "currency", "account", "rate"}

\* The tables keep their own constraints from the start.
ASSUME ReferenceDataAssumption ==
  /\ \A q \in Requests : q.by = "client" /\ q.kind \in Creatable
  /\ Initial \in Seq({q \in ToSet(Initial) : q.by = "initial" /\ q.kind \in Creatable})
  /\ \A i, j \in DOMAIN Initial : i # j => KeysOf(Initial[i]) \cap KeysOf(Initial[j]) = {}
  /\ \A i \in DOMAIN Initial :
       References(Initial[i]) \subseteq UNION {KeysOf(Initial[j]) : j \in 1 .. i - 1}
  /\ MaxRequests \in Nat /\ MaxFaults \in Nat

-----------------------------------------------------------------------------
CommittedKeys == UNION {KeysOf(q) : q \in ToSet(rows)}

\* The index entries of session s that nobody else can see and everybody waits for.
Held(s) ==
  (UNION {KeysOf(q) : q \in ToSet(wrote[s])}) \cup
  (IF todo[s] = <<>> THEN {} ELSE ToSet(SubSeq(Keys(todo[s][1]), 1, taken[s])))

Row(s) == todo[s][1]

\* Session s has more indexes to go into, the next with this key.
AtKey(s) == pc[s] = "insert" /\ taken[s] < Len(Keys(Row(s)))
NextKey(s) == Keys(Row(s))[taken[s] + 1]

WaitsFor(s, u) == u # s /\ AtKey(s) /\ NextKey(s) \in Held(u)

\* s is in a circle of sessions that wait for each other.
Deadlocked(s) ==
  \E group \in SUBSET Session :
    /\ s \in group
    /\ \A u \in group : (\E v \in group : WaitsFor(u, v)) /\ (\E v \in group : WaitsFor(v, u))

Init ==
  /\ rows = Initial /\ audit = <<>>
  /\ pc = [s \in Session |-> "idle"]
  /\ ask = [s \in Session |-> DemoUser]
  /\ todo = [s \in Session |-> <<>>] /\ wrote = [s \in Session |-> <<>>]
  /\ taken = [s \in Session |-> 0]
  /\ resp = [s \in Session |-> 0]
  /\ requests = 0 /\ faults = 0

Begin(s, q, plan, where) ==
  /\ pc[s] = "idle" /\ requests < MaxRequests
  /\ requests' = requests + 1
  /\ ask' = [ask EXCEPT ![s] = q]
  /\ todo' = [todo EXCEPT ![s] = plan]
  /\ resp' = [resp EXCEPT ![s] = 0]
  /\ pc' = [pc EXCEPT ![s] = where]
  /\ UNCHANGED <<rows, audit, wrote, taken, faults>>

\* A user's address and an account's currency are looked up, the others are
\* inserted at once.
RegisterUser(s, q) == q.kind = "user" /\ Begin(s, q, <<q>>, "check")
CreateAccount(s, q) == q.kind = "account" /\ Begin(s, q, <<q>>, "check")
PostCurrency(s, q) == q.kind = "currency" /\ Begin(s, q, <<q>>, "insert")
PostExchangeRate(s, q) == q.kind = "rate" /\ Begin(s, q, <<q>>, "insert")

StartSeed(s) == Begin(s, DemoTransaction, SeedPlan, "check")

\* Mutant: get_db without its except clause and its close: what was written stays
\* uncommitted, and its keys taken.
EndUnclosed(s, code) ==
  /\ pc' = [pc EXCEPT ![s] = "idle"]
  /\ resp' = [resp EXCEPT ![s] = code]
  /\ todo' = [todo EXCEPT ![s] = <<>>] /\ taken' = [taken EXCEPT ![s] = 0]
  /\ UNCHANGED wrote

\* The session is rolled back and closed.
End(s, code) ==
  /\ pc' = [pc EXCEPT ![s] = "idle"]
  /\ resp' = [resp EXCEPT ![s] = code]
  /\ todo' = [todo EXCEPT ![s] = <<>>] /\ wrote' = [wrote EXCEPT ![s] = <<>>]
  /\ taken' = [taken EXCEPT ![s] = 0]

Refuse(s, code) == End(s, code) /\ UNCHANGED <<rows, audit, ask, requests, faults>>

\* create_user: the address is registered.
EmailTaken(s) ==
  /\ pc[s] = "check" /\ Row(s).by = "client" /\ Row(s).kind = "user"
  /\ KeysOf(Row(s)) \subseteq CommittedKeys
  /\ Refuse(s, 409)

\* create_account: no such currency.
UnknownCurrency(s) ==
  /\ pc[s] = "check" /\ Row(s).by = "client" /\ Row(s).kind = "account"
  /\ ~ References(Row(s)) \subseteq CommittedKeys
  /\ Refuse(s, 422)

CheckPasses(s) ==
  /\ pc[s] = "check"
  /\ CASE Row(s).by = "seed" -> SeedLookup(Row(s)) \notin CommittedKeys \cup Held(s)
       [] Row(s).kind = "user" -> ~ KeysOf(Row(s)) \subseteq CommittedKeys
       [] Row(s).kind = "account" -> References(Row(s)) \subseteq CommittedKeys
  /\ pc' = [pc EXCEPT ![s] = "insert"]
  /\ UNCHANGED <<rows, audit, ask, todo, wrote, taken, resp, requests, faults>>

-----------------------------------------------------------------------------
(* The INSERT of the row in hand: one unique index after the other, then   *)
(* its foreign keys.                                                       *)

\* While another session holds the key, this one waits.
TakeKey(s) ==
  /\ AtKey(s) /\ NextKey(s) \notin CommittedKeys
  /\ \A u \in Session : ~ WaitsFor(s, u)
  /\ taken' = [taken EXCEPT ![s] = @ + 1]
  /\ UNCHANGED <<rows, audit, pc, ask, todo, wrote, resp, requests, faults>>

\* Mutant: no flush in save(), so that the 201 is out before the index speaks.
KeyViolatedLate(s) ==
  /\ AtKey(s) /\ NextKey(s) \in CommittedKeys
  /\ Refuse(s, 201)

\* Mutant: a key that another session holds uncommitted is taken for a duplicate.
KeyViolatedAtOnce(s) ==
  /\ AtKey(s)
  /\ NextKey(s) \in CommittedKeys \cup UNION {Held(u) : u \in Session \ {s}}
  /\ Refuse(s, IntegrityCode(Row(s)))

KeyViolated(s) ==
  /\ AtKey(s) /\ NextKey(s) \in CommittedKeys
  /\ Refuse(s, IntegrityCode(Row(s)))

Indexed(s) == pc[s] = "insert" /\ taken[s] = Len(Keys(Row(s)))

ReferenceViolated(s) ==
  /\ Indexed(s) /\ ~ References(Row(s)) \subseteq CommittedKeys \cup Held(s)
  /\ Refuse(s, IntegrityCode(Row(s)))

Inserted(s) ==
  /\ Indexed(s) /\ References(Row(s)) \subseteq CommittedKeys \cup Held(s)
  /\ wrote' = [wrote EXCEPT ![s] = Append(@, Row(s))]
  /\ todo' = [todo EXCEPT ![s] = Tail(@)]
  /\ taken' = [taken EXCEPT ![s] = 0]

\* Mutant: the audit row is written through a session of its own.
RespondAudited(s) ==
  /\ Inserted(s) /\ Row(s).by = "client"
  /\ audit' = Append(audit, Row(s))
  /\ resp' = [resp EXCEPT ![s] = 201]
  /\ pc' = [pc EXCEPT ![s] = "exit"]
  /\ UNCHANGED <<rows, ask, requests, faults>>

\* The audit row is added and the 201 sent; the COMMIT is still to come.
Respond(s) ==
  /\ Inserted(s) /\ Row(s).by = "client"
  /\ resp' = [resp EXCEPT ![s] = 201]
  /\ pc' = [pc EXCEPT ![s] = "exit"]
  /\ UNCHANGED <<rows, audit, ask, requests, faults>>

\* The script goes on to its next row, or to its COMMIT.
SeedGoesOn(s) ==
  pc' = [pc EXCEPT ![s] = IF Len(todo[s]) = 1 THEN "exit" ELSE "check"]

SeedSkips(s) ==
  /\ pc[s] = "check" /\ Row(s).by = "seed"
  /\ SeedLookup(Row(s)) \in CommittedKeys \cup Held(s)
  /\ todo' = [todo EXCEPT ![s] = Tail(@)]
  /\ SeedGoesOn(s)
  /\ UNCHANGED <<rows, audit, ask, wrote, taken, resp, requests, faults>>

\* Mutant: a connection that commits every statement.
SeedInsertsAutocommit(s) ==
  /\ Indexed(s) /\ References(Row(s)) \subseteq CommittedKeys
  /\ Row(s).by = "seed" /\ SeedGoesOn(s)
  /\ rows' = Append(rows, Row(s))
  /\ todo' = [todo EXCEPT ![s] = Tail(@)]
  /\ taken' = [taken EXCEPT ![s] = 0]
  /\ UNCHANGED <<audit, ask, wrote, resp, requests, faults>>

SeedInserts(s) ==
  /\ Inserted(s) /\ Row(s).by = "seed" /\ SeedGoesOn(s)
  /\ UNCHANGED <<rows, audit, ask, resp, requests, faults>>

\* An endpoint logs the row it creates in the session that creates it; the script
\* logs nothing.
Audited(s) == IF ask[s].by = "client" THEN wrote[s] ELSE <<>>

\* get_db after the handler, with the audit row; the script's engine.begin().
Commit(s) ==
  /\ pc[s] = "exit"
  /\ rows' = rows \o wrote[s]
  /\ audit' = audit \o Audited(s)
  /\ End(s, resp[s])
  /\ UNCHANGED <<ask, requests, faults>>

\* PostgreSQL ends one of the sessions that wait for each other.
DeadlockAborts(s) == Deadlocked(s) /\ Refuse(s, 500)

\* The session is cut; a 201 it has sent stays sent.
Cut(s) ==
  /\ pc[s] # "idle" /\ faults < MaxFaults
  /\ faults' = faults + 1
  /\ End(s, resp[s])
  /\ UNCHANGED <<rows, audit, ask, requests>>

Step(s) ==
  \/ EmailTaken(s) \/ UnknownCurrency(s) \/ CheckPasses(s)
  \/ TakeKey(s) \/ KeyViolated(s) \/ ReferenceViolated(s) \/ Respond(s)
  \/ SeedSkips(s) \/ SeedInserts(s) \/ Commit(s) \/ DeadlockAborts(s)

Next == \E s \in Session :
  \/ \E q \in Requests :
       RegisterUser(s, q) \/ CreateAccount(s, q) \/ PostCurrency(s, q) \/ PostExchangeRate(s, q)
  \/ StartSeed(s)
  \/ Step(s)
  \/ Cut(s)

Spec == Init /\ [][Next]_vars

(* The event loop and PostgreSQL run every session to its end.  A waiter   *)
(* wakes when the holder of its key has ended; as only MaxRequests sessions*)
(* ever begin, no newcomer can overtake it for ever.                       *)
Fairness == \A s \in Session : WF_vars(Step(s))

FairSpec == Spec /\ Fairness

-----------------------------------------------------------------------------
Same(p, q) ==
  p.kind = q.kind /\
  CASE p.kind = "user" -> p.email = q.email
    [] p.kind = "currency" -> p.code = q.code
    [] p.kind = "account" -> p.code = q.code \/ p.name = q.name
    [] p.kind = "rate" -> <<p.from, p.to, p.date>> = <<q.from, q.to, q.date>>
    [] p.kind = "transaction" -> TRUE

(* However many creations race past their checks, one address registers one*)
(* user, a code one currency, a code or a name one account, and a pair has *)
(* one rate a day: the conversion of a transaction is determined.          *)
OneRowPerKey ==
  \A i, j \in DOMAIN rows : i # j => ~ Same(rows[i], rows[j])

IsCurrency(code, n) == \E i \in 1 .. n : rows[i].kind = "currency" /\ rows[i].code = code

(* What a row names was there before it: an account's currency, both of a  *)
(* rate's, the demo transaction's own two accounts - not other accounts of *)
(* the same codes.                                                         *)
ReferencesHold ==
  \A i \in DOMAIN rows :
    /\ rows[i].kind = "account" => IsCurrency(rows[i].currency, i - 1)
    /\ rows[i].kind = "rate" => IsCurrency(rows[i].from, i - 1) /\ IsCurrency(rows[i].to, i - 1)
    /\ rows[i] = DemoTransaction => DemoAccounts \subseteq ToSet(SubSeq(rows, 1, i - 1))

(* Every row a client created is in the audit log, once and in its order,  *)
(* and nothing else is: a creation that lost a race leaves no trace.       *)
AuditMatchesRows ==
  LET created == {j \in DOMAIN rows : rows[j].by = "client"} IN
  /\ Len(audit) = Cardinality(created)
  /\ \A j \in created : audit[Cardinality({i \in created : i <= j})] = rows[j]

(* The 201 goes out before the COMMIT; unless a session is cut, it is kept:*)
(* nothing can be found wrong after it.                                    *)
CreatedIsStored ==
  faults = 0 => \A s \in Session : resp[s] = 201 =>
    pc[s] = "exit" \/ ask[s] \in ToSet(rows)

(* "Already registered", "already exists" is said of committed rows only:  *)
(* whoever waited for another's key is told so after that other's COMMIT,  *)
(* and goes in if the other is rolled back.  save_exchange_rate says it of *)
(* a rate with a missing currency too; the rates meant here name none.     *)
ConflictIsTrue ==
  [][\A s \in Session :
       resp[s] # 409 /\ resp'[s] = 409 /\ References(ask[s]) \subseteq CommittedKeys =>
         \E i \in DOMAIN rows : Same(rows[i], ask[s])]_vars

(* The script leaves all of its demo or nothing, whatever was there before *)
(* and whoever it raced: its rows come with the demo transaction.          *)
SeedIsWhole ==
  (\E i \in DOMAIN rows : rows[i].by = "seed") => DemoTransaction \in ToSet(rows)

(* Every creation ends, those that wait for another's key included, also   *)
(* when the script and a client wait for each other.                       *)
EveryCreationEnds == \A s \in Session : pc[s] # "idle" ~> pc[s] = "idle"

(* "users.email and currencies.code uniqueness [...] Concurrent duplicates *)
(* are caught via try/except IntegrityError" (docs/adr/002): nobody who    *)
(* registers a user or creates a currency gets a 500.                      *)
DuplicatesAreCaught ==
  \A s \in Session : ask[s].kind \in {"user", "currency"} => resp[s] # 500
=============================================================================
