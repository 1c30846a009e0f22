-------------------------------- MODULE Auth --------------------------------
(***************************************************************************)
(* Log-in and the roles: POST /auth/login reads the user's row, verifies   *)
(* the password and signs a token with the role and the state of the       *)
(* account as they were read; get_current_user believes the token up to its*)
(* expiry and never looks at the row again.                                *)
(*                                                                         *)
(* A signature cannot be made without the secret: a token is one that was  *)
(* issued.  A client keeps the last it was given.                          *)
(***************************************************************************)
EXTENDS Integers

CONSTANTS
  User,         \* the rows of the users table
  Client,       \* the clients that log in
  Lifetime,     \* access_token_expire_minutes
  LoginTime,    \* how long a log-in may take: the password is verified in a thread
  MaxTime,      \* bound: the clock
  MaxChanges    \* bound: how often an operator changes a row

ASSUME AuthAssumption ==
  /\ Lifetime \in Nat /\ LoginTime \in Nat
  /\ MaxTime \in Nat /\ MaxChanges \in Nat

VARIABLES
  now,          \* the clock
  users,        \* role and is_active of every user
  held,         \* who was active with which role, and when
  changes,      \* how often a row was changed
  login,        \* where each client's log-in is, and the row it read
  token         \* the token each client has

authVars == <<now, users, held, changes, login, token>>

Role == {"admin", "auditor"}
UserRow == [role : Role, is_active : BOOLEAN]

NoLogin == [at |-> "idle"]
NoToken == [none |-> TRUE]

\* What the rows grant at a moment.
Granted(rows, at) ==
  {[sub |-> u, role |-> rows[u].role, at |-> at] : u \in {v \in User : rows[v].is_active}}

AuthInit ==
  /\ now = 0 /\ changes = 0
  /\ users \in [User -> UserRow]
  /\ held = Granted(users, 0)
  /\ login = [c \in Client |-> NoLogin]
  /\ token = [c \in Client |-> NoToken]

\* Bound: a log-in takes no longer than LoginTime.
Tick ==
  /\ now < MaxTime
  /\ \A c \in Client : login[c] # NoLogin => now < login[c].since + LoginTime
  /\ now' = now + 1
  /\ held' = held \cup Granted(users, now + 1)
  /\ UNCHANGED <<users, changes, login, token>>

\* No route changes a user: an operator does, in the database.
ChangeUser(u, row) ==
  /\ changes < MaxChanges /\ row # users[u]
  /\ users' = [users EXCEPT ![u] = row]
  /\ held' = held \cup Granted(users', now)
  /\ changes' = changes + 1
  /\ UNCHANGED <<now, login, token>>

-----------------------------------------------------------------------------
(* POST /auth/login *)

\* find_by_email; the thread that verifies the password has the rest of the request.
FindUser(c, u) ==
  /\ login[c] = NoLogin
  /\ login' = [login EXCEPT ![c] = [at |-> "verify", sub |-> u, row |-> users[u], since |-> now]]
  /\ UNCHANGED <<now, users, held, changes, token>>

\* The password is wrong, or the request is cut.
LoginFails(c) ==
  /\ login[c] # NoLogin
  /\ login' = [login EXCEPT ![c] = NoLogin]
  /\ UNCHANGED <<now, users, held, changes, token>>

\* create_access_token: the claims, and an expiry from now.
AccessToken(u, row, is_active) ==
  [sub |-> u, role |-> row.role, is_active |-> is_active, exp |-> now + Lifetime]

\* Mutant: who knows the password is taken for active.
IssueTokenActive(c) ==
  /\ login[c] # NoLogin
  /\ token' = [token EXCEPT ![c] = AccessToken(login[c].sub, login[c].row, TRUE)]
  /\ login' = [login EXCEPT ![c] = NoLogin]
  /\ UNCHANGED <<now, users, held, changes>>

\* The claims are those of the row that was read; nobody asks whether it is active.
IssueToken(c) ==
  /\ login[c] # NoLogin
  /\ token' = [token EXCEPT ![c] =
       AccessToken(login[c].sub, login[c].row, login[c].row.is_active)]
  /\ login' = [login EXCEPT ![c] = NoLogin]
  /\ UNCHANGED <<now, users, held, changes>>

AuthStep ==
  \/ Tick
  \/ \E u \in User, row \in UserRow : ChangeUser(u, row)
  \/ \E c \in Client : LoginFails(c) \/ IssueToken(c) \/ \E u \in User : FindUser(c, u)

-----------------------------------------------------------------------------
(* get_current_user and what depends on it *)

\* Mutant: the expiry is not looked at.
AuthenticatedForever(t) == t # NoToken /\ t.is_active

\* get_current_user does not answer 401.
Authenticated(t) == t # NoToken /\ now < t.exp /\ t.is_active

\* require_admin, require_auditor_or_admin: the roles a route lets through.
Admitted(t, roles) == Authenticated(t) /\ t.role \in roles

(* A token outlives what it says by no more than its lifetime and the time *)
(* the log-in took ("the window is bounded by ACCESS_TOKEN_EXPIRE_MINUTES",*)
(* docs/adr/006): whoever is admitted to a route was active, with a role   *)
(* the route lets through, within that window.                             *)
RevocationWindow ==
  \A c \in Client, roles \in SUBSET Role :
    Admitted(token[c], roles) =>
      \E h \in held :
        h.sub = token[c].sub /\ h.role \in roles /\ h.at > now - Lifetime - LoginTime
=============================================================================
