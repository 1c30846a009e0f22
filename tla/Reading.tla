------------------------------- MODULE Reading -------------------------------
(***************************************************************************)
(* A client that reads a list page by page under its token: every page is a*)
(* request of its own, so get_current_user and the role of the route are   *)
(* asked before each, and between two pages the token may expire, the user *)
(* change and the writers go on.                                           *)
(***************************************************************************)
EXTENDS Auth, Listing

CONSTANT Reader   \* the client that reads

ASSUME ReadingAssumption == Reader \in Client

vars == <<authVars, listVars>>

\* The dependency of the three routes.
Roles(list) == IF list = "audit_logs" THEN {"admin"} ELSE Role

Init == AuthInit /\ ListInit

Start(list, filter) == StartWalk(list, filter) /\ UNCHANGED authVars

\* Mutant: the token is checked for the first page only.
ServeAfterFirst ==
  /\ walk.at = "reading"
  /\ walk.offset > 0 \/ Admitted(token[Reader], Roles(walk.list))
  /\ GetPage
  /\ UNCHANGED authVars

\* 200
Serve ==
  /\ walk.at = "reading" /\ Admitted(token[Reader], Roles(walk.list))
  /\ GetPage
  /\ UNCHANGED authVars

\* 401 or 403: the client is where it was.
Refuse ==
  /\ walk.at = "reading" /\ ~ Admitted(token[Reader], Roles(walk.list))
  /\ UNCHANGED vars

Next ==
  \/ AuthStep /\ UNCHANGED listVars
  \/ (Post \/ Void) /\ UNCHANGED authVars
  \/ \E list \in List : \E filter \in Filters(list) : Start(list, filter)
  \/ Serve \/ Refuse

Spec == Init /\ [][Next]_vars

-----------------------------------------------------------------------------
(* Every page is served to someone who was active, with a role the list is *)
(* for, at most a token's lifetime and a log-in before: a deactivation or  *)
(* the loss of the admin role ends a reading that is under way.            *)
PagesForEntitled ==
  [][\A list \in List :
       walk.at = "reading" /\ walk.list = list /\ walk' # walk =>
         \E h \in held :
           /\ h.sub = token[Reader].sub /\ h.role \in Roles(list)
           /\ h.at > now - Lifetime - LoginTime]_vars
=============================================================================
