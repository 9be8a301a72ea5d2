----------------------------- MODULE MCWorkspace -----------------------------
(***************************************************************************)
(* One tab with one account, one demo identity, one chat and one case: any *)
(* two functions of the page overlap with each other and with a question,  *)
(* while other tabs sign in and out.                                       *)
(***************************************************************************)
EXTENDS Workspace, TLC

CONSTANTS asha, demoDo, c1, k1

\* Bounds: before a function of the page has started anything may happen in
\* the other tabs; once one has, at most three things (a login, a trip to
\* Keycloak, a return from there or a tick of the clock), once two have, at
\* most one; after a third has started the tab is followed only while a
\* question is under way.
Detours == Len(logins) + Len(trips) + Len(callbacks) + now

FewDetours ==
  /\ started = 0 \/ Detours <= (IF started = 1 THEN 3 ELSE 1)
  /\ started < 3 \/ \E n \in DOMAIN tasks : tasks[n].kind = "ask"
=============================================================================
