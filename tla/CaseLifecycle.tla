---------------------------- MODULE CaseLifecycle ----------------------------
(***************************************************************************)
(* What the case workflow promises, one atomic step per decision of a      *)
(* person: at any time one holder may act on a case; a step starts in the  *)
(* state the case is in; the maker never checks the case, and neither the  *)
(* maker nor a subject who has verified it decides it; a case sent down    *)
(* goes back to the maker, or to the Nodal Officer who had it last.        *)
(***************************************************************************)
CONSTANTS
  People,    \* subjects who may hold the case
  Nobody,    \* the holder of a case that does not exist yet
  Approvers  \* subjects with delegated authority to approve

VARIABLES
  stage,     \* the state of the case
  holder,    \* who may act on it
  maker,     \* who created it
  checkers,  \* who has verified it
  nodal      \* the Nodal Officer it was last given to

vars == <<stage, holder, maker, checkers, nodal>>

Init ==
  /\ stage = "absent"
  /\ holder = Nobody
  /\ maker = Nobody
  /\ checkers = {}
  /\ nodal = Nobody

Create(p) ==
  /\ stage = "absent"
  /\ stage' = "draft"
  /\ holder' = p
  /\ maker' = p
  /\ UNCHANGED <<checkers, nodal>>

Submit(p, q) ==
  /\ holder = p
  /\ stage \in {"draft", "returned_to_do"}
  /\ stage' = "submitted_to_no"
  /\ holder' = q
  /\ nodal' = q
  /\ UNCHANGED <<maker, checkers>>

SendBack(p) ==
  /\ holder = p
  /\ stage = "submitted_to_no"
  /\ stage' = "returned_to_do"
  /\ holder' = maker
  /\ UNCHANGED <<maker, checkers, nodal>>

Verify(p) ==
  /\ holder = p
  /\ stage = "submitted_to_no"
  /\ p # maker
  /\ stage' = "verified_by_no"
  /\ checkers' = checkers \cup {p}
  /\ nodal' = p
  /\ UNCHANGED <<holder, maker>>

Forward(p, q) ==
  /\ holder = p
  /\ stage \in {"verified_by_no", "returned_to_no"}
  /\ stage' = "submitted_to_hod"
  /\ holder' = q
  /\ UNCHANGED <<maker, checkers, nodal>>

SendDown(p) ==
  /\ holder = p
  /\ stage = "submitted_to_hod"
  /\ stage' = "returned_to_no"
  /\ holder' = nodal
  /\ UNCHANGED <<maker, checkers, nodal>>

Decide(p, q) ==
  /\ holder = p
  /\ stage = "submitted_to_hod"
  /\ p # maker
  /\ p \notin checkers
  /\ \/ p \in Approvers /\ q = p /\ stage' = "approved"
     \/ q = p /\ stage' = "rejected"
     \/ stage' = "escalated"
  /\ holder' = q
  /\ UNCHANGED <<maker, checkers, nodal>>

Next ==
  \E p \in People :
    \/ Create(p) \/ SendBack(p) \/ Verify(p) \/ SendDown(p)
    \/ \E q \in People : Submit(p, q) \/ Forward(p, q) \/ Decide(p, q)

Spec == Init /\ [][Next]_vars
=============================================================================
