------------------------ MODULE CaseWorkflow_proof ------------------------
(***************************************************************************)
(* Proofs about CaseWorkflow, for every office and every bound.            *)
(***************************************************************************)
EXTENDS CaseWorkflow, WellFoundedInduction, TLAPS

\* A nonempty set of indices has a largest element.
LEMMA LargestIndex ==
  ASSUME NEW n \in Nat, NEW S, S \subseteq 1..n, S # {}
  PROVE  \E m \in S : \A j \in S : j <= m
<1> DEFINE T == {n - i : i \in S}
           R == OpToRel(<, Nat)
<1>1. T \subseteq Nat
  BY SMT
<1>2. T # {}
  BY Zenon
<1>3. IsWellFoundedOn(R, Nat)
  BY NatLessThanWellFounded
<1>4. \E x \in T : \A y \in T : <<y, x>> \notin R
  <2> HIDE DEF T, R
  <2> QED BY <1>1, <1>2, <1>3, WFMin
<1>5. PICK x \in T : \A y \in T : <<y, x>> \notin R
  BY <1>4
<1>6. \A y \in T : x <= y
  <2> TAKE y \in T
  <2>1. x \in Nat /\ y \in Nat
    BY <1>1
  <2>2. y < x => <<y, x>> \in R
    BY <2>1 DEF OpToRel
  <2> HIDE DEF T, R
  <2> QED BY <1>5, <2>1, <2>2
<1>7. PICK m \in S : x = n - m
  OBVIOUS
<1>8. \A j \in S : j <= m
  <2> TAKE j \in S
  <2>1. n - j \in T
    OBVIOUS
  <2> HIDE DEF T
  <2>2. x <= n - j
    BY <2>1, <1>6
  <2> QED BY <2>2, <1>7
<1> QED BY <1>8

\* _latest_participant_for_role returns the subject of the last transition
\* assigned to the Nodal Officer, when there is one.
LEMMA LatestNodalType ==
  ASSUME transitions \in Seq(Transition), NodalTransitions # {}
  PROVE  /\ LatestNodal \in Users
         /\ \E i \in NodalTransitions :
              /\ \A j \in NodalTransitions : j <= i
              /\ LatestNodal = transitions[i].assignee
<1>1. NodalTransitions \subseteq 1..Len(transitions) /\ Len(transitions) \in Nat
  BY DEF NodalTransitions
<1>2. \E i \in NodalTransitions : \A j \in NodalTransitions : j <= i
  BY <1>1, LargestIndex
<1> DEFINE last == CHOOSE i \in NodalTransitions : \A j \in NodalTransitions : j <= i
<1>3. last \in NodalTransitions /\ \A j \in NodalTransitions : j <= last
  BY <1>2
<1>4. LatestNodal = transitions[last].assignee
  BY DEF LatestNodal
<1> HIDE DEF last
<1>5. transitions[last] \in Transition
  BY <1>1, <1>3
<1> QED BY <1>3, <1>4, <1>5 DEF Transition

-----------------------------------------------------------------------------
(* Every operation but create_case starts by Begin with a well-formed      *)
(* request.                                                                *)

\* What Begin stores for the operations that hand a case over.
Handover(t, op, to, a) ==
  op # "add_message" =>
    /\ <<op, state, to>> \in Moves
    /\ a \in Users \/ op = "return_to_no"
    /\ op = "return_to_do" => a = creator
    /\ op \in {"verify", "approve", "reject"} => a = UserOf[t]
    /\ op \in {"verify", "approve", "reject", "escalate"} => UserOf[t] # creator

\* Begin and the guards around it store only well-formed requests.
LEMMA StartBegins ==
  ASSUME TypeOK, Started, NEW t \in Tabs, Start(t), ~CreateCase(t)
  PROVE  \E op \in Operations, to \in CaseStates, a \in Users \cup {Nobody} :
           Begin(t, op, to, a) /\ Handover(t, op, to, a)
<1> USE DEF Operations, CaseStates, Handover, Moves
<1>0. UserOf[t] \in Users
  BY ConstantsAssumption
<1>00. state # Absent => state \in CaseStates /\ creator \in Users
  BY DEF TypeOK, Started, Absent
<1>1. CASE AddMessage(t)
  BY <1>1, <1>00 DEF AddMessage, Begin
<1>2. ASSUME NEW u \in Users, SubmitToNo(t, u)
      PROVE  Begin(t, "submit_to_no", "submitted_to_no", u)
               /\ Handover(t, "submit_to_no", "submitted_to_no", u)
  BY <1>2 DEF SubmitToNo
<1>3. ASSUME NEW u \in Users, SubmitToHod(t, u)
      PROVE  Begin(t, "submit_to_hod", "submitted_to_hod", u)
               /\ Handover(t, "submit_to_hod", "submitted_to_hod", u)
  BY <1>3 DEF SubmitToHod
<1>4. ASSUME NEW u \in Users, Escalate(t, u)
      PROVE  Begin(t, "escalate", "escalated", u)
               /\ Handover(t, "escalate", "escalated", u)
  BY <1>4 DEF Escalate, HodDecision
<1>5. CASE ReturnToDo(t)
  <2>1. creator \in Users
    BY <1>5, <1>00 DEF ReturnToDo, Begin
  <2> QED BY <1>5, <2>1 DEF ReturnToDo
<1>6. CASE Verify(t)
  BY <1>6, <1>0 DEF Verify
<1>7. CASE ReturnToNo(t)
  BY <1>7 DEF ReturnToNo
<1>8. CASE Approve(t)
  BY <1>8, <1>0 DEF Approve, HodDecision
<1>9. CASE Reject(t)
  BY <1>9, <1>0 DEF Reject, HodDecision
<1> HIDE DEF Operations, CaseStates, Handover, Moves
<1>10. {"submit_to_no", "submit_to_hod", "escalate"} \subseteq Operations
       /\ {"submitted_to_no", "submitted_to_hod", "escalated"} \subseteq CaseStates
  BY DEF Operations, CaseStates
<1> QED
  BY <1>1, <1>2, <1>3, <1>4, <1>5, <1>6, <1>7, <1>8, <1>9, <1>10 DEF Start

-----------------------------------------------------------------------------
(* Type correctness.                                                       *)

\* A case that does not exist yet satisfies the inductive invariant.
LEMMA InitInductive == Init => Inductive
<1> SUFFICES ASSUME Init PROVE Inductive
  OBVIOUS
<1> USE DEF Init
<1>1. NoRequest \in Request
  BY DEF NoRequest, Request, Phases, Operations, CaseStates
<1>2. TypeOK
  BY <1>1, ConstantsAssumption DEF TypeOK, Absent
<1>3. Started /\ RequestsWellFormed /\ WritersOwn /\ ThreadHeld /\ MakerNeverChecks
  BY DEF Started, RequestsWellFormed, WritersOwn, ThreadHeld, Numbering, NoRequest,
         MakerNeverChecks
<1>4. TasksClaimed
  BY ConstantsAssumption DEF TasksClaimed, NoRequest
<1>5. MessagesDense
  BY DEF MessagesDense
<1> QED BY <1>2, <1>3, <1>4, <1>5 DEF Inductive

\* A session at rest has a request record of the right type.
LEMMA NoRequestType == NoRequest \in Request
BY DEF NoRequest, Request, Phases, Operations, CaseStates

\* A step that only moves requests, and moves them within their type.
LEMMA TypeStep ==
  ASSUME TypeOK, Started, RequestsWellFormed, TasksClaimed, [Next]_vars
  PROVE  TypeOK'
<1> USE ConstantsAssumption
<1>1. CASE UNCHANGED vars
  BY <1>1 DEF TypeOK, vars, Request, Transition
<1>2. ASSUME NEW t \in Tabs, CreateCase(t) PROVE TypeOK'
  BY <1>2 DEF CreateCase, TypeOK, CaseStates
<1>3. ASSUME NEW t \in Tabs, Start(t), ~CreateCase(t) PROVE TypeOK'
  <2>1. PICK op \in Operations, to \in CaseStates, a \in Users \cup {Nobody} :
          Begin(t, op, to, a)
    BY <1>3, StartBegins
  <2>2. state \in CaseStates
    BY <2>1 DEF Begin, TypeOK
  <2>3. [phase |-> "read", op |-> op, from |-> state, to |-> to,
         assignee |-> a, number |-> 0, closes |-> 0] \in Request
    BY <2>2 DEF Request, Phases
  <2>4. req' \in [Tabs -> Request]
    BY <2>1, <2>3 DEF Begin, TypeOK
  <2> QED BY <2>1, <2>4 DEF Begin, TypeOK, case, thread
<1>4. ASSUME NEW t \in Tabs, Prepare(t) PROVE TypeOK'
  <2>1. req[t] \in Request
    BY DEF TypeOK
  <2>2. ClosedTasks(t) \in Nat
    BY DEF ClosedTasks, TypeOK
  <2>3. req[t].op = "return_to_no" => LatestNodal \in Users
    BY <1>4, LatestNodalType DEF Prepare, PrepareAllowed, TimelineAllows, TypeOK
  <2> DEFINE r == [req[t] EXCEPT
               !.phase = "prepared",
               !.number = IF req[t].op = "add_message" THEN nextSequence ELSE @,
               !.closes = ClosedTasks(t),
               !.assignee = IF req[t].op = "return_to_no" THEN LatestNodal ELSE @]
  <2>4. r \in Request
    BY <2>1, <2>2, <2>3 DEF TypeOK, Request, Phases
  <2>5. req' = [req EXCEPT ![t] = r]
    BY <1>4, <2>1 DEF Prepare, TypeOK, Request
  <2>6. req' \in [Tabs -> Request]
    BY <2>4, <2>5 DEF TypeOK
  <2> QED BY <1>4, <2>6 DEF Prepare, TypeOK, case, thread
<1>5. ASSUME NEW t \in Tabs, InsertSummary(t) \/ SummaryReleased(t) PROVE TypeOK'
  <2>1. \E p \in Phases : req' = [req EXCEPT ![t] = [req[t] EXCEPT !.phase = p]]
    BY <1>5 DEF InsertSummary, SummaryReleased, TypeOK, Phases
  <2>2. req[t] \in Request
    BY DEF TypeOK
  <2>3. \A p \in Phases : [req[t] EXCEPT !.phase = p] \in Request
    BY <2>2 DEF Request
  <2>4. req' \in [Tabs -> Request]
    BY <2>1, <2>3 DEF TypeOK
  <2> QED BY <1>5, <2>4 DEF InsertSummary, SummaryReleased, TypeOK, case, thread
<1>6. ASSUME NEW t \in Tabs, CommitMessage(t) PROVE TypeOK'
  <2>1. req[t] \in Request
    BY DEF TypeOK
  <2>2. req[t].number \in Nat
    BY <2>1 DEF Request
  <2>3. req' \in [Tabs -> Request]
    BY <1>6, NoRequestType DEF CommitMessage, EndRequest, TypeOK
  <2> QED BY <1>6, <2>2, <2>3 DEF CommitMessage, TypeOK, case
<1>7. ASSUME NEW t \in Tabs, CommitHandoff(t) PROVE TypeOK'
  <2> USE <1>7 DEF CommitHandoff
  <2>1. req[t] \in Request /\ UserOf[t] \in Users
    BY DEF TypeOK
  <2>2. req[t].from \in CaseStates /\ req[t].to \in CaseStates /\ req[t].closes \in Nat
    BY <2>1 DEF Request
  <2>3. req[t].assignee \in Users
    BY DEF RequestsWellFormed, WellFormed
  <2>4. [from |-> req[t].from, to |-> req[t].to, actor |-> UserOf[t],
         assignee |-> req[t].assignee] \in Transition
    BY <2>1, <2>2, <2>3 DEF Transition
  <2>5. transitions' \in Seq(Transition)
    BY <2>4 DEF TypeOK
  <2>6. req[t].closes <= openTasks[UserOf[t]]
    BY DEF TasksClaimed
  <2>7. openTasks' \in [Users -> Nat]
    BY <2>1, <2>2, <2>6 DEF TypeOK
  <2>8. req' \in [Tabs -> Request]
    BY NoRequestType DEF EndRequest, TypeOK
  <2> QED BY <2>2, <2>3, <2>5, <2>7, <2>8 DEF TypeOK, thread
<1>8. ASSUME NEW t \in Tabs, Refuse(t) \/ Crash(t) PROVE TypeOK'
  <2>1. req' \in [Tabs -> Request]
    BY <1>8, NoRequestType DEF Refuse, Crash, TypeOK
  <2> QED BY <1>8, <2>1 DEF Refuse, Crash, TypeOK, case, thread
<1> QED
  BY <1>1, <1>2, <1>3, <1>4, <1>5, <1>6, <1>7, <1>8 DEF Next, Continue

-----------------------------------------------------------------------------
(* The other parts of the inductive invariant, one lemma each.             *)

\* A case that exists has a creator and an owner; nothing precedes it.
LEMMA StartedStep ==
  ASSUME TypeOK, Started, RequestsWellFormed, [Next]_vars
  PROVE  Started'
<1> USE ConstantsAssumption DEF Started
<1>1. CASE UNCHANGED vars
  BY <1>1 DEF vars
<1>2. ASSUME NEW t \in Tabs, CreateCase(t) PROVE Started'
  BY <1>2 DEF CreateCase, Absent
<1>3. ASSUME NEW t \in Tabs, Start(t), ~CreateCase(t) PROVE Started'
  BY <1>3, StartBegins DEF Begin, case
<1>4. ASSUME NEW t \in Tabs,
             Prepare(t) \/ InsertSummary(t) \/ SummaryReleased(t)
      PROVE  Started'
  <2>1. req[t].phase # "idle"
    BY <1>4 DEF Prepare, InsertSummary, SummaryReleased
  <2> QED BY <1>4, <2>1 DEF Prepare, InsertSummary, SummaryReleased, case
<1>5. ASSUME NEW t \in Tabs, CommitMessage(t) PROVE Started'
  BY <1>5 DEF CommitMessage, case
<1>6. ASSUME NEW t \in Tabs, CommitHandoff(t) PROVE Started'
  <2>1. req[t].to # Absent /\ req[t].assignee \in Users
    BY <1>6 DEF CommitHandoff, TypeOK, Request, CaseStates, Absent,
                RequestsWellFormed, WellFormed
  <2> QED BY <1>6, <2>1 DEF CommitHandoff
<1>7. ASSUME NEW t \in Tabs, Refuse(t) \/ Crash(t) PROVE Started'
  BY <1>7 DEF Refuse, Crash, case
<1> QED
  BY <1>1, <1>2, <1>3, <1>4, <1>5, <1>6, <1>7 DEF Next, Continue

\* What a request carries stays what its operation put in, and the maker of
\* the case never changes.
LEMMA WellFormedStep ==
  ASSUME TypeOK, Started, RequestsWellFormed, [Next]_vars
  PROVE  RequestsWellFormed'
<1> USE DEF RequestsWellFormed, WellFormed
<1>1. CASE UNCHANGED vars
  BY <1>1 DEF vars
<1>2. ASSUME NEW t \in Tabs, CreateCase(t) PROVE RequestsWellFormed'
  BY <1>2 DEF CreateCase, Started
<1>3. ASSUME NEW t \in Tabs, Start(t), ~CreateCase(t) PROVE RequestsWellFormed'
  <2>1. PICK op \in Operations, to \in CaseStates, a \in Users \cup {Nobody} :
          Begin(t, op, to, a) /\ Handover(t, op, to, a)
    BY <1>3, StartBegins
  <2>2. ASSUME NEW u \in Tabs, u # t PROVE req'[u] = req[u]
    BY <2>1, <2>2 DEF Begin, TypeOK
  <2>3. req'[t] = [phase |-> "read", op |-> op, from |-> state, to |-> to,
                   assignee |-> a, number |-> 0, closes |-> 0]
    BY <2>1 DEF Begin, TypeOK
  <2>4. creator' = creator
    BY <2>1 DEF Begin, case
  <2> QED BY <2>1, <2>2, <2>3, <2>4 DEF Handover
<1>4. ASSUME NEW t \in Tabs, Prepare(t) PROVE RequestsWellFormed'
  <2>1. req[t].op = "return_to_no" => LatestNodal \in Users
    BY <1>4, LatestNodalType DEF Prepare, PrepareAllowed, TimelineAllows, TypeOK
  <2>2. ASSUME NEW u \in Tabs, u # t PROVE req'[u] = req[u]
    BY <1>4, <2>2 DEF Prepare, TypeOK
  <2>3. /\ req'[t].op = req[t].op
        /\ req'[t].from = req[t].from
        /\ req'[t].to = req[t].to
        /\ req'[t].assignee =
             IF req[t].op = "return_to_no" THEN LatestNodal ELSE req[t].assignee
    BY <1>4 DEF Prepare, TypeOK, Request
  <2>4. creator' = creator
    BY <1>4 DEF Prepare, case
  <2>5. req[t].phase # "idle"
    BY <1>4 DEF Prepare
  <2> QED BY <2>1, <2>2, <2>3, <2>4, <2>5
<1>5. ASSUME NEW t \in Tabs, InsertSummary(t) \/ SummaryReleased(t)
      PROVE  RequestsWellFormed'
  <2>1. ASSUME NEW u \in Tabs, u # t PROVE req'[u] = req[u]
    BY <1>5, <2>1 DEF InsertSummary, SummaryReleased, TypeOK
  <2>2. /\ req'[t].op = req[t].op
        /\ req'[t].from = req[t].from
        /\ req'[t].to = req[t].to
        /\ req'[t].assignee = req[t].assignee
    BY <1>5 DEF InsertSummary, SummaryReleased, TypeOK, Request
  <2>3. creator' = creator
    BY <1>5 DEF InsertSummary, SummaryReleased, case
  <2>4. req[t].phase \notin {"idle", "read"}
    BY <1>5 DEF InsertSummary, SummaryReleased
  <2> QED BY <2>1, <2>2, <2>3, <2>4
<1>6. ASSUME NEW t \in Tabs,
             CommitMessage(t) \/ CommitHandoff(t) \/ Refuse(t) \/ Crash(t)
      PROVE  RequestsWellFormed'
  <2>1. \A u \in Tabs : req'[u] \in {req[u], NoRequest}
    BY <1>6 DEF CommitMessage, CommitHandoff, Refuse, Crash, EndRequest, TypeOK
  <2>2. creator' = creator
    BY <1>6 DEF CommitMessage, CommitHandoff, Refuse, Crash, case
  <2> QED BY <2>1, <2>2 DEF NoRequest
<1> QED
  BY <1>1, <1>2, <1>3, <1>4, <1>5, <1>6 DEF Next, Continue

\* Nobody completes a task that another request has completed.
LEMMA TasksStep ==
  ASSUME TypeOK, Started, RequestsWellFormed, TasksClaimed, [Next]_vars
  PROVE  TasksClaimed'
<1> USE ConstantsAssumption DEF TasksClaimed
<1>0. /\ \A u \in Tabs : UserOf[u] \in Users /\ req[u] \in Request
      /\ \A u \in Tabs : req[u].closes \in Nat
  BY DEF TypeOK, Request
<1>1. CASE UNCHANGED vars
  BY <1>1 DEF vars
<1>2. ASSUME NEW t \in Tabs, CreateCase(t) PROVE TasksClaimed'
  BY <1>2 DEF CreateCase
<1>3. ASSUME NEW t \in Tabs, Start(t), ~CreateCase(t) PROVE TasksClaimed'
  <2>1. PICK op \in Operations, to \in CaseStates, a \in Users \cup {Nobody} :
          Begin(t, op, to, a)
    BY <1>3, StartBegins
  <2>2. /\ req'[t].closes = 0
        /\ \A u \in Tabs : u # t => req'[u] = req[u]
        /\ openTasks' = openTasks
    BY <2>1 DEF Begin, TypeOK, case
  <2>3. openTasks[UserOf[t]] \in Nat
    BY <1>0 DEF TypeOK
  <2> QED BY <2>2, <2>3, <1>0
<1>4. ASSUME NEW t \in Tabs, Prepare(t) PROVE TasksClaimed'
  <2>1. /\ req'[t].closes = ClosedTasks(t)
        /\ req'[t].phase = "prepared"
        /\ \A u \in Tabs : u # t => req'[u] = req[u]
        /\ openTasks' = openTasks
    BY <1>4, <1>0 DEF Prepare, TypeOK, Request, case
  <2>2. openTasks[UserOf[t]] \in Nat
    BY <1>0 DEF TypeOK
  <2>3. ClosedTasks(t) <= openTasks[UserOf[t]]
    BY <2>2 DEF ClosedTasks
  <2>4. ClosedTasks(t) > 0 =>
          \A u \in Tabs : UserOf[u] = UserOf[t] => ~(req[u].closes > 0)
    BY <1>4 DEF Prepare, TasksLocked
  <2> HIDE DEF TasksClaimed
  <2>5. \A u \in Tabs : req'[u].closes <= openTasks'[UserOf[u]]
    BY <2>1, <2>3 DEF TasksClaimed
  <2>6. \A u \in Tabs : req'[u].phase \in {"idle", "read"} => req'[u].closes = 0
    BY <2>1 DEF TasksClaimed
  <2>7. \A u, w \in Tabs :
          UserOf[u] = UserOf[w] /\ req'[u].closes > 0 /\ req'[w].closes > 0 => u = w
    BY <2>1, <2>4 DEF TasksClaimed
  <2> QED BY <2>5, <2>6, <2>7 DEF TasksClaimed
<1>5. ASSUME NEW t \in Tabs, InsertSummary(t) \/ SummaryReleased(t)
      PROVE  TasksClaimed'
  <2>1. openTasks' = openTasks
    BY <1>5 DEF InsertSummary, SummaryReleased, case
  <2>2. ASSUME NEW u \in Tabs
        PROVE  /\ req'[u].closes = req[u].closes
               /\ req'[u].phase \in {"idle", "read"} =>
                    req[u].phase \in {"idle", "read"}
    <3>1. CASE u # t
      BY <1>5, <3>1 DEF InsertSummary, SummaryReleased, TypeOK
    <3>2. CASE u = t
      BY <1>5, <1>0, <3>2 DEF InsertSummary, SummaryReleased, TypeOK, Request
    <3> QED BY <3>1, <3>2
  <2> QED BY <2>1, <2>2
<1>6. ASSUME NEW t \in Tabs, CommitMessage(t) \/ Refuse(t) \/ Crash(t)
      PROVE  TasksClaimed'
  <2>1. \A u \in Tabs : req'[u] \in {req[u], NoRequest}
    BY <1>6 DEF CommitMessage, Refuse, Crash, EndRequest, TypeOK
  <2>2. openTasks' = openTasks
    BY <1>6 DEF CommitMessage, Refuse, Crash, case
  <2>3. \A u \in Tabs : openTasks[UserOf[u]] \in Nat
    BY <1>0 DEF TypeOK
  <2> QED BY <2>1, <2>2, <2>3, <1>0 DEF NoRequest
<1>7. ASSUME NEW t \in Tabs, CommitHandoff(t) PROVE TasksClaimed'
  <2>1. \A u \in Tabs : req'[u] \in {req[u], NoRequest}
    BY <1>7 DEF CommitHandoff, EndRequest, TypeOK
  <2>2. req'[t] = NoRequest
    BY <1>7 DEF CommitHandoff, EndRequest
  <2>3. \A u \in Tabs : openTasks[UserOf[u]] \in Nat /\ openTasks'[UserOf[u]] \in Nat
    <3>1. TypeOK'
      BY TypeStep
    <3> QED BY <3>1, <1>0 DEF TypeOK
  <2>4. ASSUME NEW u \in Tabs PROVE req'[u].closes <= openTasks'[UserOf[u]]
    <3>1. CASE req'[u] = NoRequest
      BY <3>1, <2>3 DEF NoRequest
    <3>2. CASE req'[u] # NoRequest
      <4>1. req'[u] = req[u] /\ u # t
        BY <3>2, <2>1, <2>2
      <4>2. CASE req[u].closes = 0
        BY <4>1, <4>2, <2>3
      <4>3. CASE req[u].closes > 0
        <5>1. UserOf[u] = UserOf[t] => req[t].closes = 0
          BY <4>1, <4>3, <1>0
        <5>2. openTasks'[UserOf[u]] =
                openTasks[UserOf[u]]
                + (IF /\ req[t].op \in {"return_to_do", "return_to_no"}
                      /\ UserOf[u] = req[t].assignee THEN 1 ELSE 0)
                - (IF UserOf[u] = UserOf[t] THEN req[t].closes ELSE 0)
          BY <1>7, <1>0 DEF CommitHandoff
        <5>3. openTasks[UserOf[u]] <= openTasks'[UserOf[u]]
          BY <5>1, <5>2, <2>3
        <5>4. req[u].closes <= openTasks[UserOf[u]]
          OBVIOUS
        <5> QED BY <4>1, <5>3, <5>4, <2>3, <1>0
      <4> QED BY <4>2, <4>3, <1>0
    <3> QED BY <3>1, <3>2
  <2> QED BY <2>1, <2>4, <1>0 DEF NoRequest
<1> QED
  BY <1>1, <1>2, <1>3, <1>4, <1>5, <1>6, <1>7 DEF Next, Continue

\* The primary key of the rolling summary admits one writer, and it ends the
\* requests that waited for it before the owner can change under them.
LEMMA WritersStep ==
  ASSUME TypeOK, Started, RequestsWellFormed, WritersOwn, [Next]_vars
  PROVE  WritersOwn'
<1> USE DEF WritersOwn, MayWrite
<1>1. CASE UNCHANGED vars
  BY <1>1 DEF vars
<1>2. ASSUME NEW t \in Tabs, CreateCase(t) PROVE WritersOwn'
  BY <1>2 DEF CreateCase, Started
<1>3. ASSUME NEW t \in Tabs, Start(t), ~CreateCase(t) PROVE WritersOwn'
  <2>1. PICK op \in Operations, to \in CaseStates, a \in Users \cup {Nobody} :
          Begin(t, op, to, a)
    BY <1>3, StartBegins
  <2>2. req'[t].phase = "read" /\ \A u \in Tabs : u # t => req'[u] = req[u]
    BY <2>1 DEF Begin, TypeOK
  <2>3. owner' = owner
    BY <2>1 DEF Begin, case
  <2> QED BY <2>2, <2>3
<1>4. ASSUME NEW t \in Tabs, Prepare(t) PROVE WritersOwn'
  <2>1. req'[t].phase = "prepared" /\ \A u \in Tabs : u # t => req'[u] = req[u]
    BY <1>4 DEF Prepare, TypeOK, Request
  <2>2. owner' = owner
    BY <1>4 DEF Prepare, case
  <2> QED BY <2>1, <2>2
<1>5. ASSUME NEW t \in Tabs, InsertSummary(t) \/ SummaryReleased(t) PROVE WritersOwn'
  <2>1. \A u \in Tabs : u # t => req'[u] = req[u]
    BY <1>5 DEF InsertSummary, SummaryReleased, TypeOK
  <2>2. owner' = owner
    BY <1>5 DEF InsertSummary, SummaryReleased, case
  <2>3. owner = UserOf[t] \/ IsAdmin(t)
    BY <1>5 DEF InsertSummary, SummaryReleased
  <2>4. req'[t].phase = "writing" => \A u \in Tabs : req[u].phase # "writing"
    BY <1>5 DEF InsertSummary, SummaryReleased, SummaryTaken, TypeOK, Request
  <2> QED BY <2>1, <2>2, <2>3, <2>4 DEF IsAdmin
<1>6. ASSUME NEW t \in Tabs, CommitMessage(t) \/ CommitHandoff(t) PROVE WritersOwn'
  <2>1. req[t].phase = "writing" /\ EndRequest(t)
    BY <1>6 DEF CommitMessage, CommitHandoff
  <2>2. \A u \in Tabs : req'[u].phase \notin {"waiting", "writing"}
    BY <2>1 DEF EndRequest, NoRequest
  <2> QED BY <2>2
<1>7. ASSUME NEW t \in Tabs, Refuse(t) \/ Crash(t) PROVE WritersOwn'
  <2>1. \A u \in Tabs : req'[u] \in {req[u], NoRequest}
    BY <1>7 DEF Refuse, Crash, TypeOK
  <2>2. owner' = owner
    BY <1>7 DEF Refuse, Crash, case
  <2> QED BY <2>1, <2>2 DEF NoRequest, IsAdmin
<1> QED
  BY <1>1, <1>2, <1>3, <1>4, <1>5, <1>6, <1>7 DEF Next, Continue

\* The row lock on case_thread keeps an allocated number the next one.
LEMMA ThreadStep ==
  ASSUME TypeOK, Started, RequestsWellFormed, ThreadHeld, [Next]_vars
  PROVE  ThreadHeld'
<1> USE DEF ThreadHeld, Numbering
<1>1. CASE UNCHANGED vars
  BY <1>1 DEF vars
<1>2. ASSUME NEW t \in Tabs, CreateCase(t) PROVE ThreadHeld'
  BY <1>2 DEF CreateCase, Started
<1>3. ASSUME NEW t \in Tabs, Start(t), ~CreateCase(t) PROVE ThreadHeld'
  <2>1. PICK op \in Operations, to \in CaseStates, a \in Users \cup {Nobody} :
          Begin(t, op, to, a)
    BY <1>3, StartBegins
  <2>2. req'[t].phase = "read" /\ \A u \in Tabs : u # t => req'[u] = req[u]
    BY <2>1 DEF Begin, TypeOK
  <2>3. nextSequence' = nextSequence
    BY <2>1 DEF Begin, thread
  <2> QED BY <2>2, <2>3
<1>4. ASSUME NEW t \in Tabs, Prepare(t) PROVE ThreadHeld'
  <2>1. \A u \in Tabs : u # t => req'[u] = req[u]
    BY <1>4 DEF Prepare, TypeOK
  <2>2. /\ req'[t].op = req[t].op
        /\ req[t].op = "add_message" => req'[t].number = nextSequence
    BY <1>4 DEF Prepare, TypeOK, Request
  <2>3. nextSequence' = nextSequence
    BY <1>4 DEF Prepare, thread
  <2>4. req[t].op = "add_message" => \A u \in Tabs : ~Numbering(u)
    BY <1>4 DEF Prepare, ThreadLocked
  <2> QED BY <2>1, <2>2, <2>3, <2>4
<1>5. ASSUME NEW t \in Tabs, InsertSummary(t) \/ SummaryReleased(t) PROVE ThreadHeld'
  <2>1. \A u \in Tabs : u # t => req'[u] = req[u]
    BY <1>5 DEF InsertSummary, SummaryReleased, TypeOK
  <2>2. req'[t].op = req[t].op /\ req'[t].number = req[t].number
    BY <1>5 DEF InsertSummary, SummaryReleased, TypeOK, Request
  <2>3. nextSequence' = nextSequence /\ req[t].phase \in {"prepared", "waiting"}
    BY <1>5 DEF InsertSummary, SummaryReleased, thread
  <2> QED BY <2>1, <2>2, <2>3
<1>6. ASSUME NEW t \in Tabs, CommitMessage(t) PROVE ThreadHeld'
  <2>1. Numbering(t)
    BY <1>6 DEF CommitMessage
  <2>2. \A u \in Tabs : ~Numbering(u)'
    BY <1>6, <2>1 DEF CommitMessage, EndRequest, NoRequest
  <2> QED BY <2>2
<1>7. ASSUME NEW t \in Tabs, CommitHandoff(t) \/ Refuse(t) \/ Crash(t)
      PROVE  ThreadHeld'
  <2>1. \A u \in Tabs : req'[u] \in {req[u], NoRequest}
    BY <1>7 DEF CommitHandoff, EndRequest, Refuse, Crash, TypeOK
  <2>2. nextSequence' = nextSequence
    BY <1>7 DEF CommitHandoff, Refuse, Crash, thread
  <2> QED BY <2>1, <2>2 DEF NoRequest
<1> QED
  BY <1>1, <1>2, <1>3, <1>4, <1>5, <1>6, <1>7 DEF Next, Continue

\* A step that adds no message keeps the numbering as it is.
LEMMA MessagesStep ==
  ASSUME TypeOK, Started, RequestsWellFormed, ThreadHeld, MessagesDense,
         nextSequence # 0, [Next]_vars
  PROVE  MessagesDense' /\ nextSequence' # 0
<1>1. CASE UNCHANGED thread
  BY <1>1 DEF thread, MessagesDense
<1>2. ASSUME NEW t \in Tabs, CreateCase(t) PROVE MessagesDense' /\ nextSequence' # 0
  BY <1>2 DEF CreateCase, MessagesDense
<1>3. ASSUME NEW t \in Tabs, CommitMessage(t)
      PROVE  MessagesDense' /\ nextSequence' # 0
  <2>1. req[t].number = nextSequence /\ nextSequence \in Nat
    BY <1>3 DEF CommitMessage, ThreadHeld, Numbering, TypeOK
  <2> DEFINE m == [number |-> nextSequence, author |-> UserOf[t]]
  <2>2. nextSequence' = nextSequence + 1 /\ messages' = messages \cup {m}
    BY <1>3, <2>1 DEF CommitMessage
  <2>3. \A n \in messages : n.number \in 1..(nextSequence - 1)
    BY DEF MessagesDense
  <2>m. m.number = nextSequence
    OBVIOUS
  <2> HIDE DEF m
  <2>4. {n.number : n \in messages'} = {n.number : n \in messages} \cup {nextSequence}
    BY <2>2, <2>m
  <2>5. {n.number : n \in messages'} = 1..(nextSequence' - 1)
    BY <2>1, <2>2, <2>4 DEF MessagesDense
  <2>6. \A n \in messages : n.number # m.number
    BY <2>1, <2>3, <2>m
  <2>7. \A n1, n2 \in messages' : n1.number = n2.number => n1 = n2
    BY <2>2, <2>6 DEF MessagesDense
  <2> QED BY <2>1, <2>2, <2>5, <2>7 DEF MessagesDense
<1>4. ASSUME NEW t \in Tabs, Start(t), ~CreateCase(t) PROVE UNCHANGED thread
  BY <1>4, StartBegins DEF Begin
<1>5. CASE UNCHANGED vars
  BY <1>5, <1>1 DEF vars, thread
<1> QED
  BY <1>1, <1>2, <1>3, <1>4, <1>5
     DEF Next, Continue, Prepare, InsertSummary, SummaryReleased, CommitHandoff,
         Refuse, Crash

\* The transition a request appends was checked against the creator, who
\* does not change.
LEMMA MakerStep ==
  ASSUME TypeOK, Started, RequestsWellFormed, MakerNeverChecks, [Next]_vars
  PROVE  MakerNeverChecks'
<1> USE DEF MakerNeverChecks
<1>1. CASE UNCHANGED <<transitions, creator>>
  BY <1>1
<1>2. ASSUME NEW t \in Tabs, CreateCase(t) PROVE MakerNeverChecks'
  BY <1>2 DEF CreateCase, Started
<1>3. ASSUME NEW t \in Tabs, CommitHandoff(t) PROVE MakerNeverChecks'
  <2> DEFINE new == [from |-> req[t].from, to |-> req[t].to, actor |-> UserOf[t],
                     assignee |-> req[t].assignee]
  <2>1. creator' = creator /\ transitions' = Append(transitions, new)
    BY <1>3 DEF CommitHandoff
  <2>2. new.to \in {"verified_by_no", "approved", "rejected", "escalated"} =>
          new.actor # creator
    BY <1>3 DEF CommitHandoff, RequestsWellFormed, WellFormed, Moves
  <2> HIDE DEF new
  <2>3. /\ transitions \in Seq(Transition) /\ Len(transitions) \in Nat
        /\ Len(transitions') = Len(transitions) + 1
        /\ \A i \in 1..Len(transitions) : transitions'[i] = transitions[i]
        /\ transitions'[Len(transitions) + 1] = new
    BY <2>1 DEF TypeOK
  <2> QED BY <2>1, <2>2, <2>3
<1>4. ASSUME NEW t \in Tabs, Start(t), ~CreateCase(t)
      PROVE  UNCHANGED <<transitions, creator>>
  BY <1>4, StartBegins DEF Begin, case
<1>5. CASE UNCHANGED vars
  BY <1>5, <1>1 DEF vars
<1> QED
  BY <1>1, <1>2, <1>3, <1>4, <1>5
     DEF Next, Continue, Prepare, InsertSummary, SummaryReleased, CommitMessage,
         Refuse, Crash, case

-----------------------------------------------------------------------------
(* Theorems.                                                               *)

\* Spec keeps the inductive invariant.
THEOREM InductiveInvariant == Spec => []Inductive
<1>1. Init => Inductive
  BY InitInductive
<1>2. Inductive /\ [Next]_vars => Inductive'
  <2> SUFFICES ASSUME Inductive, [Next]_vars PROVE Inductive'
    OBVIOUS
  <2> USE DEF Inductive
  <2>1. TypeOK' /\ Started' /\ RequestsWellFormed'
    BY TypeStep, StartedStep, WellFormedStep
  <2>2. TasksClaimed' /\ WritersOwn' /\ ThreadHeld'
    BY TasksStep, WritersStep, ThreadStep
  <2>3. MessagesDense' /\ nextSequence' # 0 /\ MakerNeverChecks'
    BY MessagesStep, MakerStep
  <2> QED BY <2>1, <2>2, <2>3
<1> QED BY <1>1, <1>2, PTL DEF Spec

\* Every variable keeps its type, for every office and every bound.
THEOREM TypeCorrect == Spec => []TypeOK
<1>1. Inductive => TypeOK
  BY DEF Inductive
<1> QED BY <1>1, InductiveInvariant, PTL

\* One transaction at a time writes the case, and for its present owner.
THEOREM OneWriterWhoOwns == Spec => []WriterStillOwns
<1>1. Inductive => WriterStillOwns
  BY DEF Inductive, WritersOwn, WriterStillOwns
<1> QED BY <1>1, InductiveInvariant, PTL

\* Message numbers have no gap and no repetition.
THEOREM NumbersAreDense == Spec => []MessagesDense
<1>1. Inductive => MessagesDense
  BY DEF Inductive
<1> QED BY <1>1, InductiveInvariant, PTL

\* The maker of a case never verifies or decides it.
THEOREM MakerIsNotChecker == Spec => []MakerNeverChecks
<1>1. Inductive => MakerNeverChecks
  BY DEF Inductive
<1> QED BY <1>1, InductiveInvariant, PTL

-----------------------------------------------------------------------------
(* With one session per subject and no Administrator the requests of an    *)
(* office implement the atomic life cycle.                                 *)

OneTabPerUser == \A t, u \in Tabs : UserOf[t] = UserOf[u] => t = u

NoAdmins == \A t \in Tabs : ~IsAdmin(t)

\* The Nodal Officer the case was last given to, if any.
LastNodal == IF NodalTransitions = {} THEN Nobody ELSE LatestNodal

\* A request in flight belongs to the owner and what it has read is current.
Fresh ==
  \A t \in Tabs : req[t].phase # "idle" =>
    /\ owner = UserOf[t]
    /\ req[t].op # "add_message" => req[t].from = state
    /\ req[t].phase # "read" => TimelineAllows(t)
    /\ req[t].phase # "read" /\ req[t].op = "return_to_no" =>
         req[t].assignee = LatestNodal

\* PostgresCaseStore.transition appends one row and leaves the others.
LEMMA AppendedTransition ==
  ASSUME TypeOK, NEW t \in Tabs, CommitHandoff(t)
  PROVE  /\ Len(transitions) \in Nat
         /\ Len(transitions') = Len(transitions) + 1
         /\ \A i \in 1..Len(transitions) : transitions'[i] = transitions[i]
         /\ transitions'[Len(transitions')].to = req[t].to
         /\ transitions'[Len(transitions')].actor = UserOf[t]
         /\ transitions'[Len(transitions')].assignee = req[t].assignee
         /\ transitions'[Len(transitions')].from = req[t].from
<1> DEFINE new == [from |-> req[t].from, to |-> req[t].to, actor |-> UserOf[t],
                   assignee |-> req[t].assignee]
<1>1. /\ new.to = req[t].to /\ new.actor = UserOf[t]
      /\ new.assignee = req[t].assignee /\ new.from = req[t].from
  OBVIOUS
<1>2. transitions' = Append(transitions, new)
  BY DEF CommitHandoff
<1> HIDE DEF new
<1> QED BY <1>1, <1>2 DEF TypeOK

\* A handoff adds its actor to the verifiers when it verifies.
LEMMA VerifiersAfter ==
  ASSUME TypeOK, NEW t \in Tabs, CommitHandoff(t)
  PROVE  Verifiers' = IF req[t].to = "verified_by_no"
                      THEN Verifiers \cup {UserOf[t]} ELSE Verifiers
<1>1. UserOf[t] \in Users
  BY ConstantsAssumption
<1> DEFINE n == Len(transitions)
<1>2. 1..n \subseteq 1..(n + 1) /\ 1..(n + 1) = 1..n \cup {n + 1} /\ n \in Nat
  BY AppendedTransition
<1>3. ASSUME NEW u \in Users
      PROVE  u \in Verifiers' <=>
               u \in Verifiers \/ (req[t].to = "verified_by_no" /\ u = UserOf[t])
  BY <1>2, AppendedTransition DEF Verifiers
<1>4. Verifiers \subseteq Users /\ Verifiers' \subseteq Users
  BY DEF Verifiers
<1> QED BY <1>1, <1>3, <1>4

\* A handoff to the Nodal Officer role sets the last Nodal Officer.
LEMMA LastNodalAfter ==
  ASSUME TypeOK, NEW t \in Tabs, CommitHandoff(t)
  PROVE  LastNodal' =
           IF req[t].to \in {"submitted_to_no", "verified_by_no", "returned_to_no"}
           THEN req[t].assignee ELSE LastNodal
<1> DEFINE n == Len(transitions)
<1>1. n \in Nat /\ Len(transitions') = n + 1
  BY AppendedTransition
<1>2. CASE req[t].to \in {"submitted_to_no", "verified_by_no", "returned_to_no"}
  <2>1. n + 1 \in NodalTransitions'
    BY <1>1, <1>2, AppendedTransition DEF NodalTransitions
  <2>2. \A j \in NodalTransitions' : j \in Nat /\ j <= n + 1
    BY <1>1 DEF NodalTransitions
  <2> DEFINE last == CHOOSE i \in NodalTransitions' :
                       \A j \in NodalTransitions' : j <= i
  <2>3. last \in NodalTransitions' /\ \A j \in NodalTransitions' : j <= last
    BY <2>1, <2>2
  <2>4. LatestNodal' = transitions'[last].assignee
    BY DEF LatestNodal
  <2> HIDE DEF last
  <2>5. last = n + 1
    BY <2>1, <2>2, <2>3, <1>1
  <2> QED BY <1>1, <1>2, <2>1, <2>4, <2>5, AppendedTransition DEF LastNodal
<1>3. CASE req[t].to \notin {"submitted_to_no", "verified_by_no", "returned_to_no"}
  <2>1. NodalTransitions' = NodalTransitions
    BY <1>1, <1>3, AppendedTransition DEF NodalTransitions
  <2>2. CASE NodalTransitions = {}
    BY <1>3, <2>1, <2>2 DEF LastNodal
  <2>3. CASE NodalTransitions # {}
    <3> DEFINE last == CHOOSE i \in NodalTransitions :
                         \A j \in NodalTransitions : j <= i
    <3>1. last \in NodalTransitions
      <4>1. NodalTransitions \subseteq 1..n
        BY DEF NodalTransitions
      <4> QED BY <4>1, <1>1, <2>3, LargestIndex
    <3>2. LatestNodal = transitions[last].assignee
      BY DEF LatestNodal
    <3>3. LatestNodal' = transitions'[last].assignee
      BY <2>1 DEF LatestNodal
    <3>4. last \in 1..n
      BY <3>1 DEF NodalTransitions
    <3> HIDE DEF last
    <3>5. transitions'[last] = transitions[last]
      BY <3>4, AppendedTransition
    <3> QED BY <1>3, <2>1, <2>3, <3>2, <3>3, <3>5 DEF LastNodal
  <2> QED BY <2>2, <2>3
<1> QED BY <1>2, <1>3

\* What a request in flight has read stays true until it ends.
LEMMA FreshStep ==
  ASSUME OneTabPerUser, NoAdmins, TypeOK, Started, RequestsWellFormed, Fresh,
         [Next]_vars
  PROVE  Fresh'
<1> USE DEF Fresh, TimelineAllows
<1>0. ASSUME UNCHANGED case
      PROVE  /\ owner' = owner /\ state' = state
             /\ Verifiers' = Verifiers /\ NodalTransitions' = NodalTransitions
             /\ LatestNodal' = LatestNodal
  BY <1>0 DEF case, Verifiers, NodalTransitions, LatestNodal
<1>1. CASE UNCHANGED vars
  <2>1. UNCHANGED case /\ req' = req
    BY <1>1 DEF vars, case
  <2> QED BY <2>1, <1>0
<1>2. ASSUME NEW t \in Tabs, CreateCase(t) PROVE Fresh'
  BY <1>2 DEF CreateCase, Started
<1>3. ASSUME NEW t \in Tabs, Start(t), ~CreateCase(t) PROVE Fresh'
  <2>1. PICK op \in Operations, to \in CaseStates, a \in Users \cup {Nobody} :
          Begin(t, op, to, a)
    BY <1>3, StartBegins
  <2>2. /\ req'[t] = [phase |-> "read", op |-> op, from |-> state, to |-> to,
                       assignee |-> a, number |-> 0, closes |-> 0]
        /\ \A u \in Tabs : u # t => req'[u] = req[u]
        /\ UNCHANGED case
    BY <2>1 DEF Begin, TypeOK
  <2>3. owner = UserOf[t]
    BY <2>1 DEF Begin, MayWrite, NoAdmins
  <2> QED BY <2>2, <2>3, <1>0
<1>4. ASSUME NEW t \in Tabs, Prepare(t) PROVE Fresh'
  <2>1. /\ req[t].phase = "read" /\ TimelineAllows(t) /\ UNCHANGED case
        /\ \A u \in Tabs : u # t => req'[u] = req[u]
    BY <1>4 DEF Prepare, PrepareAllowed, TypeOK
  <2>2. /\ req'[t].op = req[t].op
        /\ req'[t].from = req[t].from
        /\ req[t].op = "return_to_no" => req'[t].assignee = LatestNodal
    BY <1>4 DEF Prepare, TypeOK, Request
  <2> QED BY <2>1, <2>2, <1>0
<1>5. ASSUME NEW t \in Tabs, InsertSummary(t) \/ SummaryReleased(t) PROVE Fresh'
  <2>1. /\ req[t].phase \in {"prepared", "waiting"} /\ UNCHANGED case
        /\ \A u \in Tabs : u # t => req'[u] = req[u]
    BY <1>5 DEF InsertSummary, SummaryReleased, TypeOK
  <2>2. /\ req'[t].op = req[t].op
        /\ req'[t].from = req[t].from
        /\ req'[t].assignee = req[t].assignee
    BY <1>5 DEF InsertSummary, SummaryReleased, TypeOK, Request
  <2> QED BY <2>1, <2>2, <1>0
<1>6. ASSUME NEW t \in Tabs, CommitMessage(t) \/ Refuse(t) \/ Crash(t) PROVE Fresh'
  <2>1. UNCHANGED case /\ \A u \in Tabs : req'[u] \in {req[u], NoRequest}
    BY <1>6 DEF CommitMessage, EndRequest, Refuse, Crash, TypeOK
  <2> QED BY <2>1, <1>0 DEF NoRequest
<1>7. ASSUME NEW t \in Tabs, CommitHandoff(t) PROVE Fresh'
  <2>1. \A u \in Tabs : req[u].phase # "idle" => u = t
    BY <1>7 DEF CommitHandoff, OneTabPerUser
  <2>2. \A u \in Tabs : req'[u].phase = "idle"
    BY <1>7, <2>1 DEF CommitHandoff, EndRequest, NoRequest
  <2> QED BY <2>2
<1> QED
  BY <1>1, <1>2, <1>3, <1>4, <1>5, <1>6, <1>7 DEF Next, Continue

\* A step of a request is a step of the life cycle, or none at all.
LEMMA LifecycleStep ==
  ASSUME OneTabPerUser, NoAdmins, Inductive, Fresh, [Next]_vars
  PROVE  [Lifecycle!Next]_(Lifecycle!vars)
<1> USE DEF Inductive
<1>0. ASSUME UNCHANGED case PROVE UNCHANGED Lifecycle!vars
  BY <1>0 DEF case, Lifecycle!vars, Verifiers, NodalTransitions, LatestNodal
<1>1. ASSUME NEW t \in Tabs, CreateCase(t) PROVE Lifecycle!Next
  <2>1. UserOf[t] \in Users
    BY ConstantsAssumption
  <2>2. UNCHANGED <<Verifiers, LastNodal>>
    BY <1>1 DEF CreateCase, Verifiers, LastNodal, NodalTransitions, LatestNodal
  <2>3. Lifecycle!Create(UserOf[t])
    BY <1>1, <2>2 DEF CreateCase, Lifecycle!Create, Absent, LastNodal
  <2> QED BY <2>1, <2>3 DEF Lifecycle!Next
<1>2. ASSUME NEW t \in Tabs, CommitHandoff(t) PROVE Lifecycle!Next
  <2> DEFINE p == UserOf[t]
             q == req[t].assignee
  <2>1. p \in Users /\ req[t].phase = "writing"
    BY <1>2, ConstantsAssumption DEF CommitHandoff
  <2>2. /\ owner = p /\ req[t].from = state /\ TimelineAllows(t)
        /\ req[t].op = "return_to_no" => q = LatestNodal /\ q = LastNodal
    BY <1>2, <2>1 DEF Fresh, CommitHandoff, TimelineAllows, LastNodal
  <2>3. /\ state' = req[t].to /\ owner' = q /\ creator' = creator
        /\ Verifiers' = IF req[t].to = "verified_by_no"
                        THEN Verifiers \cup {p} ELSE Verifiers
        /\ LastNodal' =
             IF req[t].to \in {"submitted_to_no", "verified_by_no", "returned_to_no"}
             THEN q ELSE LastNodal
    BY <1>2, VerifiersAfter, LastNodalAfter DEF CommitHandoff
  <2>4. WellFormed(t) /\ q \in Users /\ <<req[t].op, state, req[t].to>> \in Moves
    BY <1>2, <2>1, <2>2 DEF RequestsWellFormed, WellFormed, CommitHandoff
  <2> DEFINE LV == <<Verifiers, LastNodal>>
  <2>5. CASE req[t].op = "submit_to_no"
    <3>1. Lifecycle!Submit(p, q)
      BY <2>2, <2>3, <2>4, <2>5 DEF Lifecycle!Submit, Moves, LastNodal
    <3> QED BY <2>1, <2>4, <3>1 DEF Lifecycle!Next
  <2>6. CASE req[t].op = "return_to_do"
    <3>1. Lifecycle!SendBack(p)
      BY <2>2, <2>3, <2>4, <2>6 DEF Lifecycle!SendBack, Moves, LastNodal, WellFormed
    <3> QED BY <2>1, <3>1 DEF Lifecycle!Next
  <2>7. CASE req[t].op = "verify"
    <3>1. Lifecycle!Verify(p)
      BY <2>2, <2>3, <2>4, <2>7 DEF Lifecycle!Verify, Moves, LastNodal, WellFormed
    <3> QED BY <2>1, <3>1 DEF Lifecycle!Next
  <2>8. CASE req[t].op = "submit_to_hod"
    <3>1. Lifecycle!Forward(p, q)
      BY <2>2, <2>3, <2>4, <2>8 DEF Lifecycle!Forward, Moves, LastNodal
    <3> QED BY <2>1, <2>4, <3>1 DEF Lifecycle!Next
  <2>9. CASE req[t].op = "return_to_no"
    <3>1. Lifecycle!SendDown(p)
      BY <2>2, <2>3, <2>4, <2>9 DEF Lifecycle!SendDown, Moves, LastNodal
    <3> QED BY <2>1, <3>1 DEF Lifecycle!Next
  <2>10. CASE req[t].op \in {"approve", "reject", "escalate"}
    <3>1. Lifecycle!Decide(p, q)
      BY <2>2, <2>3, <2>4, <2>10
         DEF Lifecycle!Decide, Moves, LastNodal, WellFormed, TimelineAllows
    <3> QED BY <2>1, <2>4, <3>1 DEF Lifecycle!Next
  <2>11. req[t] \in Request /\ req[t].op # "add_message"
    BY <1>2 DEF CommitHandoff, TypeOK
  <2> QED
    BY <2>5, <2>6, <2>7, <2>8, <2>9, <2>10, <2>11 DEF Request, Operations
<1>3. ASSUME NEW t \in Tabs, Start(t), ~CreateCase(t) PROVE UNCHANGED case
  BY <1>3, StartBegins DEF Begin
<1>4. CASE UNCHANGED vars
  BY <1>4, <1>0 DEF vars, case
<1> QED
  BY <1>0, <1>1, <1>2, <1>3, <1>4
     DEF Next, Continue, Prepare, InsertSummary, SummaryReleased, CommitMessage,
         Refuse, Crash

\* One session per subject and no Administrator: the case workflow implements
\* the life cycle of CaseLifecycle, requests, rollbacks and all.
THEOREM ImplementsLifecycle ==
  ASSUME OneTabPerUser, NoAdmins
  PROVE  Spec => LifecycleSpec
<1>1. Init => Lifecycle!Init
  BY DEF Init, Lifecycle!Init, Absent, Verifiers, NodalTransitions
<1>2. Init => Fresh
  BY DEF Init, Fresh, NoRequest
<1>3. Inductive /\ Fresh /\ [Next]_vars => Fresh'
  BY FreshStep DEF Inductive
<1>4. Inductive /\ Fresh /\ [Next]_vars => [Lifecycle!Next]_(Lifecycle!vars)
  BY LifecycleStep
<1> QED
  BY <1>1, <1>2, <1>3, <1>4, InductiveInvariant, PTL
     DEF Spec, LifecycleSpec, Lifecycle!Spec

\* The states approve, reject and escalate lead to.
Decisions == {"approved", "rejected", "escalated"}

\* The history ends in the present state, and a decision ends the history.
HistoryEndsHere ==
  /\ state = IF transitions = << >>
             THEN IF creator = Nobody THEN Absent ELSE "draft"
             ELSE transitions[Len(transitions)].to
  /\ \A i \in 1..Len(transitions) :
       transitions[i].to \in Decisions => state \in Decisions

\* The inductive invariant behind HistoryIsLegal.
History == LegalHistory /\ VerifierNeverDecides /\ HistoryEndsHere

\* A transition appended by a fresh request continues the history.
LEMMA HistoryStep ==
  ASSUME OneTabPerUser, NoAdmins, Inductive, Fresh, History, [Next]_vars
  PROVE  History'
<1> USE DEF History, LegalHistory, VerifierNeverDecides, HistoryEndsHere
<1>1. CASE UNCHANGED case
  BY <1>1 DEF case
<1>2. ASSUME NEW t \in Tabs, CreateCase(t) PROVE History'
  <2>1. transitions = << >> /\ transitions' = transitions
    BY <1>2 DEF CreateCase, Inductive, Started
  <2>2. state' = "draft" /\ creator' # Nobody
    BY <1>2, ConstantsAssumption DEF CreateCase
  <2> QED BY <2>1, <2>2
<1>3. ASSUME NEW t \in Tabs, CommitHandoff(t) PROVE History'
  <2> DEFINE n == Len(transitions)
  <2>1. TypeOK /\ req[t].phase = "writing" /\ req[t].op # "add_message"
    BY <1>3 DEF CommitHandoff, Inductive
  <2>2. /\ n \in Nat /\ Len(transitions') = n + 1
        /\ \A i \in 1..n : transitions'[i] = transitions[i]
        /\ transitions'[n + 1].to = req[t].to
        /\ transitions'[n + 1].actor = UserOf[t]
        /\ transitions'[n + 1].from = req[t].from
    BY <1>3, <2>1, AppendedTransition
  <2>3. req[t].from = state /\ TimelineAllows(t)
    BY <2>1 DEF Fresh, TimelineAllows
  <2>4. <<req[t].op, state, req[t].to>> \in Moves /\ state' = req[t].to
    BY <1>3, <2>1, <2>3 DEF Inductive, RequestsWellFormed, WellFormed, CommitHandoff
  <2>5. state \notin Decisions /\ state # Absent
    BY <2>4 DEF Moves, Decisions, Absent
  <2>6. \A i \in 1..n : transitions[i].to \notin Decisions
    BY <2>5
  <2>7. state = IF n = 0 THEN "draft" ELSE transitions[n].to
    BY <2>1, <2>2, <2>5 DEF TypeOK
  <2>8. ASSUME NEW i \in 1..(n + 1)
        PROVE  transitions'[i].from = IF i = 1 THEN "draft" ELSE transitions'[i - 1].to
    <3>1. CASE i = n + 1
      <4>1. n # 0 => i - 1 = n /\ n \in 1..n /\ transitions'[i - 1] = transitions[n]
        BY <3>1, <2>2
      <4> QED BY <3>1, <4>1, <2>2, <2>3, <2>7
    <3>2. CASE i \in 1..n
      <4>1. i # 1 => i - 1 \in 1..n
        BY <3>2, <2>2
      <4>2. transitions[i].from = IF i = 1 THEN "draft" ELSE transitions[i - 1].to
        BY <3>2
      <4> QED BY <3>2, <4>1, <4>2, <2>2
    <3> QED BY <3>1, <3>2, <2>2
  <2>9. VerifierNeverDecides'
    <3>1. req[t].to \in Decisions => UserOf[t] \notin Verifiers
      BY <2>3, <2>4 DEF TimelineAllows, Moves, Decisions
    <3>2. \A i \in 1..n : transitions[i].to = "verified_by_no" =>
            transitions[i].actor \in Verifiers
      <4> SUFFICES ASSUME NEW i \in 1..n, transitions[i].to = "verified_by_no"
                   PROVE  transitions[i].actor \in Verifiers
        OBVIOUS
      <4>1. transitions[i] \in Transition
        BY <2>1 DEF TypeOK
      <4>2. transitions[i].actor \in Users
        BY <4>1 DEF Transition
      <4> QED BY <4>2 DEF Verifiers
    <3>3. SUFFICES ASSUME NEW i \in 1..(n + 1), NEW j \in 1..(n + 1),
                          transitions'[i].to = "verified_by_no",
                          transitions'[j].to \in Decisions
                   PROVE  transitions'[i].actor # transitions'[j].actor
      BY <2>2 DEF Decisions
    <3>4. j = n + 1 /\ i \in 1..n
      BY <2>2, <2>6, <3>3 DEF Decisions
    <3> QED BY <2>2, <3>1, <3>2, <3>3, <3>4
  <2>10. HistoryEndsHere'
    <3>1. transitions' # << >>
      BY <2>2
    <3> QED BY <2>2, <2>4, <2>6, <3>1
  <2>11. LegalHistory'
    BY <2>2, <2>8
  <2> QED BY <2>9, <2>10, <2>11
<1>4. ASSUME NEW t \in Tabs, Start(t), ~CreateCase(t) PROVE UNCHANGED case
  BY <1>4, StartBegins DEF Begin, Inductive
<1>5. CASE UNCHANGED vars
  BY <1>5, <1>1 DEF vars, case
<1> QED
  BY <1>1, <1>2, <1>3, <1>4, <1>5
     DEF Next, Continue, Prepare, InsertSummary, SummaryReleased, CommitMessage,
         Refuse, Crash

\* One session per subject and no Administrator: every transition starts where
\* the one before it ended.
THEOREM HistoryIsLegal ==
  ASSUME OneTabPerUser, NoAdmins
  PROVE  Spec => [](LegalHistory /\ VerifierNeverDecides)
<1>1. Init => Fresh /\ History
  BY DEF Init, Fresh, NoRequest, History, LegalHistory, VerifierNeverDecides,
         HistoryEndsHere
<1>2. Inductive /\ Fresh /\ History /\ [Next]_vars => Fresh' /\ History'
  BY FreshStep, HistoryStep DEF Inductive
<1>3. History => LegalHistory /\ VerifierNeverDecides
  BY DEF History
<1> QED BY <1>1, <1>2, <1>3, InductiveInvariant, PTL DEF Spec

-----------------------------------------------------------------------------
(* The capsule of a handover.                                              *)

\* The capsule of a numbering without gaps has its last number.
LEMMA CapsuleCovers ==
  ASSUME NEW n \in Nat, NEW s, s.numbers = 1..(n - 1)
  PROVE  \A k \in s.numbers : k <= Capsule(s).latest /\ Capsule(s).latest \in Nat
<1>1. CASE s.numbers = {}
  BY <1>1
<1>2. CASE s.numbers # {}
  <2> DEFINE last == CHOOSE k \in s.numbers : \A j \in s.numbers : j <= k
  <2>1. n - 1 \in Nat
    BY <1>2
  <2>2. \E k \in s.numbers : \A j \in s.numbers : j <= k
    BY <1>2, <2>1, LargestIndex
  <2>3. last \in s.numbers /\ \A j \in s.numbers : j <= last
    BY <2>2
  <2>4. Capsule(s).latest = last
    BY <1>2 DEF Capsule
  <2> HIDE DEF last
  <2> QED BY <2>3, <2>4
<1> QED BY <1>1, <1>2

\* A handover writes the capsule last, and a message is committed by the owner
\* of the moment: the writer of the case.
LEMMA HandoverStep ==
  ASSUME Inductive, HandoverIsWhole, [Next]_vars
  PROVE  HandoverIsWhole'
<1> USE DEF HandoverIsWhole
<1>1. CASE UNCHANGED <<state, owner, transitions, openTasks, capsule, messages>>
  BY <1>1
<1>2. ASSUME NEW t \in Tabs, CreateCase(t) PROVE HandoverIsWhole'
  BY <1>2 DEF CreateCase, Inductive, Started
<1>3. ASSUME NEW t \in Tabs, CommitHandoff(t) PROVE HandoverIsWhole'
  <2>1. capsule' = Capsule(Snapshot')
    BY <1>3 DEF CommitHandoff, SaveCapsule
  <2>2. capsule'.state = state' /\ capsule'.owner = owner' /\ capsule'.tasks = openTasks'
    BY <2>1 DEF Capsule, Snapshot
  <2>3. MessagesDense' /\ nextSequence' \in Nat
    BY <1>3 DEF CommitHandoff, thread, Inductive, MessagesDense, TypeOK
  <2>4. \A m \in messages' : ~(m.number > capsule'.latest)
    <3>1. Snapshot'.numbers = {m.number : m \in messages'}
      BY DEF Snapshot
    <3>2. Snapshot'.numbers = 1..(nextSequence' - 1)
      BY <2>3, <3>1 DEF MessagesDense
    <3>3. \A k \in Snapshot'.numbers : k <= Capsule(Snapshot').latest
      BY <2>3, <3>2, CapsuleCovers
    <3>4. Capsule(Snapshot').latest \in Nat \/ Snapshot'.numbers = {}
      BY <2>3, <3>2, CapsuleCovers
    <3>5. capsule'.latest = Capsule(Snapshot').latest
      BY <1>3 DEF CommitHandoff, SaveCapsule
    <3>6. \A m \in messages' : m.number \in Snapshot'.numbers
      BY <3>1, Zenon
    <3>7. \A k \in Snapshot'.numbers : k \in Nat
      BY <2>3, <3>2
    <3>8. ASSUME NEW m \in messages' PROVE ~(m.number > capsule'.latest)
      <4>1. m.number <= capsule'.latest /\ m.number \in Nat
        BY <3>3, <3>5, <3>6, <3>7
      <4>2. capsule'.latest \in Nat
        BY <3>4, <3>5, <3>6
      <4> QED BY <4>1, <4>2
    <3> QED BY <3>8
  <2> QED BY <2>2, <2>4
<1>4. ASSUME NEW t \in Tabs, CommitMessage(t) PROVE HandoverIsWhole'
  <2>1. UNCHANGED <<state, owner, transitions, openTasks, capsule>>
    BY <1>4 DEF CommitMessage, case
  <2>2. messages' = messages \cup {[number |-> req[t].number, author |-> UserOf[t]]}
    BY <1>4 DEF CommitMessage
  <2>3. owner = UserOf[t] \/ IsAdmin(t)
    BY <1>4 DEF CommitMessage, Inductive, WritersOwn, MayWrite
  <2> QED BY <2>1, <2>2, <2>3
<1>5. ASSUME NEW t \in Tabs, Start(t), ~CreateCase(t)
      PROVE  UNCHANGED <<state, owner, transitions, openTasks, capsule, messages>>
  BY <1>5, StartBegins DEF Begin, case, thread, Inductive
<1>6. CASE UNCHANGED vars
  BY <1>6, <1>1 DEF vars
<1> QED
  BY <1>1, <1>2, <1>3, <1>4, <1>5, <1>6
     DEF Next, Continue, Prepare, InsertSummary, SummaryReleased, Refuse, Crash,
         case, thread

\* What an assignee is handed is the case as it stands, and only the assignee
\* (or an Administrator) has added to it since.
THEOREM HandoversAreWhole == Spec => []HandoverIsWhole
<1>1. Init => HandoverIsWhole
  BY DEF Init, HandoverIsWhole
<1>2. Inductive /\ HandoverIsWhole /\ [Next]_vars => HandoverIsWhole'
  BY HandoverStep
<1> QED BY <1>1, <1>2, InductiveInvariant, PTL DEF Spec
=============================================================================
