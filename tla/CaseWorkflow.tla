---------------------------- MODULE CaseWorkflow ----------------------------
(***************************************************************************)
(* The life of one lease case as CaseWorkflowService and PostgresCaseStore *)
(* run it: Data Entry Operator (DO) -> Nodal Officer (NO) -> HOD.          *)
(*                                                                         *)
(* Every HTTP request is one READ COMMITTED transaction.  A request first  *)
(* reads the case and checks its guards on what it read; later statements  *)
(* see what other requests have committed in between.  Four points of a    *)
(* transaction matter to the others and are separate steps here:           *)
(*   read       the case was fetched and the service's guards passed       *)
(*   prepared   the statements that precede the rolling summary have run   *)
(*   waiting    the INSERT of the next rolling-summary version is blocked  *)
(*              by another transaction's uncommitted row with the same key *)
(*   writing    the summary row is inserted, the rest up to COMMIT follows *)
(* Uncommitted writes are invisible, so all of them are applied by Commit. *)
(***************************************************************************)
EXTENDS Naturals, Sequences, FiniteSets

CONSTANTS
  Users,          \* subjects of the department the case belongs to
  Tabs,           \* login sessions, each able to run one request at a time
  UserOf,         \* the subject a session was opened for
  RolesOf,        \* AuthorizationContext.roles of a session
  Recipients,     \* per role, the subjects StaffDirectory.recipients returns
  Delegates,      \* subjects with an active "approve" delegated_authority row
  Nobody,         \* no assignee chosen yet
  MaxTransitions, \* bound on handoffs
  MaxMessages     \* bound on chat messages, the initial one included

Roles == {"DO", "NO", "HOD", "Admin"}
StaffRoles == {"DO", "NO", "HOD"}

CaseStates ==
  {"draft", "submitted_to_no", "returned_to_do", "verified_by_no",
   "submitted_to_hod", "returned_to_no", "approved", "rejected",
   "escalated", "closed"}

\* No case yet: the state before create_case.
Absent == "absent"

Operations ==
  {"add_message", "submit_to_no", "return_to_do", "verify", "submit_to_hod",
   "return_to_no", "approve", "reject", "escalate"}

\* Operations whose statements before the rolling summary INSERT a row that
\* row level security accepts from the current owner or an Administrator only.
InsertsFirst ==
  {"add_message", "return_to_do", "verify", "return_to_no", "approve", "reject"}

Phases == {"idle", "read", "prepared", "waiting", "writing"}

ASSUME ConstantsAssumption ==
  /\ Nobody \notin Users
  /\ UserOf \in [Tabs -> Users]
  /\ RolesOf \in [Tabs -> SUBSET Roles]
  /\ Recipients \in [StaffRoles -> SUBSET Users]
  /\ Delegates \subseteq Users
  /\ MaxTransitions \in Nat
  /\ MaxMessages \in Nat

VARIABLES
  state,         \* case_record.state
  creator,       \* case_record.created_by_subject
  owner,         \* case_record.current_owner_subject
  participants,  \* case_record.participant_subjects
  transitions,   \* case_transition, oldest first
  openTasks,     \* number of case_task rows with status 'open', per assignee
  capsule,       \* the latest context_capsule; its version is Len(transitions)
  nextSequence,  \* case_thread.next_sequence_number
  messages,      \* case_message rows: number and author
  req            \* the request each session is running

case == <<state, creator, owner, participants, transitions, openTasks, capsule>>
thread == <<nextSequence, messages>>
vars == <<state, creator, owner, participants, transitions, openTasks, capsule,
          nextSequence, messages, req>>

Transition ==
  [from : CaseStates, to : CaseStates, actor : Users, assignee : Users]

\* number: the sequence number allocated to a message; closes: the open tasks
\* the request has completed.  Both are uncommitted until the request ends.
Request ==
  [phase : Phases, op : Operations, from : CaseStates, to : CaseStates,
   assignee : Users \cup {Nobody}, number : Nat, closes : Nat]

NoRequest ==
  [phase |-> "idle", op |-> "add_message", from |-> "draft", to |-> "draft",
   assignee |-> Nobody, number |-> 0, closes |-> 0]

NoCapsule ==
  [state |-> Absent, owner |-> Nobody, tasks |-> [u \in Users |-> 0],
   decisions |-> {}, latest |-> 0]

Init ==
  /\ state = Absent
  /\ creator = Nobody
  /\ owner = Nobody
  /\ participants = {}
  /\ transitions = << >>
  /\ openTasks = [u \in Users |-> 0]
  /\ capsule = NoCapsule
  /\ nextSequence = 1
  /\ messages = {}
  /\ req = [t \in Tabs |-> NoRequest]

-----------------------------------------------------------------------------
(* Who may do what.                                                        *)

IsAdmin(t) == "Admin" \in RolesOf[t]

HasRole(t, role) == role \in RolesOf[t] \/ IsAdmin(t)

\* The SELECT policy of case_record, for subjects of the same department.
Visible(t) == UserOf[t] \in participants \/ IsAdmin(t)

\* The write policies of the case's tables, and _require_current_owner.
MayWrite(t) == owner = UserOf[t] \/ IsAdmin(t)

\* StaffDirectory.require_recipient, called before the service by the routes
\* that take an assigned_subject.
MayAddress(t, u, role) ==
  RolesOf[t] \cap StaffRoles # {} /\ u \in Recipients[role]

Verifiers == {u \in Users :
  \E i \in 1..Len(transitions) :
    transitions[i].to = "verified_by_no" /\ transitions[i].actor = u}

\* Indices of the transitions assigned to the NO role; every target state
\* hands the case to the role _role_for_state lists for it.
NodalTransitions == {i \in 1..Len(transitions) :
  transitions[i].to \in {"submitted_to_no", "verified_by_no", "returned_to_no"}}

\* Mutant: the timeline is searched from its start.
MutantLatestNodal ==
  LET first == CHOOSE i \in NodalTransitions :
                 \A j \in NodalTransitions : i <= j
  IN  transitions[first].assignee

LatestNodal ==
  LET last == CHOOSE i \in NodalTransitions :
                \A j \in NodalTransitions : j <= i
  IN  transitions[last].assignee

-----------------------------------------------------------------------------
(* Requests: the first read and the guards evaluated on it.                *)

CreateCase(t) ==
  /\ state = Absent
  /\ HasRole(t, "DO")
  /\ state' = "draft"
  /\ creator' = UserOf[t]
  /\ owner' = UserOf[t]
  /\ participants' = {UserOf[t]}
  /\ nextSequence' = 2
  /\ messages' = {[number |-> 1, author |-> UserOf[t]]}
  /\ UNCHANGED <<transitions, openTasks, capsule, req>>

\* The two bounds count the requests in flight, so a request that has begun
\* is never held up by them.
WithinBounds(op) ==
  IF op = "add_message"
  THEN nextSequence + Cardinality({u \in Tabs :
         req[u].phase # "idle" /\ req[u].op = "add_message"}) <= MaxMessages
  ELSE Len(transitions) + Cardinality({u \in Tabs :
         req[u].phase # "idle" /\ req[u].op # "add_message"}) < MaxTransitions

Begin(t, op, to, assignee) ==
  /\ req[t].phase = "idle"
  /\ state # Absent
  /\ Visible(t)
  /\ MayWrite(t)
  /\ WithinBounds(op)
  /\ req' = [req EXCEPT ![t] =
               [phase |-> "read", op |-> op, from |-> state, to |-> to,
                assignee |-> assignee, number |-> 0, closes |-> 0]]
  /\ UNCHANGED <<case, thread>>

AddMessage(t) == Begin(t, "add_message", state, Nobody)

SubmitToNo(t, u) ==
  /\ MayAddress(t, u, "NO")
  /\ HasRole(t, "DO")
  /\ state \in {"draft", "returned_to_do"}
  /\ Begin(t, "submit_to_no", "submitted_to_no", u)

ReturnToDo(t) ==
  /\ HasRole(t, "NO")
  /\ state = "submitted_to_no"
  /\ Begin(t, "return_to_do", "returned_to_do", creator)

\* Mutant: the maker check of verify is missing.
MutantVerify(t) ==
  /\ HasRole(t, "NO")
  /\ state = "submitted_to_no"
  /\ Begin(t, "verify", "verified_by_no", UserOf[t])

Verify(t) ==
  /\ HasRole(t, "NO")
  /\ state = "submitted_to_no"
  /\ UserOf[t] # creator
  /\ Begin(t, "verify", "verified_by_no", UserOf[t])

SubmitToHod(t, u) ==
  /\ MayAddress(t, u, "HOD")
  /\ HasRole(t, "NO")
  /\ state \in {"verified_by_no", "returned_to_no"}
  /\ Begin(t, "submit_to_hod", "submitted_to_hod", u)

\* The recipient is looked up in the timeline by a later statement.
ReturnToNo(t) ==
  /\ HasRole(t, "HOD")
  /\ state = "submitted_to_hod"
  /\ Begin(t, "return_to_no", "returned_to_no", Nobody)

HodDecision(t, op, to, assignee) ==
  /\ HasRole(t, "HOD")
  /\ state = "submitted_to_hod"
  /\ UserOf[t] # creator
  /\ Begin(t, op, to, assignee)

Approve(t) == HodDecision(t, "approve", "approved", UserOf[t])

Reject(t) == HodDecision(t, "reject", "rejected", UserOf[t])

Escalate(t, u) ==
  /\ MayAddress(t, u, "HOD")
  /\ HodDecision(t, "escalate", "escalated", u)

-----------------------------------------------------------------------------
(* Requests: from the second statement to the end of the transaction.      *)

\* The UPDATE of case_thread holds the row lock until the transaction ends.
Numbering(t) ==
  req[t].op = "add_message" /\ req[t].phase \in {"prepared", "waiting", "writing"}

ThreadLocked == \E u \in Tabs : Numbering(u)

\* The UPDATE of case_task locks the open tasks of the acting subject.
TasksLocked(t) == \E u \in Tabs : UserOf[u] = UserOf[t] /\ req[u].closes > 0

\* Mutant: the timeline is not searched for a verification by the actor.
MutantTimelineAllows(t) ==
  /\ req[t].op = "approve" => UserOf[t] \in Delegates
  /\ req[t].op = "return_to_no" => NodalTransitions # {}

\* Preconditions that later reads of the same request evaluate.
TimelineAllows(t) ==
  /\ req[t].op \in {"approve", "reject", "escalate"} =>
       UserOf[t] \notin Verifiers
  /\ req[t].op = "approve" => UserOf[t] \in Delegates
  /\ req[t].op = "return_to_no" => NodalTransitions # {}

PrepareAllowed(t) ==
  TimelineAllows(t) /\ (req[t].op \in InsertsFirst => MayWrite(t))

\* close_open_tasks: only after a return, and only the actor's own open tasks.
ClosedTasks(t) ==
  IF /\ req[t].op \in {"submit_to_no", "submit_to_hod"}
     /\ req[t].from \in {"returned_to_do", "returned_to_no"}
     /\ MayWrite(t)
  THEN openTasks[UserOf[t]]
  ELSE 0

Prepare(t) ==
  /\ req[t].phase = "read"
  /\ PrepareAllowed(t)
  /\ req[t].op = "add_message" => ~ThreadLocked
  /\ ClosedTasks(t) > 0 => ~TasksLocked(t)
  /\ req' = [req EXCEPT
       ![t].phase = "prepared",
       ![t].number = IF req[t].op = "add_message" THEN nextSequence ELSE @,
       ![t].closes = ClosedTasks(t),
       ![t].assignee = IF req[t].op = "return_to_no" THEN LatestNodal ELSE @]
  /\ UNCHANGED <<case, thread>>

\* Some transaction holds the key of the next rolling-summary version.
SummaryTaken == \E u \in Tabs : req[u].phase = "writing"

InsertSummary(t) ==
  /\ req[t].phase = "prepared"
  /\ MayWrite(t)
  /\ req' = [req EXCEPT ![t].phase =
               IF SummaryTaken THEN "waiting" ELSE "writing"]
  /\ UNCHANGED <<case, thread>>

\* The holder rolled back: the blocked INSERT goes through.
SummaryReleased(t) ==
  /\ req[t].phase = "waiting"
  /\ ~SummaryTaken
  /\ req' = [req EXCEPT ![t].phase = "writing"]
  /\ UNCHANGED <<case, thread>>

\* Mutant: without the primary key the blocked INSERTs go through.
MutantEndRequest(t) == req' = [req EXCEPT ![t] = NoRequest]

\* COMMIT ends the request; blocked INSERTs of the same summary version now
\* violate pk_case_rolling_summary and their transactions roll back.
EndRequest(t) ==
  req' = [u \in Tabs |->
            IF u = t \/ req[u].phase = "waiting" THEN NoRequest ELSE req[u]]

CommitMessage(t) ==
  /\ req[t].phase = "writing"
  /\ req[t].op = "add_message"
  /\ nextSequence' = req[t].number + 1
  /\ messages' = messages \cup {[number |-> req[t].number, author |-> UserOf[t]]}
  /\ EndRequest(t)
  /\ UNCHANGED case

\* context_snapshot: what a transaction sees of the case; case_decision rows,
\* of verifications, approvals and rejections, are named by their transition.
Snapshot ==
  [state |-> state, owner |-> owner, tasks |-> openTasks,
   decisions |-> {i \in 1..Len(transitions) :
                    transitions[i].to \in {"verified_by_no", "approved", "rejected"}},
   numbers |-> {m.number : m \in messages}]

\* ContextEngine.create_capsule.  Of the messages the capsule that is stored
\* has only the number of the latest, in its hash.
Capsule(s) ==
  [state |-> s.state, owner |-> s.owner, tasks |-> s.tasks, decisions |-> s.decisions,
   latest |-> IF s.numbers = {} THEN 0
              ELSE CHOOSE n \in s.numbers : \A k \in s.numbers : k <= n]

\* save_capsule, with the snapshot taken after the transition.
SaveCapsule == capsule' = Capsule(Snapshot')

CommitHandoff(t) ==
  /\ req[t].phase = "writing"
  /\ req[t].op # "add_message"
  /\ MayWrite(t)
  /\ transitions' = Append(transitions,
       [from |-> req[t].from, to |-> req[t].to, actor |-> UserOf[t],
        assignee |-> req[t].assignee])
  /\ state' = req[t].to
  /\ owner' = req[t].assignee
  /\ participants' = participants \cup {req[t].assignee}
  /\ openTasks' = [u \in Users |->
       openTasks[u]
       + (IF req[t].op \in {"return_to_do", "return_to_no"} /\ u = req[t].assignee
          THEN 1 ELSE 0)
       - (IF u = UserOf[t] THEN req[t].closes ELSE 0)]
  /\ EndRequest(t)
  /\ UNCHANGED <<creator, thread>>
  /\ SaveCapsule

\* Mutant: the refusal is caught inside the transaction, and the request
\* tries again from the case it had read.
MutantRefuse(t) ==
  /\ \/ req[t].phase = "read" /\ ~PrepareAllowed(t)
     \/ req[t].phase = "prepared" /\ ~MayWrite(t)
  /\ req' = [req EXCEPT ![t].phase = "read"]
  /\ UNCHANGED <<case, thread>>

\* A statement found its guard or its row level security check false, and the
\* exception ends the transaction.
Refuse(t) ==
  /\ \/ req[t].phase = "read" /\ ~PrepareAllowed(t)
     \/ req[t].phase = "prepared" /\ ~MayWrite(t)
  /\ req' = [req EXCEPT ![t] = NoRequest]
  /\ UNCHANGED <<case, thread>>

\* The process, the connection or the client goes away: rollback.
Crash(t) ==
  /\ req[t].phase # "idle"
  /\ req' = [req EXCEPT ![t] = NoRequest]
  /\ UNCHANGED <<case, thread>>

-----------------------------------------------------------------------------
Start(t) ==
  \/ CreateCase(t)
  \/ AddMessage(t)
  \/ \E u \in Users : SubmitToNo(t, u) \/ SubmitToHod(t, u) \/ Escalate(t, u)
  \/ ReturnToDo(t) \/ Verify(t) \/ ReturnToNo(t)
  \/ Approve(t) \/ Reject(t)

Continue(t) ==
  \/ Prepare(t) \/ InsertSummary(t) \/ SummaryReleased(t)
  \/ CommitMessage(t) \/ CommitHandoff(t) \/ Refuse(t)

Next == \E t \in Tabs : Start(t) \/ Continue(t) \/ Crash(t)

Spec == Init /\ [][Next]_vars

\* The database server and the worker thread drive a request that has begun,
\* and a row lock goes to its waiters in the order they queued, so a request
\* that can go on again and again does.  Nobody is obliged to send a request.
FairSpec == Spec /\ \A t \in Tabs : SF_vars(Continue(t))

-----------------------------------------------------------------------------
(* Properties.                                                             *)

\* Every variable keeps its type; in particular no task is completed twice.
TypeOK ==
  /\ state \in CaseStates \cup {Absent}
  /\ creator \in Users \cup {Nobody}
  /\ owner \in Users \cup {Nobody}
  /\ participants \subseteq Users
  /\ transitions \in Seq(Transition)
  /\ openTasks \in [Users -> Nat]
  /\ nextSequence \in Nat
  /\ messages \subseteq [number : Nat, author : Users]
  /\ req \in [Tabs -> Request]

\* The lock nobody wrote: the primary key of case_rolling_summary lets one
\* transaction at a time write a case, and the subject it acts for is still
\* the owner (or an Administrator) when it commits.
WriterStillOwns ==
  \A t \in Tabs : req[t].phase = "writing" =>
    /\ MayWrite(t)
    /\ \A u \in Tabs : req[u].phase = "writing" => u = t

\* Message numbers are 1, 2, ... without a gap or a repetition, whatever
\* requests are rolled back after next_sequence_number was incremented.
MessagesDense ==
  /\ {m.number : m \in messages} = 1..(nextSequence - 1)
  /\ \A m, n \in messages : m.number = n.number => m = n

\* Only the assignee of the moment, or an Administrator, ever adds to a case.
OnlyAssigneeActs ==
  [][/\ transitions' # transitions =>
         \E t \in Tabs : MayWrite(t)
           /\ transitions'[Len(transitions')].actor = UserOf[t]
     /\ \A m \in messages' \ messages :
         state = Absent \/ \E t \in Tabs : MayWrite(t) /\ m.author = UserOf[t]]_vars

\* The maker of a case neither verifies nor decides it, however stale the
\* case was that the request had read.
MakerNeverChecks ==
  \A i \in 1..Len(transitions) :
    transitions[i].to \in {"verified_by_no", "approved", "rejected", "escalated"}
      => transitions[i].actor # creator

\* Each transition starts in the state the one before it ended in.
LegalHistory ==
  \A i \in 1..Len(transitions) :
    transitions[i].from =
      IF i = 1 THEN "draft" ELSE transitions[i - 1].to

\* Who verified a case does not decide it.
VerifierNeverDecides ==
  \A i, j \in 1..Len(transitions) :
    (/\ transitions[i].to = "verified_by_no"
     /\ transitions[j].to \in {"approved", "rejected", "escalated"})
      => transitions[i].actor # transitions[j].actor

\* The capsule an assignee works from is the case as it stands, with its open
\* tasks, and whatever was said after it was said by the assignee (or an
\* Administrator): nothing a former owner had under way slips in behind it.
HandoverIsWhole ==
  transitions # << >> =>
    /\ capsule.state = state /\ capsule.owner = owner /\ capsule.tasks = openTasks
    /\ \A m \in messages : m.number > capsule.latest =>
         m.author = owner \/ \E t \in Tabs : UserOf[t] = m.author /\ IsAdmin(t)

\* A request that has begun ends, whatever locks it waits for.
EveryRequestEnds ==
  \A t \in Tabs : req[t].phase # "idle" ~> req[t].phase = "idle"

-----------------------------------------------------------------------------
(* The inductive invariant, in the parts the proofs use.                   *)

\* Nothing has happened to a case that does not exist.
Started ==
  /\ state = Absent =>
       transitions = << >> /\ \A t \in Tabs : req[t].phase = "idle"
  /\ state # Absent => creator \in Users /\ owner \in Users

\* The edges of the state machine: operation, state read, state written.
Moves ==
  {<<"submit_to_no", "draft", "submitted_to_no">>,
   <<"submit_to_no", "returned_to_do", "submitted_to_no">>,
   <<"return_to_do", "submitted_to_no", "returned_to_do">>,
   <<"verify", "submitted_to_no", "verified_by_no">>,
   <<"submit_to_hod", "verified_by_no", "submitted_to_hod">>,
   <<"submit_to_hod", "returned_to_no", "submitted_to_hod">>,
   <<"return_to_no", "submitted_to_hod", "returned_to_no">>,
   <<"approve", "submitted_to_hod", "approved">>,
   <<"reject", "submitted_to_hod", "rejected">>,
   <<"escalate", "submitted_to_hod", "escalated">>}

\* What a request in flight carries, whatever happens to the case meanwhile.
WellFormed(t) ==
  LET r == req[t] IN
  r.op # "add_message" =>
    /\ <<r.op, r.from, r.to>> \in Moves
    /\ r.assignee \in Users \/ (r.op = "return_to_no" /\ r.phase = "read")
    /\ r.op = "return_to_do" => r.assignee = creator
    /\ r.op \in {"verify", "approve", "reject"} => r.assignee = UserOf[t]
    /\ r.op \in {"verify", "approve", "reject", "escalate"} =>
         UserOf[t] # creator

RequestsWellFormed ==
  \A t \in Tabs : req[t].phase # "idle" => WellFormed(t)

\* The tasks a request has completed are still open for everybody else.
TasksClaimed ==
  /\ \A t \in Tabs : req[t].closes <= openTasks[UserOf[t]]
  /\ \A t \in Tabs : req[t].phase \in {"idle", "read"} => req[t].closes = 0
  /\ \A t, u \in Tabs :
       UserOf[t] = UserOf[u] /\ req[t].closes > 0 /\ req[u].closes > 0 => t = u

\* A request blocked on the rolling summary, and the one it waits for, act for
\* the owner: the holder's COMMIT, which may change the owner, ends the others.
WritersOwn ==
  /\ \A t \in Tabs : req[t].phase \in {"waiting", "writing"} => MayWrite(t)
  /\ \A t, u \in Tabs :
       req[t].phase = "writing" /\ req[u].phase = "writing" => t = u

\* The number a message request was given is still the next one.
ThreadHeld ==
  \A t \in Tabs : Numbering(t) =>
    /\ req[t].number = nextSequence
    /\ \A u \in Tabs : Numbering(u) => u = t

\* The inductive invariant behind the theorems of CaseWorkflow_proof.
Inductive ==
  /\ TypeOK /\ Started /\ RequestsWellFormed /\ TasksClaimed
  /\ WritersOwn /\ ThreadHeld /\ MessagesDense /\ nextSequence # 0
  /\ MakerNeverChecks

-----------------------------------------------------------------------------
\* When every subject has one session and nobody is an Administrator, the
\* concurrent requests implement the atomic life cycle the service states.
Lifecycle == INSTANCE CaseLifecycle WITH
  People <- Users, Nobody <- Nobody, Approvers <- Delegates,
  stage <- state, holder <- owner, maker <- creator, checkers <- Verifiers,
  nodal <- IF NodalTransitions = {} THEN Nobody ELSE LatestNodal

LifecycleSpec == Lifecycle!Spec
=============================================================================
