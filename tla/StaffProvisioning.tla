-------------------------- MODULE StaffProvisioning --------------------------
(***************************************************************************)
(* provision_keycloak_pms_staff.py: the user profile, the mappers of the   *)
(* pms-api client and the staff users of the PMS realm, read and written   *)
(* over Keycloak's Admin REST interface.                                   *)
(*                                                                         *)
(* The script reads everything first and plans its calls from what it      *)
(* read; each call then takes effect alone, or fails, or takes effect with *)
(* its answer lost, and the script stops at the first that does not answer *)
(* well.  Other administrators, with the script or by hand, may work on    *)
(* the realm between two calls.                                            *)
(***************************************************************************)
EXTENDS Naturals, Sequences, FiniteSets, Functions

CONSTANTS
  Administrators,
  Staff,       \* STAFF_USERS, as a sequence of names
  RoleOf,      \* ... and the business role of each
  BusinessRoles,
  Mappers,     \* the protocol mappers expected, as a sequence
  MaxRuns,     \* bound on the runs of the script
  MaxEdits     \* bound on what is edited by hand

\* _mapper_expectations names no mapper twice, STAFF_USERS no user.
ASSUME StaffAssumption ==
  /\ Staff \in Seq(Range(Staff)) /\ IsInjective(Staff) /\ Staff # << >>
  /\ Mappers \in Seq(Range(Mappers)) /\ IsInjective(Mappers)
  /\ RoleOf \in [Range(Staff) -> BusinessRoles]

VARIABLES
  realm,     \* profile, mappers and users as Keycloak has them
  admin,     \* per administrator, the run of the script
  abandoned, \* users whose password a run stopped short of setting
  runs, edits

provisioning == <<realm, admin, abandoned, runs, edits>>

Users == Range(Staff)

\* attributes: placed for department, unit_id and classification
NoUser == [exists |-> FALSE, roles |-> {}, attributes |-> {}, password |-> FALSE]

NoRun == [at |-> "idle", mode |-> "apply", reset |-> FALSE, profile |-> {},
          mapper |-> [m \in Range(Mappers) |-> "absent"],
          user |-> [u \in Users |-> NoUser], seen |-> 0, todo |-> {},
          result |-> "none", quiet |-> TRUE]

\* A realm the script never saw, or one set up by hand, with other attributes.
StaffInit ==
  /\ \E known \in SUBSET {u \in Users : u = Staff[1]}, r \in BusinessRoles,
        extra \in SUBSET {"tenant_id"}, m \in {"absent", "drifted"} :
       realm =
         [profile |-> {"email"},
          mapper  |-> [x \in Range(Mappers) |-> m],
          user    |-> [u \in Users |->
             IF u \in known
             THEN [exists |-> TRUE, roles |-> {r, "offline_access"},
                   attributes |-> extra, password |-> TRUE]
             ELSE NoUser]]
  /\ admin = [a \in Administrators |-> NoRun]
  /\ abandoned = {}
  /\ runs = 0
  /\ edits = 0
-----------------------------------------------------------------------------
(* The plan.                                                               *)

Business(roles) == roles \cap BusinessRoles

\* merge_profile
Merged(profile) == profile \cup {"managed"}

\* MapperPlan.action
Action(found) == CASE found = "absent" -> "create" [] found = "right" -> "keep"
                   [] OTHER -> "update"

\* The calls are made in the order of their places: the profile, the mappers,
\* and the users one after the other.
MapperCalls(run) ==
  {[place |-> i, op |-> Action(run.mapper[Mappers[i]]), on |-> Mappers[i], value |-> {}] :
     i \in {j \in DOMAIN Mappers : Action(run.mapper[Mappers[j]]) # "keep"}}

ProfileCalls(run) ==
  {[place |-> 0, op |-> "profile", on |-> "profile", value |-> merged] :
     merged \in {Merged(run.profile)} \ {run.profile}}

\* _prompt_staff_passwords: who is asked for.
MutantPrompted(run, u) == run.reset
Prompted(run, u) == ~run.user[u].exists \/ run.reset

MutantStale(run, u) == {}
\* The business roles to take away, of those the plan was made from.
Stale(run, u) == Business(run.user[u].roles) \ {RoleOf[u]}

\* _staff_user_payload: the attributes read, and the placement
Payload(run, u) == run.user[u].attributes \cup {"placed"}

StaffCalls(run, i) ==
  LET u == Staff[i]
      call(k, op, value) ==
        [place |-> Len(Mappers) + 4 * i + k, op |-> op, on |-> u, value |-> value]
  IN {call(0, IF run.user[u].exists THEN "put_user" ELSE "post_user", Payload(run, u)),
      call(2, "assign", {RoleOf[u]})}
     \cup (IF Stale(run, u) = {} THEN {} ELSE {call(1, "remove", Stale(run, u))})
     \cup (IF Prompted(run, u) THEN {call(3, "password", {})} ELSE {})

\* _apply
Calls(run) ==
  ProfileCalls(run) \cup MapperCalls(run) \cup UNION {StaffCalls(run, i) : i \in DOMAIN Staff}
-----------------------------------------------------------------------------
(* The calls.                                                              *)

\* What Keycloak makes of a call; nothing when it answers with an error.
Effect(call, k) ==
  CASE call.op = "profile" -> {[k EXCEPT !.profile = call.value]}
    [] call.op = "create"  ->
         IF k.mapper[call.on] # "absent" THEN {}
         ELSE {[k EXCEPT !.mapper[call.on] = "right"]}
    [] call.op = "update"  ->
         IF k.mapper[call.on] = "absent" THEN {}
         ELSE {[k EXCEPT !.mapper[call.on] = "right"]}
    [] call.op = "post_user" ->
         IF k.user[call.on].exists THEN {}
         ELSE {[k EXCEPT !.user[call.on] =
                 [exists |-> TRUE, roles |-> {}, attributes |-> call.value,
                  password |-> FALSE]]}
    [] call.op = "put_user" -> {[k EXCEPT !.user[call.on].attributes = call.value]}
    [] call.op = "remove"   -> {[k EXCEPT !.user[call.on].roles = @ \ call.value]}
    [] call.op = "assign"   -> {[k EXCEPT !.user[call.on].roles = @ \cup call.value]}
    [] call.op = "password" -> {[k EXCEPT !.user[call.on].password = TRUE]}

\* Who the calls left out would have given a password, having been created.
Forsaken(rest) ==
  {u \in Users : /\ \E call \in rest : call.op = "password" /\ call.on = u
                 /\ \A call \in rest : call.op = "post_user" => call.on # u}

Stops(a, result, rest) ==
  /\ admin' = [admin EXCEPT ![a].at = "idle", ![a].todo = {}, ![a].result = result]
  /\ abandoned' = abandoned \cup Forsaken(rest)

\* run: the profile, the client, its mappers and the roles are read.
ReadRealm(a) ==
  /\ admin[a].at = "idle"
  /\ runs < MaxRuns
  /\ runs' = runs + 1
  /\ \E mode \in {"apply", "validate", "dry_run"}, reset \in BOOLEAN :
       admin' = [admin EXCEPT ![a] = [NoRun EXCEPT
         !.at = "users", !.mode = mode, !.reset = reset,
         !.profile = realm.profile, !.mapper = realm.mapper]]
  /\ UNCHANGED <<realm, abandoned, edits>>

\* plan_staff: one user and its roles; a tenant is not made an officer.
ReadUser(a) ==
  LET u == Staff[admin[a].seen + 1]
  IN /\ admin[a].at = "users" /\ admin[a].seen < Len(Staff)
     /\ IF "tenant_id" \in realm.user[u].attributes
        THEN Stops(a, "failed", {})
        ELSE /\ admin' = [admin EXCEPT ![a].user[u] = realm.user[u], ![a].seen = @ + 1]
             /\ UNCHANGED abandoned
     /\ UNCHANGED <<realm, runs, edits>>

\* What --validate accepts.
Valid(run) ==
  /\ Merged(run.profile) = run.profile
  /\ \A m \in Range(Mappers) : run.mapper[m] = "right"
  /\ \A u \in Users :
       run.user[u].exists /\ Cardinality(Business(run.user[u].roles)) = 1

Decide(a) ==
  /\ admin[a].at = "users" /\ admin[a].seen = Len(Staff)
  /\ CASE admin[a].mode = "dry_run" -> Stops(a, "dry_run", {})
       [] admin[a].mode = "validate" ->
            Stops(a, IF Valid(admin[a]) THEN "validated" ELSE "failed", {})
       [] admin[a].mode = "apply" ->
            /\ admin' = [admin EXCEPT ![a].at = "calls", ![a].todo = Calls(admin[a])]
            /\ UNCHANGED abandoned
  /\ UNCHANGED <<realm, runs, edits>>

\* KeycloakAdmin.write: an answer, an error, or an effect without an answer.
Call(a) ==
  /\ admin[a].at = "calls"
  /\ \E call \in admin[a].todo :
       /\ \A other \in admin[a].todo : call.place <= other.place
       /\ LET todo == admin[a].todo
              effect == Effect(call, realm)
          IN \/ \E k \in effect :
                  /\ realm' = k
                  /\ admin' = [admin EXCEPT ![a].todo = @ \ {call}]
                  /\ UNCHANGED abandoned
             \/ \E k \in effect : realm' = k /\ Stops(a, "failed", todo \ {call})
             \/ UNCHANGED realm /\ Stops(a, "failed", todo)
  /\ UNCHANGED <<runs, edits>>

Applied(a) ==
  /\ admin[a].at = "calls" /\ admin[a].todo = {}
  /\ Stops(a, "applied", {})
  /\ UNCHANGED <<realm, runs, edits>>

\* In Keycloak's own console: a role for a user, an attribute for the profile.
EditByHand ==
  /\ edits < MaxEdits
  /\ edits' = edits + 1
  /\ \/ \E u \in {v \in Users : realm.user[v].exists}, r \in BusinessRoles :
          realm' = [realm EXCEPT !.user[u].roles = @ \cup {r}]
     \/ realm' = [realm EXCEPT !.profile = @ \cup {"telephone"}]
  /\ admin' = [a \in Administrators |-> [admin[a] EXCEPT !.quiet = FALSE]]
  /\ UNCHANGED <<abandoned, runs>>

StaffNext ==
  \/ \E a \in Administrators :
       ReadRealm(a) \/ ReadUser(a) \/ Decide(a) \/ Call(a) \/ Applied(a)
  \/ EditByHand
-----------------------------------------------------------------------------
(* Properties.                                                             *)

\* What "PASS ... applied" says holds, even when two administrators applied at
\* once from plans the other made stale: profile and mappers are as expected,
\* every staff user is placed and has its business role and no other.  Only
\* what was edited by hand since the plan was made may differ.
AppliedIsExact ==
  \A a \in Administrators : admin[a].result = "applied" /\ admin[a].quiet =>
    /\ "managed" \in realm.profile
    /\ \A m \in Range(Mappers) : realm.mapper[m] = "right"
    /\ \A u \in Users :
         /\ realm.user[u].exists
         /\ "placed" \in realm.user[u].attributes
         /\ Business(realm.user[u].roles) = {RoleOf[u]}

\* A user is without a password only while the run that created it is under
\* way, or after it stopped before it had set one: a PASS of the run that
\* creates a user means the user can sign in.  (A later run finds the user,
\* sets no password unless asked to reset, and reports PASS.)
PasswordsFollow ==
  \A u \in Users : realm.user[u].exists /\ ~realm.user[u].password =>
    \/ u \in abandoned
    \/ \E a \in Administrators : \E call \in admin[a].todo :
         call.op = "password" /\ call.on = u
=============================================================================
