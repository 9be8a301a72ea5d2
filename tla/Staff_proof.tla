----------------------------- MODULE Staff_proof -----------------------------
(***************************************************************************)
(* Proofs about what staff do, at a terminal and in a browser.             *)
(*                                                                         *)
(* Of Operations: the staff script, for any staff, mappers and             *)
(* administrators, and the scripts of the phases, for any number of        *)
(* terminals.  Each is proved about its own module and carried over to     *)
(* Operations, whose steps are steps of one of them.                       *)
(*                                                                         *)
(* Of Workspace: for any accounts, chats and cases and any number of       *)
(* functions of the page, one question runs at a time, sessions last       *)
(* exactly their lifetime, and only what was the last trip to Keycloak     *)
(* when it came back signs in.                                             *)
(***************************************************************************)
EXTENDS Operations, Workspace, SequenceTheorems, TLAPS

-----------------------------------------------------------------------------
(* The phases.  The invariant is RolloutInductive.                         *)

LastStep(p) == IF p = 6 THEN 2 ELSE IF p \in {7, 12} THEN 3 ELSE 4

Scripts ==
  [phase : Phases, at : 0 .. 4, child : 0 .. LastRevision,
   before : {"whole", "other", "absent"}, result : Results, quiet : BOOLEAN]

RolloutTyped == db \in Databases /\ script \in [Terminals -> Scripts]

\* Whether a script is past a step of its phase.
Past(s, n) == s.result = "passed" \/ s.at > n

\* What a script has done so far and nobody has undone.
ScriptHolds(s, d) ==
  /\ s.at <= LastStep(s.phase)
  /\ s.result = "passed" => s.at = 0
  /\ s.child <= d.revision
  /\ Past(s, 1) => d.revision >= Phase(s.phase).to
  /\ s.quiet /\ Past(s, 2) =>
       /\ Phase(s.phase).bundles \ {"trainer"} \subseteq d.grants
       /\ s.phase >= 11 => d.runtime = "plain"
  /\ s.quiet /\ Past(s, 3) =>
       /\ s.phase = 11 => "trainer" \in d.grants
       /\ s.phase = 9 => d.extract = "whole" /\ d.catalogue = "whole" /\ d.views
       /\ s.phase = 10 => d.candidates
  /\ s.quiet /\ s.result = "passed" /\ s.phase \in {9, 10} => d.runtime = "plain"

RolloutInductive ==
  /\ RolloutTyped
  /\ \A t \in Terminals : ScriptHolds(script[t], db)

\* What a step of a script may do to the database.
Grows(d, e) ==
  /\ d.revision <= e.revision
  /\ d.grants \subseteq e.grants
  /\ e.runtime = d.runtime /\ e.extract = d.extract
  /\ d.views => e.views
  /\ d.candidates => e.candidates
  /\ d.extract = "whole" /\ d.catalogue = "whole" => e.catalogue = "whole"

\* The phases, one by one.
LEMMA PhaseTable ==
  /\ Phase(6) = Phase06 /\ Phase(7) = Phase07 /\ Phase(9) = Phase09
  /\ Phase(10) = Phase10 /\ Phase(11) = Phase11 /\ Phase(12) = Phase12
  BY DEF Phase

\* The revision each phase leaves.
LEMMA Targets ==
  /\ Phase(6).to = 5 /\ Phase(7).to = 6 /\ Phase(9).to = 7
  /\ Phase(10).to = 9 /\ Phase(11).to = 11 /\ Phase(12).to = 12
  BY PhaseTable DEF Phase06, Phase07, Phase09, Phase10, Phase11, Phase12

\* The grants each phase makes.
LEMMA BundleTable ==
  /\ Phase(6).bundles = {} /\ Phase(7).bundles = {"vectors"}
  /\ Phase(9).bundles = {"catalogue", "views"} /\ Phase(10).bundles = {"rules"}
  /\ Phase(11).bundles = {"forecasts", "trainer"} /\ Phase(12).bundles = {"graph"}
  BY PhaseTable DEF Phase06, Phase07, Phase09, Phase10, Phase11, Phase12

\* The steps each script takes.
LEMMA StepTable ==
  /\ Phase(6).steps = <<"upgrade", "verify">>
  /\ Phase(7).steps = <<"upgrade", "grant", "verify">>
  /\ Phase(9).steps = <<"upgrade", "grant", "refresh", "verify">>
  /\ Phase(10).steps = <<"upgrade", "grant", "import", "verify">>
  /\ Phase(11).steps = <<"upgrade", "grant", "trainer", "verify">>
  /\ Phase(12).steps = <<"upgrade", "grant", "verify">>
  BY PhaseTable DEF Phase06, Phase07, Phase09, Phase10, Phase11, Phase12

\* Where each step stands.
LEMMA StepOrder ==
  ASSUME NEW p \in Phases, NEW n \in 1 .. LastStep(p)
  PROVE  /\ Phase(p).steps[n] = "upgrade" => n = 1
         /\ Phase(p).steps[n] = "grant" => n = 2 /\ p # 6
         /\ Phase(p).steps[n] = "refresh" => n = 3 /\ p = 9
         /\ Phase(p).steps[n] = "import" => n = 3 /\ p = 10
         /\ Phase(p).steps[n] = "trainer" => n = 3 /\ p = 11
         /\ Phase(p).steps[n] = "verify" => n = LastStep(p)
<1>1. CASE p = 6
  BY <1>1, StepTable DEF LastStep
<1>2. CASE p = 7
  BY <1>2, StepTable DEF LastStep
<1>3. CASE p = 9
  BY <1>3, StepTable DEF LastStep
<1>4. CASE p = 10
  BY <1>4, StepTable DEF LastStep
<1>5. CASE p = 11
  BY <1>5, StepTable DEF LastStep
<1>6. CASE p = 12
  BY <1>6, StepTable DEF LastStep
<1> QED BY <1>1, <1>2, <1>3, <1>4, <1>5, <1>6 DEF Phases

\* What the other scripts have done stays done.
LEMMA OthersKeep ==
  ASSUME NEW s \in Scripts, NEW d \in Databases, NEW e \in Databases,
         ScriptHolds(s, d), Grows(d, e)
  PROVE  ScriptHolds(s, e)
<1>1. d.revision \in Nat /\ e.revision \in Nat /\ s.child \in Nat
        /\ s.phase \in Phases /\ Phase(s.phase).to \in Nat
  BY Targets DEF Databases, Scripts, Phases, LastRevision
<1> QED BY <1>1 DEF ScriptHolds, Grows, Past

\* A step of one script: its record and the database it leaves.
LEMMA ScriptStep ==
  ASSUME RolloutInductive, NEW t \in Terminals, NEW r \in Scripts, NEW e \in Databases,
         script' = [script EXCEPT ![t] = r], db' = e, Grows(db, e), ScriptHolds(r, e)
  PROVE  RolloutInductive'
<1>1. RolloutTyped'
  BY DEF RolloutInductive, RolloutTyped
<1>2. ASSUME NEW u \in Terminals
      PROVE  ScriptHolds(script[u], db)'
  <2>1. PICK s : s = script'[u]
    OBVIOUS
  <2>2. CASE u = t
    <3>1. s = r
      BY <2>1, <2>2 DEF RolloutInductive, RolloutTyped
    <3>2. ScriptHolds(s, e)
      BY <3>1
    <3> QED BY <2>1, <3>2 DEF ScriptHolds, Past
  <2>3. CASE u # t
    <3>1. s = script[u] /\ s \in Scripts
      BY <2>1, <2>3 DEF RolloutInductive, RolloutTyped
    <3>2. ScriptHolds(s, e)
      BY <3>1, OthersKeep DEF RolloutInductive, RolloutTyped
    <3> QED BY <2>1, <3>2 DEF ScriptHolds, Past
  <2> QED BY <2>2, <2>3
<1> QED BY <1>1, <1>2 DEF RolloutInductive

\* A step may leave the database alone.
LEMMA Unchanging == ASSUME NEW d \in Databases PROVE Grows(d, d)
  BY DEF Grows, Databases

\* A script that ends without a PASS promises nothing.
LEMMA EndStep ==
  ASSUME RolloutInductive, NEW t \in Terminals, NEW result \in Results \ {"passed"},
         NEW e \in Databases, Ends(t, result), db' = e, Grows(db, e)
  PROVE  RolloutInductive'
<1> DEFINE s == script[t]
           r == [s EXCEPT !.at = 0, !.child = 0, !.result = result]
<1>1. s \in Scripts /\ script' = [script EXCEPT ![t] = r]
  BY DEF Ends, RolloutInductive, RolloutTyped
<1>2. r \in Scripts /\ r.at = 0 /\ r.child = 0 /\ r.result = result /\ r.phase = s.phase
  <2>1. [s EXCEPT !.at = 0] \in Scripts
    BY <1>1 DEF Scripts
  <2>2. 0 \in 0 .. LastRevision
    BY DEF LastRevision
  <2>3. [s EXCEPT !.at = 0, !.child = 0] \in Scripts
    BY <2>1, <2>2 DEF Scripts
  <2> QED BY <1>1, <2>3 DEF Scripts
<1> HIDE DEF r
<1>3. ScriptHolds(r, e)
  BY <1>2 DEF ScriptHolds, Past, Scripts, Databases, LastStep
<1> QED BY <1>1, <1>2, <1>3, ScriptStep

\* A script that goes on: what the step it made has left.
LEMMA GoStep ==
  ASSUME RolloutInductive, NEW t \in Terminals, NEW e \in Databases,
         Goes(t), db' = e, Grows(db, e),
         script[t].at > 0, script[t].at < LastStep(script[t].phase),
         script[t].at = 1 => e.revision >= Phase(script[t].phase).to,
         script[t].quiet /\ script[t].at = 2 =>
           /\ Phase(script[t].phase).bundles \ {"trainer"} \subseteq e.grants
           /\ script[t].phase >= 11 => e.runtime = "plain",
         script[t].quiet /\ script[t].at = 3 =>
           /\ script[t].phase = 11 => "trainer" \in e.grants
           /\ script[t].phase = 9 => e.extract = "whole" /\ e.catalogue = "whole" /\ e.views
           /\ script[t].phase = 10 => e.candidates
  PROVE  RolloutInductive'
<1> DEFINE s == script[t]
           r == [s EXCEPT !.at = @ + 1, !.child = 0]
<1>1. s \in Scripts /\ script' = [script EXCEPT ![t] = r] /\ ScriptHolds(s, db)
  BY DEF Goes, RolloutInductive, RolloutTyped
<1>2. /\ r \in Scripts /\ r.at = s.at + 1 /\ r.child = 0 /\ r.result = s.result
      /\ r.phase = s.phase /\ r.quiet = s.quiet /\ s.at \in 1 .. 3
  <2>1. s.at \in 1 .. 3
    BY <1>1 DEF Scripts, LastStep
  <2>2. [s EXCEPT !.at = @ + 1] \in Scripts
    BY <1>1, <2>1 DEF Scripts
  <2>3. 0 \in 0 .. LastRevision
    BY DEF LastRevision
  <2>4. r \in Scripts
    BY <2>2, <2>3 DEF Scripts
  <2> QED BY <1>1, <2>1, <2>4 DEF Scripts
<1>3. db \in Databases
  BY DEF RolloutInductive, RolloutTyped
<1>4. ScriptHolds(s, e)
  BY <1>1, <1>3, OthersKeep
<1>5. s.result # "passed" /\ s.phase \in Phases /\ e.revision \in Nat
        /\ LastStep(s.phase) \in Nat /\ Phase(s.phase).to \in Nat
  BY <1>1, <1>2, Targets DEF ScriptHolds, Scripts, Databases, LastRevision, LastStep, Phases
<1> HIDE DEF r
<1>6. ScriptHolds(r, e)
  BY <1>2, <1>4, <1>5 DEF ScriptHolds, Past
<1> QED BY <1>1, <1>2, <1>6, ScriptStep

\* The start of a script: from its first step, from its grants when the
\* revision is there already, or not at all.
LEMMA OpenStep ==
  ASSUME RolloutInductive, NEW t \in Terminals, NEW p \in Phases, Open(t, p)
  PROVE  RolloutInductive'
<1> DEFINE opened == [Idle EXCEPT !.phase = p, !.before = db.extract]
<1>1. /\ opened \in Scripts /\ opened.phase = p /\ opened.at = 0 /\ opened.child = 0
      /\ opened.result = "none"
  <2>1. Idle \in Scripts /\ Idle.at = 0 /\ Idle.child = 0 /\ Idle.result = "none"
    BY DEF Idle, Scripts, Phases, LastRevision, Results
  <2>2. [Idle EXCEPT !.phase = p] \in Scripts
    BY <2>1 DEF Scripts
  <2>3. db.extract \in {"whole", "other", "absent"}
    BY DEF RolloutInductive, RolloutTyped, Databases
  <2> QED BY <2>1, <2>2, <2>3 DEF Scripts
<1>2. db \in Databases /\ Grows(db, db) /\ db' = db
  BY Unchanging DEF RolloutInductive, RolloutTyped, Open
<1> HIDE DEF opened
<1>3. ASSUME NEW result \in Results \ {"passed"},
             script' = [script EXCEPT ![t] = [opened EXCEPT !.result = result]]
      PROVE  RolloutInductive'
  <2> DEFINE r == [opened EXCEPT !.result = result]
  <2>1. r \in Scripts /\ r.at = 0 /\ r.child = 0 /\ r.result = result /\ r.phase = p
    BY <1>1 DEF Scripts
  <2> HIDE DEF r
  <2>2. ScriptHolds(r, db)
    BY <1>2, <2>1 DEF ScriptHolds, Past, Databases, LastStep
  <2> QED BY <1>2, <1>3, <2>1, <2>2, ScriptStep DEF r
<1>4. ASSUME NEW n \in {1, 2}, n = 2 => db.revision = Phase(p).to,
             script' = [script EXCEPT ![t] = [opened EXCEPT !.at = n]]
      PROVE  RolloutInductive'
  <2> DEFINE r == [opened EXCEPT !.at = n]
  <2>1. r \in Scripts /\ r.at = n /\ r.child = 0 /\ r.result = "none" /\ r.phase = p
    BY <1>1 DEF Scripts
  <2> HIDE DEF r
  <2>2. ScriptHolds(r, db)
    BY <1>2, <1>4, <2>1 DEF ScriptHolds, Past, Databases, LastStep
  <2> QED BY <1>2, <1>4, <2>1, <2>2, ScriptStep DEF r
<1>5. CASE p = 7 /\ db.vector = "missing"
  <2>1. PICK result \in {"blocked"} :
          script' = [script EXCEPT ![t] = [opened EXCEPT !.result = result]]
    BY <1>5 DEF Open, opened
  <2> QED BY <1>3, <2>1 DEF Results
<1>6. CASE ~(p = 7 /\ db.vector = "missing") /\ db.revision \in Phase(p).from
  <2>1. PICK n \in {1} : script' = [script EXCEPT ![t] = [opened EXCEPT !.at = n]]
    BY <1>6 DEF Open, opened
  <2> QED BY <1>4, <2>1
<1>7. CASE ~(p = 7 /\ db.vector = "missing") /\ db.revision \notin Phase(p).from
  <2>1. CASE db.revision # Phase(p).to
    <3>1. PICK result \in {"refused"} :
            script' = [script EXCEPT ![t] = [opened EXCEPT !.result = result]]
      BY <1>7, <2>1 DEF Open, opened
    <3> QED BY <1>3, <3>1 DEF Results
  <2>2. CASE db.revision = Phase(p).to /\ Phase(p).again = "resumes"
    <3>1. PICK n \in {2} : script' = [script EXCEPT ![t] = [opened EXCEPT !.at = n]]
      BY <1>7, <2>2 DEF Open, opened
    <3> QED BY <1>4, <2>2, <3>1
  <2>3. CASE db.revision = Phase(p).to /\ Phase(p).again # "resumes"
    <3>1. PICK result \in {"trusted", "refused"} :
            script' = [script EXCEPT ![t] = [opened EXCEPT !.result = result]]
      BY <1>7, <2>3 DEF Open, opened
    <3> QED BY <1>3, <3>1 DEF Results
  <2> QED BY <2>1, <2>2, <2>3
<1> QED BY <1>5, <1>6, <1>7

\* The Alembic process: what it expects to find is what it found, or was there.
LEMMA UpgradeStep ==
  ASSUME RolloutInductive, NEW t \in Terminals,
         UpgradeStarts(t) \/ Migrate(t) \/ UpgradeEnds(t)
  PROVE  RolloutInductive'
<1> DEFINE s == script[t]
           p == s.phase
<1>0. /\ s \in Scripts /\ db \in Databases /\ ScriptHolds(s, db) /\ p \in Phases
      /\ db.revision \in 4 .. 12 /\ s.child \in 0 .. 12 /\ Phase(p).to \in 5 .. 12
      /\ s.at \in 1 .. LastStep(p) /\ LastStep(p) \in 2 .. 4 /\ s.at = 1 /\ s.result # "passed"
  <2>1. /\ s \in Scripts /\ db \in Databases /\ ScriptHolds(s, db) /\ p \in Phases
        /\ db.revision \in 4 .. 12 /\ s.child \in 0 .. 12
    BY DEF RolloutInductive, RolloutTyped, Scripts, Databases, LastRevision
  <2>2. Phase(p).to \in 5 .. 12 /\ LastStep(p) \in 2 .. 4
    BY <2>1, Targets DEF Phases, LastStep
  <2>3. s.at \in 1 .. LastStep(p) /\ Phase(p).steps[s.at] = "upgrade" /\ s.result # "passed"
    BY <2>1, <2>2 DEF UpgradeStarts, Migrate, UpgradeEnds, Due, Running, ScriptHolds, Scripts
  <2>4. s.at = 1
    BY <2>1, <2>3, StepOrder
  <2> QED BY <2>1, <2>2, <2>3, <2>4
<1>1. CASE UpgradeStarts(t)
  <2> DEFINE r == [s EXCEPT !.child = db.revision]
  <2>1. script' = [script EXCEPT ![t] = r] /\ db' = db
    BY <1>1 DEF UpgradeStarts
  <2>2. /\ r \in Scripts /\ r.at = s.at /\ r.child = db.revision /\ r.result = s.result
        /\ r.phase = p /\ r.quiet = s.quiet
    BY <1>0 DEF Scripts, LastRevision
  <2> HIDE DEF r
  <2>3. ScriptHolds(r, db)
    BY <1>0, <2>2 DEF ScriptHolds, Past
  <2> QED BY <1>0, <2>1, <2>2, <2>3, Unchanging, ScriptStep
<1>2. CASE Migrate(t)
  <2> DEFINE r == [s EXCEPT !.child = @ + 1]
             e == [db EXCEPT !.revision = @ + 1, !.views = @ \/ db.revision = 6]
  <2>1. script' = [script EXCEPT ![t] = r] /\ db' = e /\ s.child = db.revision
          /\ db.revision < Phase(p).to
    BY <1>2 DEF Migrate
  <2>2. db.revision + 1 \in 4 .. 12 /\ s.child + 1 \in 0 .. 12
    BY <1>0, <2>1
  <2>3. /\ e \in Databases /\ e.revision = db.revision + 1 /\ e.grants = db.grants
        /\ e.runtime = db.runtime /\ e.extract = db.extract /\ e.candidates = db.candidates
        /\ e.catalogue = db.catalogue /\ (db.views => e.views)
    <3>1. [db EXCEPT !.revision = @ + 1] \in Databases
      BY <1>0, <2>2 DEF Databases, LastRevision
    <3> QED BY <1>0, <2>2, <3>1 DEF Databases, LastRevision
  <2>4. /\ r \in Scripts /\ r.at = s.at /\ r.child = s.child + 1 /\ r.result = s.result
        /\ r.phase = p /\ r.quiet = s.quiet
    BY <1>0, <2>2 DEF Scripts, LastRevision
  <2> HIDE DEF r, e
  <2>5. Grows(db, e)
    BY <1>0, <2>3 DEF Grows
  <2>6. ScriptHolds(r, e)
    BY <1>0, <2>1, <2>3, <2>4 DEF ScriptHolds, Past
  <2> QED BY <2>1, <2>3, <2>4, <2>5, <2>6, ScriptStep
<1>3. CASE UpgradeEnds(t)
  <2>1. Goes(t) /\ db' = db /\ s.child >= Phase(p).to
    BY <1>3 DEF UpgradeEnds
  <2>2. db.revision >= Phase(p).to /\ s.at < LastStep(p)
    BY <1>0, <2>1 DEF ScriptHolds
  <2> QED BY <1>0, <2>1, <2>2, Unchanging, GoStep
<1> QED BY <1>1, <1>2, <1>3

\* What is known of a script whose step is due.
LEMMA DueFacts ==
  ASSUME RolloutInductive, NEW t \in Terminals, NEW step, Due(t, step)
  PROVE  /\ script[t] \in Scripts /\ db \in Databases /\ ScriptHolds(script[t], db)
         /\ script[t].phase \in Phases /\ LastStep(script[t].phase) \in 2 .. 4
         /\ script[t].at \in 1 .. LastStep(script[t].phase)
         /\ Phase(script[t].phase).steps[script[t].at] = step
         /\ script[t].result # "passed" /\ Grows(db, db)
  BY Unchanging DEF RolloutInductive, RolloutTyped, Due, Running, ScriptHolds, Scripts,
     LastStep

\* The transactions that grant: what is committed adds the grants of the phase.
LEMMA GrantStep ==
  ASSUME RolloutInductive, NEW t \in Terminals, Grant(t)
  PROVE  RolloutInductive'
<1> DEFINE s == script[t]
           p == s.phase
<1>0. /\ s \in Scripts /\ db \in Databases /\ p \in Phases /\ s.at = 2 /\ p # 6
      /\ s.at < LastStep(p) /\ Grows(db, db) /\ Due(t, "grant")
  <2>1. Due(t, "grant")
    BY DEF Grant
  <2> QED BY <2>1, DueFacts, StepOrder DEF LastStep
<1>1. ASSUME Ends(t, "failed"), UNCHANGED db
      PROVE  RolloutInductive'
  BY <1>0, <1>1, EndStep DEF Results
<1>2. ASSUME NEW added \in SUBSET Bundles, p >= 11 => db.runtime = "plain",
             db' = [db EXCEPT !.grants = @ \cup added], Goes(t),
             Phase(p).bundles \ {"trainer"} \subseteq added
      PROVE  RolloutInductive'
  <2> DEFINE e == [db EXCEPT !.grants = @ \cup added]
  <2>1. /\ e \in Databases /\ e.grants = db.grants \cup added /\ e.runtime = db.runtime
        /\ e.revision = db.revision /\ e.extract = db.extract /\ e.views = db.views
        /\ e.candidates = db.candidates /\ e.catalogue = db.catalogue
    BY <1>0 DEF Databases
  <2> HIDE DEF e
  <2>2. Grows(db, e)
    BY <1>0, <2>1 DEF Grows, Databases
  <2>3. db' = e
    BY <1>2 DEF e
  <2> QED BY <1>0, <1>2, <2>1, <2>2, <2>3, GoStep
<1>3. CASE p = 7
  <2>1. PICK added \in {{"vectors"}} :
          \/ Goes(t) /\ db' = [db EXCEPT !.grants = @ \cup added]
          \/ Ends(t, "failed") /\ UNCHANGED db
    BY <1>3 DEF Grant, Commits, GrantVectors, Unless
  <2> QED BY <1>1, <1>2, <1>3, <2>1, BundleTable DEF Bundles
<1>4. CASE p = 9
  <2>1. PICK added \in {{"catalogue", "views"}} :
          \/ Goes(t) /\ db' = [db EXCEPT !.grants = @ \cup added]
          \/ Ends(t, "failed") /\ UNCHANGED db
    BY <1>4 DEF Grant, Commits, GrantCatalogue, Unless
  <2> QED BY <1>1, <1>2, <1>4, <2>1, BundleTable DEF Bundles
<1>5. CASE p = 10
  <2>1. PICK added \in {{"rules"}} :
          \/ Goes(t) /\ db' = [db EXCEPT !.grants = @ \cup added]
          \/ Ends(t, "failed") /\ UNCHANGED db
    BY <1>5 DEF Grant, Commits, GrantRules, Unless
  <2> QED BY <1>1, <1>2, <1>5, <2>1, BundleTable DEF Bundles
<1>6. CASE p = 11
  <2>1. PICK added \in {{"forecasts"}} :
          \/ /\ Goes(t) /\ db' = [db EXCEPT !.grants = @ \cup added]
             /\ db.runtime = "plain"
          \/ Ends(t, "failed") /\ UNCHANGED db
    BY <1>6 DEF Grant, Commits, GrantForecasts, Unless
  <2> QED BY <1>1, <1>2, <1>6, <2>1, BundleTable DEF Bundles
<1>7. CASE p = 12
  <2>1. PICK added \in {{"graph"}} :
          \/ /\ Goes(t) /\ db' = [db EXCEPT !.grants = @ \cup added]
             /\ db.runtime = "plain"
          \/ Ends(t, "failed") /\ UNCHANGED db
    BY <1>7 DEF Grant, Commits, GrantGraph, Unless
  <2> QED BY <1>1, <1>2, <1>7, <2>1, BundleTable DEF Bundles
<1> QED BY <1>0, <1>3, <1>4, <1>5, <1>6, <1>7 DEF Phases

\* The steps between the grants and the verification.
LEMMA TrainerStep ==
  ASSUME RolloutInductive, NEW t \in Terminals, GrantTrainer(t)
  PROVE  RolloutInductive'
<1> DEFINE s == script[t]
           e == [db EXCEPT !.trainer = "plain", !.grants = @ \cup {"trainer"}]
<1>0. /\ s \in Scripts /\ db \in Databases /\ s.phase = 11 /\ s.at = 3
      /\ s.at < LastStep(s.phase) /\ Grows(db, db)
  <2>1. Due(t, "trainer")
    BY DEF GrantTrainer
  <2> QED BY <2>1, DueFacts, StepOrder DEF LastStep
<1>1. \/ Goes(t) /\ db' = e
      \/ Ends(t, "failed") /\ UNCHANGED db
  BY DEF GrantTrainer, Commits, Unless
<1>2. CASE Ends(t, "failed") /\ UNCHANGED db
  BY <1>0, <1>2, EndStep DEF Results
<1>3. CASE Goes(t) /\ db' = e
  <2>1. [db EXCEPT !.trainer = "plain"] \in Databases
    BY <1>0 DEF Databases
  <2>2. /\ e \in Databases /\ e.grants = db.grants \cup {"trainer"}
        /\ e.runtime = db.runtime /\ e.revision = db.revision /\ e.extract = db.extract
        /\ e.views = db.views /\ e.candidates = db.candidates /\ e.catalogue = db.catalogue
    BY <1>0, <2>1 DEF Databases, Bundles
  <2> HIDE DEF e
  <2>3. Grows(db, e)
    BY <1>0, <2>2 DEF Grows, Databases
  <2> QED BY <1>0, <1>3, <2>2, <2>3, GoStep
<1> QED BY <1>1, <1>2, <1>3

\* The catalogue is refreshed from the extract there is: the script goes on only
\* when that is the whole one.
LEMMA RefreshStep ==
  ASSUME RolloutInductive, NEW t \in Terminals, Refresh(t)
  PROVE  RolloutInductive'
<1> DEFINE s == script[t]
           e == [db EXCEPT !.catalogue = db.extract]
<1>0. /\ s \in Scripts /\ db \in Databases /\ s.phase = 9 /\ s.at = 3
      /\ s.at < LastStep(s.phase) /\ Grows(db, db)
  <2>1. Due(t, "refresh")
    BY DEF Refresh
  <2> QED BY <2>1, DueFacts, StepOrder DEF LastStep
<1>1. CASE db.extract = "absent"
  BY <1>0, <1>1, EndStep DEF Refresh, Results
<1>2. CASE db.extract # "absent"
  <2>1. /\ e \in Databases /\ e.grants = db.grants
        /\ e.runtime = db.runtime /\ e.revision = db.revision /\ e.extract = db.extract
        /\ (db.views => e.views) /\ e.candidates = db.candidates /\ e.catalogue = db.extract
    BY <1>0, <1>2 DEF Databases
  <2>2. /\ db' = e
        /\ \/ db.extract = "whole" /\ db.views /\ Goes(t)
           \/ Ends(t, "failed")
    BY <1>2 DEF Refresh
  <2> HIDE DEF e
  <2>3. Grows(db, e)
    BY <1>0, <2>1 DEF Grows, Databases
  <2>4. CASE db.extract = "whole" /\ db.views /\ Goes(t)
    <3>1. e.extract = "whole" /\ e.catalogue = "whole" /\ e.views
      BY <2>1, <2>4
    <3> QED BY <1>0, <2>1, <2>2, <2>3, <2>4, <3>1, GoStep
  <2>5. CASE Ends(t, "failed")
    BY <2>1, <2>2, <2>3, <2>5, EndStep DEF Results
  <2> QED BY <2>2, <2>4, <2>5
<1> QED BY <1>1, <1>2

\* The candidates are imported, and stay.
LEMMA ImportStep ==
  ASSUME RolloutInductive, NEW t \in Terminals, Import(t)
  PROVE  RolloutInductive'
<1> DEFINE s == script[t]
           e == [db EXCEPT !.candidates = TRUE]
<1>0. /\ s \in Scripts /\ db \in Databases /\ s.phase = 10 /\ s.at = 3
      /\ s.at < LastStep(s.phase) /\ Grows(db, db)
  <2>1. Due(t, "import")
    BY DEF Import
  <2> QED BY <2>1, DueFacts, StepOrder DEF LastStep
<1>1. \/ Goes(t) /\ db' = e
      \/ Ends(t, "failed") /\ UNCHANGED db
  BY DEF Import, Commits, Unless
<1>2. CASE Ends(t, "failed") /\ UNCHANGED db
  BY <1>0, <1>2, EndStep DEF Results
<1>3. CASE Goes(t) /\ db' = e
  <2>1. /\ e \in Databases /\ e.candidates /\ e.grants = db.grants
        /\ e.runtime = db.runtime /\ e.revision = db.revision /\ e.extract = db.extract
        /\ e.views = db.views /\ e.catalogue = db.catalogue
    BY <1>0 DEF Databases
  <2> HIDE DEF e
  <2>2. Grows(db, e)
    BY <1>0, <2>1 DEF Grows, Databases
  <2> QED BY <1>0, <1>3, <2>1, <2>2, GoStep
<1> QED BY <1>1, <1>2, <1>3

\* A PASS is what the steps before have left, and what is looked at last.
LEMMA VerifyStep ==
  ASSUME RolloutInductive, NEW t \in Terminals, Verify(t)
  PROVE  RolloutInductive'
<1> DEFINE s == script[t]
           p == s.phase
           good == db.revision = Phase(p).to /\ db.extract = s.before /\ Verified(p, db)
<1>0. /\ s \in Scripts /\ db \in Databases /\ ScriptHolds(s, db) /\ p \in Phases
      /\ s.at = LastStep(p) /\ LastStep(p) \in 2 .. 4 /\ s.result # "passed" /\ Grows(db, db)
      /\ db' = db
  <2>1. Due(t, "verify")
    BY DEF Verify
  <2> QED BY <2>1, DueFacts, StepOrder DEF Verify
<1>1. CASE ~good
  <2>1. Ends(t, "failed")
    BY <1>1 DEF Verify
  <2> QED BY <1>0, <2>1, EndStep DEF Results
<1>2. CASE good
  <2> DEFINE r == [s EXCEPT !.at = 0, !.child = 0, !.result = "passed"]
  <2>1. script' = [script EXCEPT ![t] = r]
    BY <1>2 DEF Verify, Ends
  <2>2. /\ r \in Scripts /\ r.at = 0 /\ r.child = 0 /\ r.result = "passed" /\ r.phase = p
        /\ r.quiet = s.quiet
    <3>1. [s EXCEPT !.at = 0] \in Scripts
      BY <1>0 DEF Scripts
    <3>2. 0 \in 0 .. LastRevision
      BY DEF LastRevision
    <3>3. [s EXCEPT !.at = 0, !.child = 0] \in Scripts
      BY <3>1, <3>2 DEF Scripts
    <3> QED BY <1>0, <3>3 DEF Scripts, Results
  <2> HIDE DEF r
  <2>3. s.quiet =>
          /\ Phase(p).bundles \ {"trainer"} \subseteq db.grants
          /\ p >= 11 => db.runtime = "plain"
    <3>1. CASE p = 6
      BY <3>1, BundleTable
    <3>2. CASE p # 6
      BY <1>0, <3>2 DEF ScriptHolds, Past, LastStep
    <3> QED BY <3>1, <3>2
  <2>4. s.quiet =>
          /\ p = 11 => "trainer" \in db.grants
          /\ p = 9 => db.extract = "whole" /\ db.catalogue = "whole" /\ db.views
          /\ p = 10 => db.candidates
    BY <1>0 DEF ScriptHolds, Past, LastStep
  <2>5. p \in {9, 10} => db.runtime = "plain"
    <3>1. Verified(9, db) => db.runtime = "plain"
      BY DEF Verified, VerifiedCatalogue
    <3>2. Verified(10, db) => db.runtime = "plain"
      BY DEF Verified, VerifiedRules
    <3> QED BY <1>2, <3>1, <3>2
  <2>6. ScriptHolds(r, db)
    <3>1. db.revision \in Nat /\ Phase(p).to \in Nat
      BY <1>0, Targets DEF Databases, LastRevision, Phases
    <3> QED BY <1>0, <1>2, <2>2, <2>3, <2>4, <2>5, <3>1 DEF ScriptHolds, Past
  <2> QED BY <1>0, <2>1, <2>2, <2>6, ScriptStep
<1> QED BY <1>1, <1>2

\* A script that dies promises nothing.
LEMMA DiesStep ==
  ASSUME RolloutInductive, NEW t \in Terminals, Dies(t)
  PROVE  RolloutInductive'
  BY EndStep, Unchanging DEF Dies, Results, RolloutInductive, RolloutTyped

\* What happens from elsewhere: nothing a script has done can be relied on.
LEMMA DisturbStep ==
  ASSUME RolloutInductive, DropExtract \/ BuildExtract \/ AlterRole
  PROVE  RolloutInductive'
<1>0. db \in Databases /\ script \in [Terminals -> Scripts]
  BY DEF RolloutInductive, RolloutTyped
<1>1. db' \in Databases /\ db'.revision = db.revision
  <2>1. CASE DropExtract
    <3> DEFINE e == [db EXCEPT !.extract = "absent", !.views = FALSE,
                               !.grants = @ \ {"views", "trainer"}]
    <3>1. [db EXCEPT !.extract = "absent"] \in Databases
      BY <1>0 DEF Databases
    <3>2. [db EXCEPT !.extract = "absent", !.views = FALSE] \in Databases
      BY <3>1 DEF Databases
    <3>3. e \in Databases /\ e.revision = db.revision
      BY <1>0, <3>2 DEF Databases
    <3> QED BY <2>1, <3>3 DEF DropExtract, Disturbs
  <2>2. CASE BuildExtract
    BY <1>0, <2>2 DEF BuildExtract, Databases
  <2>3. CASE AlterRole
    BY <1>0, <2>3 DEF AlterRole, Disturbs, Databases
  <2> QED BY <2>1, <2>2, <2>3
<1>2. script' = [t \in Terminals |-> [script[t] EXCEPT !.quiet = FALSE]]
  BY DEF DropExtract, BuildExtract, AlterRole, Disturbs
<1>3. ASSUME NEW t \in Terminals
      PROVE  /\ script'[t] \in Scripts /\ script'[t].at = script[t].at
             /\ script'[t].child = script[t].child /\ script'[t].result = script[t].result
             /\ script'[t].phase = script[t].phase /\ ~script'[t].quiet
  BY <1>0, <1>2 DEF Scripts
<1>4. RolloutTyped'
  BY <1>1, <1>2, <1>3 DEF RolloutTyped
<1>5. ASSUME NEW t \in Terminals
      PROVE  ScriptHolds(script[t], db)'
  <2>1. ScriptHolds(script[t], db)
    BY DEF RolloutInductive
  <2> QED BY <1>1, <1>3, <2>1 DEF ScriptHolds, Past
<1> QED BY <1>4, <1>5 DEF RolloutInductive

\* The databases the scripts may find.
LEMMA RolloutStarts == RolloutInit => RolloutInductive
<1> SUFFICES ASSUME RolloutInit
             PROVE  RolloutInductive
  OBVIOUS
<1>1. db \in Databases
  <2>1. \A r \in {4, 6, 7, 9, 11} : GrantedBy(r) \subseteq Bundles
    BY BundleTable DEF GrantedBy, Phases, Bundles
  <2> QED BY <2>1 DEF RolloutInit, Databases, LastRevision
<1>2. Idle \in Scripts /\ Idle.at = 0 /\ Idle.child = 0 /\ Idle.result = "none"
        /\ Idle.phase = 6
  BY DEF Idle, Scripts, Phases, LastRevision, Results
<1>3. script = [t \in Terminals |-> Idle]
  BY DEF RolloutInit
<1>4. ScriptHolds(Idle, db)
  BY <1>1, <1>2 DEF ScriptHolds, Past, Databases, LastStep
<1> QED BY <1>1, <1>2, <1>3, <1>4 DEF RolloutInductive, RolloutTyped

\* Every step keeps the invariant.
LEMMA RolloutKept == RolloutInductive /\ [RolloutNext]_rollout => RolloutInductive'
<1> SUFFICES ASSUME RolloutInductive, [RolloutNext]_rollout
             PROVE  RolloutInductive'
  OBVIOUS
<1>1. CASE RolloutNext
  BY <1>1, OpenStep, UpgradeStep, GrantStep, TrainerStep, RefreshStep, ImportStep,
     VerifyStep, DiesStep, DisturbStep DEF RolloutNext
<1>2. CASE UNCHANGED rollout
  BY <1>2 DEF rollout, RolloutInductive, RolloutTyped, ScriptHolds, Past
<1> QED BY <1>1, <1>2

\* What a script that passed has done and nobody has undone is the phase.
LEMMA PassedDid == RolloutInductive => PassedIsInstalled
<1> SUFFICES ASSUME RolloutInductive, NEW t \in Terminals,
                    script[t].result = "passed", script[t].quiet
             PROVE  Installed(script[t].phase)
  BY DEF PassedIsInstalled
<1> DEFINE p == script[t].phase
<1>1. p \in Phases /\ ScriptHolds(script[t], db)
  BY DEF RolloutInductive, RolloutTyped, Scripts
<1>2. p # 11 => "trainer" \notin Phase(p).bundles
  BY <1>1, BundleTable DEF Phases
<1>3. Phase(p).bundles \subseteq db.grants
  BY <1>1, <1>2 DEF ScriptHolds, Past
<1> QED BY <1>1, <1>3 DEF ScriptHolds, Past, Installed, Phases

\* The revisions scripts upgrade from are all but the last.
LEMMA EachGoesOn == RolloutInductive => NoDeadEnd
<1> SUFFICES ASSUME RolloutInductive, db.revision < LastRevision
             PROVE  \E p \in Phases : db.revision \in Phase(p).from
  BY DEF NoDeadEnd
<1>1. db.revision \in {4, 5, 6, 7, 8, 9, 10, 11}
  BY DEF RolloutInductive, RolloutTyped, Databases, LastRevision
<1>2. /\ Phase(6).from = {4} /\ Phase(7).from = {5} /\ Phase(9).from = {6}
      /\ Phase(10).from = {7, 8} /\ Phase(11).from = {9, 10} /\ Phase(12).from = {11}
  BY PhaseTable DEF Phase06, Phase07, Phase09, Phase10, Phase11, Phase12
<1>3. \E p \in {6, 7, 9, 10, 11, 12} : db.revision \in Phase(p).from
  BY <1>1, <1>2
<1> QED BY <1>3 DEF Phases
-----------------------------------------------------------------------------
(* The staff script.  The invariant is StaffInductive.                     *)

UserOps == {"post_user", "put_user", "remove", "assign", "password"}

\* What attributes and roles are drawn from.
Words ==
  {"managed", "email", "telephone", "placed", "tenant_id", "offline_access"}
    \cup BusinessRoles

Realms ==
  [profile : SUBSET Words,
   mapper  : [Range(Mappers) -> {"absent", "drifted", "right"}],
   user    : [Users -> [exists : BOOLEAN, roles : SUBSET Words,
                        attributes : SUBSET Words, password : BOOLEAN]]]

CallRecords ==
  [place : Nat, op : UserOps \cup {"profile", "create", "update"},
   on : Users \cup Range(Mappers) \cup {"profile"}, value : SUBSET Words]

ScriptRuns ==
  [at : {"idle", "users", "calls"}, mode : {"apply", "validate", "dry_run"},
   reset : BOOLEAN, profile : SUBSET Words,
   mapper : [Range(Mappers) -> {"absent", "drifted", "right"}],
   user : [Users -> [exists : BOOLEAN, roles : SUBSET Words,
                     attributes : SUBSET Words, password : BOOLEAN]],
   seen : 0 .. Len(Staff), todo : SUBSET CallRecords,
   result : {"none", "failed", "dry_run", "validated", "applied"}, quiet : BOOLEAN]

StaffTypeOK ==
  /\ realm \in Realms
  /\ admin \in [Administrators -> ScriptRuns]
  /\ abandoned \subseteq Users

\* What a call asks for is part of what the script is to bring about.
CallSound(c) ==
  /\ c.op = "profile" => "managed" \in c.value
  /\ c.op \in {"create", "update"} => c.on \in Range(Mappers)
  /\ c.op \in UserOps => c.on \in Users
  /\ c.op \in {"post_user", "put_user"} => "placed" \in c.value
  /\ c.op = "remove" => RoleOf[c.on] \notin c.value
  /\ c.op = "assign" => c.value = {RoleOf[c.on]}

\* A user that is yet to be created is created once, and before it is given its
\* role and its password.
CreatesFirst(todo) ==
  \A c \in todo : c.op = "post_user" =>
    /\ \E d \in todo : d.op = "assign" /\ d.on = c.on
    /\ \E d \in todo : d.op = "password" /\ d.on = c.on
    /\ \A d \in todo : d.op \in {"assign", "password"} /\ d.on = c.on => c.place < d.place
    /\ \A d \in todo : d.op = "post_user" /\ d.on = c.on => c = d

\* What is not so yet in the realm is still to be called for.
ProfileGoal(k, todo) ==
  "managed" \in k.profile \/ \E c \in todo : c.op = "profile"

MapperGoal(k, todo) ==
  \A m \in Range(Mappers) :
    k.mapper[m] = "right" \/ \E c \in todo : c.op \in {"create", "update"} /\ c.on = m

ExistsGoal(k, todo) ==
  \A u \in Users :
    k.user[u].exists \/ \E c \in todo : c.op = "post_user" /\ c.on = u

PlacedGoal(k, todo) ==
  \A u \in Users :
    \/ "placed" \in k.user[u].attributes
    \/ \E c \in todo : c.op \in {"post_user", "put_user"} /\ c.on = u

RoleGoal(k, todo) ==
  \A u \in Users :
    RoleOf[u] \in k.user[u].roles \/ \E c \in todo : c.op = "assign" /\ c.on = u

StaleGoal(k, todo) ==
  \A u \in Users : \A r \in Business(k.user[u].roles) \ {RoleOf[u]} :
    \E c \in todo : c.op = "remove" /\ c.on = u /\ r \in c.value

Goals(k, todo) ==
  /\ ProfileGoal(k, todo) /\ MapperGoal(k, todo) /\ ExistsGoal(k, todo)
  /\ PlacedGoal(k, todo) /\ RoleGoal(k, todo)

\* The plan is made from what is still true.
ReadHolds(run, k) ==
  /\ "managed" \in run.profile => "managed" \in k.profile
  /\ \A m \in Range(Mappers) : run.mapper[m] = "right" => k.mapper[m] = "right"
  /\ \A u \in Users : run.user[u].exists => k.user[u].exists

RolesRead(run, k) ==
  \A i \in DOMAIN Staff : i <= run.seen =>
    Business(k.user[Staff[i]].roles) \ {RoleOf[Staff[i]]}
      \subseteq Business(run.user[Staff[i]].roles)

RunHolds(run, k) ==
  /\ run.at # "calls" => run.todo = {}
  /\ run.result = "applied" => run.at = "idle"
  /\ \A c \in run.todo : CallSound(c)
  /\ CreatesFirst(run.todo)
  /\ run.at = "users" => ReadHolds(run, k) /\ (run.quiet => RolesRead(run, k))
  /\ run.at = "calls" \/ run.result = "applied" =>
       Goals(k, run.todo) /\ (run.quiet => StaleGoal(k, run.todo))

\* The run that created the user has still to set its password.
Pending(todo, u) ==
  /\ \E c \in todo : c.op = "password" /\ c.on = u
  /\ \A c \in todo : c.op = "post_user" => c.on # u

PasswordsPending ==
  \A u \in Users : realm.user[u].exists /\ ~realm.user[u].password =>
    u \in abandoned \/ \E a \in Administrators : Pending(admin[a].todo, u)

StaffInductive ==
  /\ StaffTypeOK
  /\ \A a \in Administrators : RunHolds(admin[a], realm)
  /\ PasswordsPending
-----------------------------------------------------------------------------
(* What a call does to the realm.                                          *)

\* Staff and mappers are numbered from one, without gaps.
LEMMA Numbered ==
  /\ Len(Staff) \in Nat /\ DOMAIN Staff = 1 .. Len(Staff)
  /\ Len(Mappers) \in Nat /\ DOMAIN Mappers = 1 .. Len(Mappers)
  /\ \A i \in DOMAIN Staff : Staff[i] \in Users
  /\ \A u \in Users : \E i \in DOMAIN Staff : Staff[i] = u
  /\ \A i, j \in DOMAIN Staff : Staff[i] = Staff[j] => i = j
  BY StaffAssumption DEF Users, Range, IsInjective

\* A call has one effect or none, and the effect is a realm.
LEMMA EffectTyped ==
  ASSUME NEW k \in Realms, NEW c \in CallRecords, CallSound(c), NEW e \in Effect(c, k)
  PROVE  e \in Realms
<1>1. CASE c.op \in UserOps
  <2>1. c.on \in Users
    BY <1>1 DEF CallSound
  <2>2. k.user[c.on].roles \subseteq Words /\ c.value \subseteq Words
    BY <2>1 DEF Realms, CallRecords
  <2>3. CASE c.op = "post_user"
    <3> DEFINE made == [exists |-> TRUE, roles |-> {}, attributes |-> c.value,
                        password |-> FALSE]
    <3>1. e = [k EXCEPT !.user[c.on] = made]
      BY <2>3 DEF Effect
    <3>2. made \in [exists : BOOLEAN, roles : SUBSET Words,
                    attributes : SUBSET Words, password : BOOLEAN]
      BY <2>2
    <3> HIDE DEF made
    <3> QED BY <2>1, <3>1, <3>2 DEF Realms
  <2>4. CASE c.op = "put_user"
    BY <2>1, <2>2, <2>4 DEF Effect, Realms
  <2>5. CASE c.op = "remove"
    BY <2>1, <2>2, <2>5 DEF Effect, Realms
  <2>6. CASE c.op = "assign"
    BY <2>1, <2>2, <2>6 DEF Effect, Realms
  <2>7. CASE c.op = "password"
    <3> DEFINE old == k.user[c.on]
    <3>1. old \in [exists : BOOLEAN, roles : SUBSET Words,
                   attributes : SUBSET Words, password : BOOLEAN]
      BY <2>1 DEF Realms
    <3>2. [old EXCEPT !.password = TRUE] \in
            [exists : BOOLEAN, roles : SUBSET Words, attributes : SUBSET Words,
             password : BOOLEAN]
      BY <3>1
    <3>3. e = [k EXCEPT !.user[c.on] = [old EXCEPT !.password = TRUE]]
      BY <2>7 DEF Effect
    <3> QED BY <2>1, <3>2, <3>3 DEF Realms
  <2> QED BY <1>1, <2>3, <2>4, <2>5, <2>6, <2>7 DEF UserOps
<1>2. CASE c.op = "profile"
  BY <1>2 DEF Effect, Realms, CallRecords
<1>3. CASE c.op = "create"
  BY <1>3 DEF Effect, Realms, CallRecords, CallSound
<1>4. CASE c.op = "update"
  BY <1>4 DEF Effect, Realms, CallRecords, CallSound
<1> QED BY <1>1, <1>2, <1>3, <1>4 DEF CallRecords

\* The mappers: only create and update touch them, and leave them right.
LEMMA EffectOnMappers ==
  ASSUME NEW k \in Realms, NEW c \in CallRecords, CallSound(c), NEW e \in Effect(c, k)
  PROVE  /\ \A m \in Range(Mappers) : k.mapper[m] = "right" => e.mapper[m] = "right"
         /\ c.op \in {"create", "update"} => e.mapper[c.on] = "right"
<1>1. CASE c.op \in {"create", "update"}
  BY <1>1 DEF Effect, Realms, CallRecords, CallSound
<1>2. CASE c.op = "profile"
  BY <1>2 DEF Effect, Realms
<1>3. CASE c.op = "post_user"
  BY <1>3 DEF Effect, Realms
<1>4. CASE c.op \in {"put_user", "remove", "assign", "password"}
  BY <1>4 DEF Effect, Realms
<1> QED BY <1>1, <1>2, <1>3, <1>4 DEF CallRecords, UserOps

\* The profile: a call for it brings the managed attributes, no other call
\* takes them away.
LEMMA EffectOnProfile ==
  ASSUME NEW k \in Realms, NEW c \in CallRecords, CallSound(c), NEW e \in Effect(c, k)
  PROVE  /\ "managed" \in k.profile => "managed" \in e.profile
         /\ c.op = "profile" => "managed" \in e.profile
<1>1. CASE c.op \in {"create", "update"}
  BY <1>1 DEF Effect, Realms, CallRecords, CallSound
<1>2. CASE c.op = "profile"
  BY <1>2 DEF Effect, Realms, CallSound
<1>3. CASE c.op = "post_user"
  BY <1>3 DEF Effect, Realms
<1>4. CASE c.op \in {"put_user", "remove", "assign", "password"}
  BY <1>4 DEF Effect, Realms
<1> QED BY <1>1, <1>2, <1>3, <1>4 DEF CallRecords, UserOps

\* A call is about one user or none.
LEMMA EffectOnOthers ==
  ASSUME NEW k \in Realms, NEW c \in CallRecords, CallSound(c), NEW e \in Effect(c, k),
         NEW u \in Users, c.op \in UserOps => c.on # u
  PROVE  e.user[u] = k.user[u]
<1>1. CASE c.op \in {"create", "update"}
  BY <1>1 DEF Effect, Realms, CallRecords, CallSound, UserOps
<1>2. CASE c.op = "profile"
  BY <1>2 DEF Effect, Realms, CallSound, UserOps
<1>3. CASE c.op = "post_user"
  BY <1>3 DEF Effect, Realms, UserOps, CallSound
<1>4. CASE c.op = "put_user"
  BY <1>4 DEF Effect, Realms, UserOps, CallSound
<1>5. CASE c.op \in {"remove", "assign"}
  BY <1>5 DEF Effect, Realms, UserOps, CallSound
<1>6. CASE c.op = "password"
  BY <1>6 DEF Effect, Realms, UserOps, CallSound
<1> QED BY <1>1, <1>2, <1>3, <1>4, <1>5, <1>6 DEF CallRecords, UserOps

\* The user a call is about.
LEMMA EffectOnUser ==
  ASSUME NEW k \in Realms, NEW c \in CallRecords, CallSound(c), NEW e \in Effect(c, k),
         NEW u \in Users, c.op \in UserOps, c.on = u
  PROVE  LET old == k.user[u]
             new == e.user[u]
         IN /\ c.op = "post_user" => ~old.exists /\ new.attributes = c.value /\ new.roles = {}
            /\ c.op # "post_user" => (new.exists <=> old.exists)
            /\ c.op = "post_user" => new.exists
            /\ c.op = "put_user" => new.attributes = c.value
            /\ c.op \notin {"post_user", "put_user"} => new.attributes = old.attributes
            /\ c.op \in {"put_user", "password"} => new.roles = old.roles
            /\ c.op = "remove" => new.roles = old.roles \ c.value
            /\ c.op = "assign" => new.roles = old.roles \cup c.value
            /\ c.op \in {"put_user", "remove", "assign"} => (new.password <=> old.password)
            /\ c.op = "password" => new.password
<1> DEFINE old == k.user[u]
<1>0. old \in [exists : BOOLEAN, roles : SUBSET Words,
               attributes : SUBSET Words, password : BOOLEAN]
  BY DEF Realms
<1>1. CASE c.op = "post_user"
  <2> DEFINE made == [exists |-> TRUE, roles |-> {}, attributes |-> c.value,
                      password |-> FALSE]
  <2>1. e = [k EXCEPT !.user[c.on] = made] /\ ~k.user[c.on].exists
    BY <1>1 DEF Effect
  <2>2. e.user[u] = made
    BY <2>1 DEF Realms
  <2>3. made.exists /\ made.roles = {} /\ made.attributes = c.value
    OBVIOUS
  <2> HIDE DEF made
  <2> QED BY <1>1, <2>1, <2>2, <2>3
<1>2. CASE c.op = "put_user"
  <2>1. e.user[u] = [old EXCEPT !.attributes = c.value]
    BY <1>2 DEF Effect, Realms
  <2> QED BY <1>0, <1>2, <2>1
<1>3. CASE c.op = "remove"
  <2>1. e.user[u] = [old EXCEPT !.roles = @ \ c.value]
    BY <1>3 DEF Effect, Realms
  <2> QED BY <1>0, <1>3, <2>1
<1>4. CASE c.op = "assign"
  <2>1. e.user[u] = [old EXCEPT !.roles = @ \cup c.value]
    BY <1>4 DEF Effect, Realms
  <2> QED BY <1>0, <1>4, <2>1
<1>5. CASE c.op = "password"
  <2> DEFINE given == [old EXCEPT !.password = TRUE]
  <2>1. given.password /\ (given.exists <=> old.exists)
          /\ given.roles = old.roles /\ given.attributes = old.attributes
    BY <1>0
  <2>2. e = [k EXCEPT !.user[u] = given]
    BY <1>5 DEF Effect
  <2> HIDE DEF given
  <2>3. e.user[u] = given
    BY <2>2 DEF Realms
  <2> QED BY <1>5, <2>1, <2>3
<1> QED BY <1>1, <1>2, <1>3, <1>4, <1>5 DEF UserOps
-----------------------------------------------------------------------------
(* A call and what is still to be done.                                    *)

\* What is true of the realm and was read, or is called for, stays so when
\* somebody makes a call: no call undoes what another is to bring about.
LEMMA OthersKeepGoals ==
  ASSUME NEW k \in Realms, NEW c \in CallRecords, CallSound(c), NEW e \in Effect(c, k),
         NEW todo \in SUBSET CallRecords, CreatesFirst(todo), Goals(k, todo)
  PROVE  Goals(e, todo)
<1>1. ProfileGoal(e, todo) /\ MapperGoal(e, todo)
  BY EffectOnProfile, EffectOnMappers DEF Goals, ProfileGoal, MapperGoal
<1>2. ASSUME NEW u \in Users
      PROVE  /\ e.user[u].exists \/ \E d \in todo : d.op = "post_user" /\ d.on = u
             /\ \/ "placed" \in e.user[u].attributes
                \/ \E d \in todo : d.op \in {"post_user", "put_user"} /\ d.on = u
             /\ RoleOf[u] \in e.user[u].roles
                  \/ \E d \in todo : d.op = "assign" /\ d.on = u
  <2>0. /\ k.user[u].exists \/ \E d \in todo : d.op = "post_user" /\ d.on = u
        /\ \/ "placed" \in k.user[u].attributes
           \/ \E d \in todo : d.op \in {"post_user", "put_user"} /\ d.on = u
        /\ RoleOf[u] \in k.user[u].roles
             \/ \E d \in todo : d.op = "assign" /\ d.on = u
    BY <1>2 DEF Goals, ExistsGoal, PlacedGoal, RoleGoal
  <2>1. CASE c.op \in UserOps => c.on # u
    BY <2>0, <2>1, EffectOnOthers
  <2>2. CASE c.op \in UserOps /\ c.on = u
    <3>1. CASE c.op = "post_user"
      <4>1. \E d \in todo : d.op = "post_user" /\ d.on = u
        BY <2>0, <2>2, <3>1, EffectOnUser
      <4>2. \E d \in todo : d.op = "assign" /\ d.on = u
        BY <4>1 DEF CreatesFirst
      <4> QED BY <4>1, <4>2
    <3>2. CASE c.op # "post_user"
      <4>1. k.user[u].exists => e.user[u].exists
        BY <2>2, <3>2, EffectOnUser
      <4>2. "placed" \in k.user[u].attributes => "placed" \in e.user[u].attributes
        <5>1. c.op = "put_user" => "placed" \in c.value
          BY DEF CallSound
        <5> QED BY <2>2, <3>2, <5>1, EffectOnUser
      <4>3. RoleOf[u] \in k.user[u].roles => RoleOf[u] \in e.user[u].roles
        <5>1. c.op = "remove" => RoleOf[u] \notin c.value
          BY <2>2 DEF CallSound
        <5> QED BY <2>2, <3>2, <5>1, EffectOnUser DEF UserOps
      <4> QED BY <2>0, <4>1, <4>2, <4>3
    <3> QED BY <3>1, <3>2
  <2> QED BY <2>1, <2>2
<1> QED BY <1>1, <1>2 DEF Goals, ExistsGoal, PlacedGoal, RoleGoal

\* The next call in the order of the places brings about what it is for.
LEMMA CallKeepsGoals ==
  ASSUME NEW k \in Realms, NEW todo \in SUBSET CallRecords,
         \A d \in todo : CallSound(d), CreatesFirst(todo), Goals(k, todo),
         NEW c \in todo, \A d \in todo : c.place <= d.place, NEW e \in Effect(c, k)
  PROVE  Goals(e, todo \ {c})
<1>0. c \in CallRecords /\ CallSound(c)
  OBVIOUS
<1>1. Goals(e, todo)
  BY <1>0, OthersKeepGoals
<1>2. ProfileGoal(e, todo \ {c})
  BY <1>0, <1>1, EffectOnProfile DEF Goals, ProfileGoal
<1>3. MapperGoal(e, todo \ {c})
  BY <1>0, <1>1, EffectOnMappers DEF Goals, MapperGoal
<1>4. ASSUME NEW u \in Users
      PROVE  /\ e.user[u].exists \/ \E d \in todo \ {c} : d.op = "post_user" /\ d.on = u
             /\ \/ "placed" \in e.user[u].attributes
                \/ \E d \in todo \ {c} : d.op \in {"post_user", "put_user"} /\ d.on = u
             /\ RoleOf[u] \in e.user[u].roles
                  \/ \E d \in todo \ {c} : d.op = "assign" /\ d.on = u
  <2>0. /\ e.user[u].exists \/ \E d \in todo : d.op = "post_user" /\ d.on = u
        /\ \/ "placed" \in e.user[u].attributes
           \/ \E d \in todo : d.op \in {"post_user", "put_user"} /\ d.on = u
        /\ RoleOf[u] \in e.user[u].roles
             \/ \E d \in todo : d.op = "assign" /\ d.on = u
    BY <1>1, <1>4 DEF Goals, ExistsGoal, PlacedGoal, RoleGoal
  <2>1. CASE ~(c.op \in UserOps /\ c.on = u)
    BY <2>0, <2>1 DEF UserOps
  <2>2. CASE c.op \in UserOps /\ c.on = u
    <3>1. CASE c.op = "post_user"
      <4>1. e.user[u].exists /\ e.user[u].attributes = c.value
        BY <1>0, <2>2, <3>1, EffectOnUser
      <4>2. "placed" \in c.value
        BY <1>0, <3>1 DEF CallSound
      <4>3. \E d \in todo \ {c} : d.op = "assign" /\ d.on = u
        BY <2>2, <3>1 DEF CreatesFirst
      <4> QED BY <4>1, <4>2, <4>3
    <3>2. CASE c.op = "put_user"
      <4>1. e.user[u].attributes = c.value
        BY <1>0, <2>2, <3>2, EffectOnUser
      <4>2. "placed" \in c.value
        BY <1>0, <3>2 DEF CallSound
      <4> QED BY <2>0, <3>2, <4>1, <4>2
    <3>3. CASE c.op \in {"remove", "password"}
      BY <2>0, <3>3
    <3>4. CASE c.op = "assign"
      <4>1. c.value = {RoleOf[u]}
        BY <1>0, <2>2, <3>4 DEF CallSound
      <4>2. RoleOf[u] \in e.user[u].roles
        BY <1>0, <2>2, <3>4, <4>1, EffectOnUser
      <4> QED BY <2>0, <3>4, <4>2
    <3> QED BY <2>2, <3>1, <3>2, <3>3, <3>4 DEF UserOps
  <2> QED BY <2>1, <2>2
<1> QED BY <1>2, <1>3, <1>4 DEF Goals, ExistsGoal, PlacedGoal, RoleGoal

\* No call gives a user a business role that is not its own.
LEMMA RolesNarrow ==
  ASSUME NEW k \in Realms, NEW c \in CallRecords, CallSound(c), NEW e \in Effect(c, k),
         NEW u \in Users
  PROVE  Business(e.user[u].roles) \ {RoleOf[u]} \subseteq Business(k.user[u].roles)
<1>1. CASE c.op \in UserOps => c.on # u
  BY <1>1, EffectOnOthers DEF Business
<1>2. CASE c.op \in UserOps /\ c.on = u
  <2>1. c.op = "assign" => c.value = {RoleOf[u]}
    BY <1>2 DEF CallSound
  <2>2. e.user[u].roles \ {RoleOf[u]} \subseteq k.user[u].roles
    BY <1>2, <2>1, EffectOnUser DEF UserOps
  <2> QED BY <2>2 DEF Business
<1> QED BY <1>1, <1>2

\* What is to be taken away stays called for until it is gone.
LEMMA CallKeepsStale ==
  ASSUME NEW k \in Realms, NEW todo \in SUBSET CallRecords, StaleGoal(k, todo),
         NEW c \in CallRecords, CallSound(c), NEW e \in Effect(c, k)
  PROVE  StaleGoal(e, todo) /\ StaleGoal(e, todo \ {c})
<1>1. ASSUME NEW u \in Users, NEW r \in Business(e.user[u].roles) \ {RoleOf[u]}
      PROVE  \E d \in todo \ {c} : d.op = "remove" /\ d.on = u /\ r \in d.value
  <2>1. r \in Business(k.user[u].roles) \ {RoleOf[u]}
    BY <1>1, RolesNarrow
  <2>2. PICK d \in todo : d.op = "remove" /\ d.on = u /\ r \in d.value
    BY <2>1 DEF StaleGoal
  <2>3. CASE c = d
    <3>1. e.user[u].roles = k.user[u].roles \ c.value
      BY <2>2, <2>3, EffectOnUser DEF UserOps
    <3> QED BY <1>1, <2>2, <2>3, <3>1 DEF Business
  <2> QED BY <2>2, <2>3
<1> QED BY <1>1 DEF StaleGoal

\* The rest of the calls still creates first.
LEMMA RestCreatesFirst ==
  ASSUME NEW todo \in SUBSET CallRecords, CreatesFirst(todo),
         NEW c \in todo, \A d \in todo : c.place <= d.place
  PROVE  CreatesFirst(todo \ {c})
<1>1. ASSUME NEW p \in todo \ {c}, p.op = "post_user"
      PROVE  /\ \E d \in todo \ {c} : d.op = "assign" /\ d.on = p.on
             /\ \E d \in todo \ {c} : d.op = "password" /\ d.on = p.on
             /\ \A d \in todo \ {c} :
                  d.op \in {"assign", "password"} /\ d.on = p.on => p.place < d.place
             /\ \A d \in todo \ {c} : d.op = "post_user" /\ d.on = p.on => p = d
  <2>1. \A d \in todo : d.op \in {"assign", "password"} /\ d.on = p.on => p.place < d.place
    BY <1>1 DEF CreatesFirst
  <2>2. ~(c.op \in {"assign", "password"} /\ c.on = p.on)
    BY <2>1 DEF CallRecords
  <2> QED BY <1>1, <2>1, <2>2 DEF CreatesFirst
<1> QED BY <1>1 DEF CreatesFirst

\* A user without a password is one whose password the call leaves to be set,
\* or one that was without it before.
LEMMA CallKeepsPending ==
  ASSUME NEW k \in Realms, NEW todo \in SUBSET CallRecords,
         \A d \in todo : CallSound(d), CreatesFirst(todo),
         NEW c \in todo, NEW e \in Effect(c, k),
         NEW u \in Users, e.user[u].exists, ~e.user[u].password
  PROVE  \/ Pending(todo \ {c}, u)
         \/ /\ k.user[u].exists /\ ~k.user[u].password
            /\ Pending(todo, u) => Pending(todo \ {c}, u)
<1>0. c \in CallRecords /\ CallSound(c)
  OBVIOUS
<1>1. CASE c.op \in UserOps => c.on # u
  <2>1. e.user[u] = k.user[u]
    BY <1>0, <1>1, EffectOnOthers
  <2> QED BY <1>1, <2>1 DEF Pending, UserOps
<1>2. CASE c.op \in UserOps /\ c.on = u
  <2>1. CASE c.op = "post_user"
    BY <1>2, <2>1 DEF CreatesFirst, Pending
  <2>2. CASE c.op \in {"put_user", "remove", "assign"}
    <3>1. (e.user[u].exists <=> k.user[u].exists) /\ (e.user[u].password <=> k.user[u].password)
      BY <1>0, <1>2, <2>2, EffectOnUser
    <3> QED BY <2>2, <3>1 DEF Pending
  <2>3. CASE c.op = "password"
    BY <1>0, <1>2, <2>3, EffectOnUser
  <2> QED BY <1>2, <2>1, <2>2, <2>3 DEF UserOps
<1> QED BY <1>1, <1>2
-----------------------------------------------------------------------------
(* The plan.                                                               *)

\* The calls about one user: which there are, and where they stand.
LEMMA UserCall ==
  ASSUME NEW run, NEW i \in DOMAIN Staff, NEW u, u = Staff[i]
  PROVE  /\ \E c \in StaffCalls(run, i) :
              c.on = u /\ c.op = IF run.user[u].exists THEN "put_user" ELSE "post_user"
         /\ Stale(run, u) # {} =>
              \E c \in StaffCalls(run, i) :
                c.on = u /\ c.op = "remove" /\ c.value = Stale(run, u)
         /\ \E c \in StaffCalls(run, i) : c.on = u /\ c.op = "assign"
         /\ Prompted(run, u) => \E c \in StaffCalls(run, i) : c.on = u /\ c.op = "password"
<1> DEFINE first == [place |-> Len(Mappers) + 4 * i + 0, on |-> u,
                     op |-> IF run.user[u].exists THEN "put_user" ELSE "post_user",
                     value |-> Payload(run, u)]
           second == [place |-> Len(Mappers) + 4 * i + 1, op |-> "remove", on |-> u,
                      value |-> Stale(run, u)]
           third == [place |-> Len(Mappers) + 4 * i + 2, op |-> "assign", on |-> u,
                     value |-> {RoleOf[u]}]
           last == [place |-> Len(Mappers) + 4 * i + 3, op |-> "password", on |-> u,
                    value |-> {}]
<1>1. first \in StaffCalls(run, i) /\ third \in StaffCalls(run, i)
  BY DEF StaffCalls
<1>2. Stale(run, u) # {} => second \in StaffCalls(run, i)
  BY DEF StaffCalls
<1>3. Prompted(run, u) => last \in StaffCalls(run, i)
  BY DEF StaffCalls
<1>4. /\ first.on = u /\ second.on = u /\ third.on = u /\ last.on = u
      /\ first.op = IF run.user[u].exists THEN "put_user" ELSE "post_user"
      /\ second.op = "remove" /\ second.value = Stale(run, u)
      /\ third.op = "assign" /\ last.op = "password"
  OBVIOUS
<1> HIDE DEF first, second, third, last
<1> QED BY <1>1, <1>2, <1>3, <1>4

\* What a call about a user may be.
LEMMA UserCallShape ==
  ASSUME NEW run, NEW i \in DOMAIN Staff, NEW u, u = Staff[i],
         NEW c \in StaffCalls(run, i)
  PROVE  /\ c.on = u
         /\ c = [place |-> c.place, op |-> c.op, on |-> u, value |-> c.value]
         /\ \/ /\ c.place = Len(Mappers) + 4 * i + 0 /\ c.value = Payload(run, u)
               /\ c.op = IF run.user[u].exists THEN "put_user" ELSE "post_user"
            \/ /\ c.place = Len(Mappers) + 4 * i + 1 /\ c.value = Stale(run, u)
               /\ c.op = "remove"
            \/ /\ c.place = Len(Mappers) + 4 * i + 2 /\ c.value = {RoleOf[u]}
               /\ c.op = "assign"
            \/ /\ c.place = Len(Mappers) + 4 * i + 3 /\ c.value = {}
               /\ c.op = "password"
<1> DEFINE first == [place |-> Len(Mappers) + 4 * i + 0, on |-> u,
                     op |-> IF run.user[u].exists THEN "put_user" ELSE "post_user",
                     value |-> Payload(run, u)]
           second == [place |-> Len(Mappers) + 4 * i + 1, op |-> "remove", on |-> u,
                      value |-> Stale(run, u)]
           third == [place |-> Len(Mappers) + 4 * i + 2, op |-> "assign", on |-> u,
                     value |-> {RoleOf[u]}]
           last == [place |-> Len(Mappers) + 4 * i + 3, op |-> "password", on |-> u,
                    value |-> {}]
<1>1. c = first \/ c = second \/ c = third \/ c = last
  BY DEF StaffCalls
<1>2. CASE c = first
  BY <1>2
<1>3. CASE c = second
  BY <1>3
<1>4. CASE c = third
  BY <1>4
<1>5. CASE c = last
  BY <1>5
<1> QED BY <1>1, <1>2, <1>3, <1>4, <1>5

\* A call of the plan is about the profile, a mapper or a user.
LEMMA PlannedCall ==
  ASSUME NEW run \in ScriptRuns, NEW c \in Calls(run)
  PROVE  \/ c = [place |-> 0, op |-> "profile", on |-> "profile", value |-> Merged(run.profile)]
         \/ \E i \in DOMAIN Mappers :
              c = [place |-> i, op |-> Action(run.mapper[Mappers[i]]),
                   on |-> Mappers[i], value |-> {}]
              /\ Action(run.mapper[Mappers[i]]) # "keep"
         \/ \E i \in DOMAIN Staff : c \in StaffCalls(run, i)
  BY DEF Calls, ProfileCalls, MapperCalls

\* A call about a user is one of the calls made for it.
LEMMA PlannedForUser ==
  ASSUME NEW run \in ScriptRuns, NEW i \in DOMAIN Staff, NEW c \in Calls(run),
         c.op \in UserOps, c.on = Staff[i]
  PROVE  c \in StaffCalls(run, i)
<1>1. c.op \notin {"profile", "create", "update"}
  BY DEF UserOps
<1>2. PICK j \in DOMAIN Staff : c \in StaffCalls(run, j)
  BY <1>1, PlannedCall DEF Action
<1>3. c.on = Staff[j]
  BY <1>2, UserCallShape
<1> QED BY <1>2, <1>3, Numbered

\* Every call of a plan is well formed and asks for part of the goals.
LEMMA PlanSound ==
  ASSUME NEW run \in ScriptRuns, NEW c \in Calls(run)
  PROVE  c \in CallRecords /\ CallSound(c)
<1>0. {"managed", "placed"} \subseteq Words /\ BusinessRoles \subseteq Words
  BY DEF Words
<1>1. CASE c = [place |-> 0, op |-> "profile", on |-> "profile",
                value |-> Merged(run.profile)]
  <2>1. Merged(run.profile) \subseteq Words /\ "managed" \in Merged(run.profile)
    <3>1. run.profile \subseteq Words
      BY DEF ScriptRuns
    <3> QED BY <1>0, <3>1 DEF Merged
  <2> QED BY <1>1, <2>1 DEF CallRecords, CallSound, UserOps
<1>2. ASSUME NEW i \in DOMAIN Mappers,
             c = [place |-> i, op |-> Action(run.mapper[Mappers[i]]),
                  on |-> Mappers[i], value |-> {}],
             Action(run.mapper[Mappers[i]]) # "keep"
      PROVE  c \in CallRecords /\ CallSound(c)
  <2>1. Mappers[i] \in Range(Mappers) /\ i \in Nat
    BY Numbered DEF Range
  <2>2. Action(run.mapper[Mappers[i]]) \in {"create", "update"}
    BY <1>2 DEF Action
  <2> QED BY <1>0, <1>2, <2>1, <2>2 DEF CallRecords, CallSound, UserOps
<1>3. ASSUME NEW i \in DOMAIN Staff, c \in StaffCalls(run, i)
      PROVE  c \in CallRecords /\ CallSound(c)
  <2> DEFINE u == Staff[i]
             base == Len(Mappers) + 4 * i
  <2>1. u \in Users /\ base \in Nat
    BY Numbered
  <2>2. Payload(run, u) \subseteq Words /\ "placed" \in Payload(run, u)
    <3>1. run.user[u].attributes \subseteq Words
      BY <2>1 DEF ScriptRuns
    <3> QED BY <1>0, <3>1 DEF Payload
  <2>3. Stale(run, u) \subseteq Words /\ RoleOf[u] \notin Stale(run, u)
    BY <1>0 DEF Stale, Business
  <2>4. RoleOf[u] \in Words
    BY <1>0, <2>1, StaffAssumption DEF Users
  <2>5. /\ c.place \in Nat /\ c.on = u
        /\ \/ c.op \in {"put_user", "post_user"} /\ c.value = Payload(run, u)
           \/ c.op = "remove" /\ c.value = Stale(run, u)
           \/ c.op = "assign" /\ c.value = {RoleOf[u]}
           \/ c.op = "password" /\ c.value = {}
        /\ c = [place |-> c.place, op |-> c.op, on |-> c.on, value |-> c.value]
    BY <1>3, <2>1, UserCallShape
  <2> HIDE DEF u, base
  <2>6. c.value \in SUBSET Words /\ c.op \in UserOps
    BY <1>0, <2>2, <2>3, <2>4, <2>5 DEF UserOps
  <2>7. c \in CallRecords
    BY <2>1, <2>5, <2>6 DEF CallRecords
  <2>8. CallSound(c)
    BY <2>1, <2>2, <2>3, <2>5 DEF CallSound
  <2> QED BY <2>7, <2>8
<1> QED BY <1>1, <1>2, <1>3, PlannedCall

\* A plan creates a user before anything else it does about it.
LEMMA PlanCreatesFirst ==
  ASSUME NEW run \in ScriptRuns
  PROVE  CreatesFirst(Calls(run))
<1>1. ASSUME NEW c \in Calls(run), c.op = "post_user"
      PROVE  /\ \E d \in Calls(run) : d.op = "assign" /\ d.on = c.on
             /\ \E d \in Calls(run) : d.op = "password" /\ d.on = c.on
             /\ \A d \in Calls(run) :
                  d.op \in {"assign", "password"} /\ d.on = c.on => c.place < d.place
             /\ \A d \in Calls(run) : d.op = "post_user" /\ d.on = c.on => c = d
  <2>1. PICK i \in DOMAIN Staff : Staff[i] = c.on
    BY <1>1, PlanSound, Numbered DEF CallSound, UserOps
  <2> DEFINE u == Staff[i]
             base == Len(Mappers) + 4 * i
  <2>2. c \in StaffCalls(run, i)
    BY <1>1, <2>1, PlannedForUser DEF UserOps
  <2>3. ~run.user[u].exists /\ c.place = base + 0 /\ c.value = Payload(run, u)
          /\ c = [place |-> c.place, op |-> c.op, on |-> u, value |-> c.value]
    BY <1>1, <2>2, UserCallShape
  <2>4. Prompted(run, u)
    BY <2>3 DEF Prompted
  <2>5. StaffCalls(run, i) \subseteq Calls(run) /\ base \in Nat
    BY Numbered DEF Calls
  <2>6. \E d \in Calls(run) : d.op = "assign" /\ d.on = c.on
    BY <2>1, <2>5, UserCall
  <2>7. \E d \in Calls(run) : d.op = "password" /\ d.on = c.on
    BY <2>1, <2>4, <2>5, UserCall
  <2>8. ASSUME NEW d \in Calls(run), d.op \in {"assign", "password"}, d.on = c.on
        PROVE  c.place < d.place
    <3>1. d \in StaffCalls(run, i)
      BY <2>1, <2>8, PlannedForUser DEF UserOps
    <3>2. d.place = base + 2 \/ d.place = base + 3
      BY <2>8, <3>1, UserCallShape
    <3> QED BY <2>3, <2>5, <3>2
  <2>9. ASSUME NEW d \in Calls(run), d.op = "post_user", d.on = c.on
        PROVE  c = d
    <3>1. d \in StaffCalls(run, i)
      BY <2>1, <2>9, PlannedForUser DEF UserOps
    <3>2. d.place = base + 0 /\ d.value = Payload(run, u)
            /\ d = [place |-> d.place, op |-> d.op, on |-> u, value |-> d.value]
      BY <2>9, <3>1, UserCallShape
    <3> QED BY <1>1, <2>3, <2>9, <3>2
  <2> QED BY <2>6, <2>7, <2>8, <2>9
<1> QED BY <1>1 DEF CreatesFirst

\* A plan made from what still holds calls for everything else.
LEMMA PlanMeetsGoals ==
  ASSUME NEW run \in ScriptRuns, NEW k \in Realms, ReadHolds(run, k)
  PROVE  Goals(k, Calls(run))
<1>1. ProfileGoal(k, Calls(run))
  <2>1. CASE "managed" \in run.profile
    BY <2>1 DEF ReadHolds, ProfileGoal
  <2>2. CASE "managed" \notin run.profile
    <3>1. Merged(run.profile) # run.profile
      BY <2>2 DEF Merged
    <3>2. [place |-> 0, op |-> "profile", on |-> "profile", value |-> Merged(run.profile)]
            \in Calls(run)
      BY <3>1 DEF Calls, ProfileCalls
    <3> QED BY <3>2 DEF ProfileGoal
  <2> QED BY <2>1, <2>2
<1>2. MapperGoal(k, Calls(run))
  <2>1. ASSUME NEW m \in Range(Mappers), run.mapper[m] # "right"
        PROVE  \E c \in Calls(run) : c.op \in {"create", "update"} /\ c.on = m
    <3>1. PICK i \in DOMAIN Mappers : Mappers[i] = m
      BY DEF Range
    <3>2. Action(run.mapper[Mappers[i]]) \in {"create", "update"}
      BY <2>1, <3>1 DEF Action
    <3>3. [place |-> i, op |-> Action(run.mapper[Mappers[i]]), on |-> Mappers[i], value |-> {}]
            \in Calls(run)
      BY <3>2 DEF Calls, MapperCalls
    <3> QED BY <3>1, <3>2, <3>3
  <2> QED BY <2>1 DEF MapperGoal, ReadHolds
<1>3. ASSUME NEW u \in Users
      PROVE  /\ k.user[u].exists \/ \E c \in Calls(run) : c.op = "post_user" /\ c.on = u
             /\ \E c \in Calls(run) : c.op \in {"post_user", "put_user"} /\ c.on = u
             /\ \E c \in Calls(run) : c.op = "assign" /\ c.on = u
  <2>1. PICK i \in DOMAIN Staff : Staff[i] = u
    BY Numbered
  <2>2. StaffCalls(run, i) \subseteq Calls(run)
    BY DEF Calls
  <2>3. \E c \in StaffCalls(run, i) : c.op = "assign" /\ c.on = u
    BY <2>1, UserCall
  <2>4. PICK c \in StaffCalls(run, i) :
          c.on = u /\ c.op = IF run.user[u].exists THEN "put_user" ELSE "post_user"
    BY <2>1, UserCall
  <2> QED BY <2>2, <2>3, <2>4 DEF ReadHolds
<1> QED BY <1>1, <1>2, <1>3 DEF Goals, ExistsGoal, PlacedGoal, RoleGoal

\* ... and, when nobody has given a role since, for every role too many.
LEMMA PlanMeetsStale ==
  ASSUME NEW run \in ScriptRuns, NEW k \in Realms, RolesRead(run, k), run.seen = Len(Staff)
  PROVE  StaleGoal(k, Calls(run))
<1>1. ASSUME NEW u \in Users, NEW r \in Business(k.user[u].roles) \ {RoleOf[u]}
      PROVE  \E c \in Calls(run) : c.op = "remove" /\ c.on = u /\ r \in c.value
  <2>1. PICK i \in DOMAIN Staff : Staff[i] = u
    BY Numbered
  <2>2. i <= run.seen
    BY Numbered
  <2>3. r \in Stale(run, u)
    BY <1>1, <2>1, <2>2 DEF RolesRead, Stale
  <2>4. \E c \in StaffCalls(run, i) : c.op = "remove" /\ c.on = u /\ c.value = Stale(run, u)
    BY <2>1, <2>3, UserCall
  <2> QED BY <2>3, <2>4 DEF Calls
<1> QED BY <1>1 DEF StaleGoal
-----------------------------------------------------------------------------
(* The steps of the staff script.                                          *)

\* What a run knows and promises survives a call of another run.
LEMMA OthersKeepRuns ==
  ASSUME NEW run \in ScriptRuns, NEW k \in Realms, RunHolds(run, k),
         NEW c \in CallRecords, CallSound(c), NEW e \in Effect(c, k)
  PROVE  RunHolds(run, e)
<1>0. run.todo \in SUBSET CallRecords
  BY DEF ScriptRuns
<1>1. ReadHolds(run, k) => ReadHolds(run, e)
  <2>1. ASSUME NEW u \in Users, k.user[u].exists
        PROVE  e.user[u].exists
    BY <2>1, EffectOnUser, EffectOnOthers
  <2> QED BY <2>1, EffectOnProfile, EffectOnMappers DEF ReadHolds
<1>2. RolesRead(run, k) => RolesRead(run, e)
  BY RolesNarrow, Numbered DEF RolesRead
<1>3. CreatesFirst(run.todo) /\ Goals(k, run.todo) => Goals(e, run.todo)
  BY <1>0, OthersKeepGoals
<1>4. StaleGoal(k, run.todo) => StaleGoal(e, run.todo)
  BY <1>0, CallKeepsStale
<1> QED BY <1>1, <1>2, <1>3, <1>4 DEF RunHolds

\* A run that stops has nothing left to do.
LEMMA StopsRecord ==
  ASSUME StaffTypeOK, NEW a \in Administrators, NEW result, NEW rest,
         result \in {"failed", "dry_run", "validated", "applied"}, Stops(a, result, rest)
  PROVE  /\ admin' \in [Administrators -> ScriptRuns]
         /\ \A b \in Administrators \ {a} : admin'[b] = admin[b]
         /\ admin'[a].at = "idle" /\ admin'[a].todo = {} /\ admin'[a].result = result
         /\ admin'[a].quiet = admin[a].quiet
         /\ abandoned \subseteq abandoned' /\ abandoned' \subseteq Users
         /\ \A u \in Users : Pending(rest, u) => u \in abandoned'
<1> DEFINE r == [admin[a] EXCEPT !.at = "idle", !.todo = {}, !.result = result]
<1>1. admin' = [admin EXCEPT ![a] = r]
  BY DEF Stops, StaffTypeOK
<1>2. r \in ScriptRuns
  <2>1. admin[a] \in ScriptRuns
    BY DEF StaffTypeOK
  <2>2. [admin[a] EXCEPT !.at = "idle"] \in ScriptRuns
    BY <2>1 DEF ScriptRuns
  <2>3. [admin[a] EXCEPT !.at = "idle", !.todo = {}] \in ScriptRuns
    BY <2>2 DEF ScriptRuns
  <2> QED BY <2>3 DEF ScriptRuns
<1>3. r.at = "idle" /\ r.todo = {} /\ r.result = result /\ r.quiet = admin[a].quiet
  BY DEF StaffTypeOK, ScriptRuns
<1>4. /\ abandoned \subseteq abandoned' /\ abandoned' \subseteq Users
      /\ \A u \in Users : Pending(rest, u) => u \in abandoned'
  BY DEF Stops, Forsaken, Pending, StaffTypeOK
<1> HIDE DEF r
<1> QED BY <1>1, <1>2, <1>3, <1>4 DEF StaffTypeOK

\* A run before its first step.
LEMMA NoRunTyped ==
  /\ NoRun \in ScriptRuns /\ NoRun.at = "idle" /\ NoRun.todo = {} /\ NoRun.seen = 0
  /\ NoRun.result = "none" /\ \A u \in Users : ~NoRun.user[u].exists
<1>1. NoUser \in [exists : BOOLEAN, roles : SUBSET Words,
                  attributes : SUBSET Words, password : BOOLEAN]
  BY DEF NoUser
<1>2. ~NoUser.exists
  BY DEF NoUser
<1>3. 0 \in 0 .. Len(Staff)
  BY Numbered
<1> QED BY <1>1, <1>2, <1>3 DEF NoRun, ScriptRuns

\* The realm at the start, and nobody at work.
LEMMA StaffStarts == StaffInit => StaffInductive
<1> SUFFICES ASSUME StaffInit
             PROVE  StaffInductive
  OBVIOUS
<1>1. PICK known \in SUBSET {u \in Users : u = Staff[1]}, r \in BusinessRoles,
           extra \in SUBSET {"tenant_id"}, m \in {"absent", "drifted"} :
       realm =
         [profile |-> {"email"},
          mapper  |-> [x \in Range(Mappers) |-> m],
          user    |-> [u \in Users |->
             IF u \in known
             THEN [exists |-> TRUE, roles |-> {r, "offline_access"},
                   attributes |-> extra, password |-> TRUE]
             ELSE NoUser]]
  BY DEF StaffInit
<1> DEFINE found == [exists |-> TRUE, roles |-> {r, "offline_access"},
                     attributes |-> extra, password |-> TRUE]
           Kinds == [exists : BOOLEAN, roles : SUBSET Words,
                     attributes : SUBSET Words, password : BOOLEAN]
<1>2. found \in Kinds /\ found.password
  BY DEF Words
<1>3. NoUser \in Kinds /\ ~NoUser.exists
  BY DEF NoUser
<1>4. realm.profile = {"email"} /\ realm.mapper = [x \in Range(Mappers) |-> m]
        /\ realm.user = [u \in Users |-> IF u \in known THEN found ELSE NoUser]
        /\ realm = [profile |-> realm.profile, mapper |-> realm.mapper, user |-> realm.user]
  BY <1>1
<1> HIDE DEF found
<1>5. realm \in Realms
  <2>1. realm.user \in [Users -> Kinds]
    BY <1>2, <1>3, <1>4
  <2>2. realm.profile \in SUBSET Words /\ realm.mapper \in
          [Range(Mappers) -> {"absent", "drifted", "right"}]
    BY <1>4 DEF Words
  <2> QED BY <1>4, <2>1, <2>2 DEF Realms
<1>6. admin = [a \in Administrators |-> NoRun] /\ abandoned = {}
  BY DEF StaffInit
<1>7. StaffTypeOK
  BY <1>5, <1>6, NoRunTyped DEF StaffTypeOK
<1>8. \A a \in Administrators : RunHolds(admin[a], realm)
  BY <1>6, NoRunTyped DEF RunHolds, CreatesFirst
<1>9. PasswordsPending
  BY <1>2, <1>3, <1>4 DEF PasswordsPending
<1> QED BY <1>7, <1>8, <1>9 DEF StaffInductive

\* The invariant after a step, from the realm and the runs it leaves.
LEMMA Assembled ==
  ASSUME StaffTypeOK', NEW k, realm' = k,
         \A a \in Administrators : RunHolds(admin'[a], k),
         \A u \in Users : k.user[u].exists /\ ~k.user[u].password =>
           u \in abandoned' \/ \E a \in Administrators : Pending(admin'[a].todo, u)
  PROVE  StaffInductive'
<1>1. ASSUME NEW a \in Administrators
      PROVE  RunHolds(admin[a], realm)'
  <2>1. PICK r : r = admin'[a]
    OBVIOUS
  <2>2. RunHolds(r, k)
    BY <2>1
  <2> QED BY <2>1, <2>2 DEF RunHolds, ReadHolds, RolesRead, Goals, StaleGoal, ProfileGoal,
             MapperGoal, ExistsGoal, PlacedGoal, RoleGoal, CreatesFirst
<1>2. ASSUME NEW u \in Users, realm'.user[u].exists, ~realm'.user[u].password
      PROVE  u \in abandoned' \/ \E a \in Administrators : Pending(admin[a].todo, u)'
  <2>1. CASE u \in abandoned'
    BY <2>1
  <2>2. CASE \E a \in Administrators : Pending(admin'[a].todo, u)
    <3>1. PICK a \in Administrators : Pending(admin'[a].todo, u)
      BY <2>2
    <3>2. PICK todo : todo = admin'[a].todo
      OBVIOUS
    <3>3. Pending(todo, u)
      BY <3>1, <3>2
    <3>4. Pending(admin[a].todo, u)'
      BY <3>2, <3>3 DEF Pending
    <3> QED BY <3>4
  <2> QED BY <1>2, <2>1, <2>2
<1> QED BY <1>1, <1>2 DEF StaffInductive, PasswordsPending

\* A step that leaves the realm alone, forgets nobody who is abandoned and takes
\* no call from a run.
LEMMA RunStep ==
  ASSUME StaffInductive, NEW a \in Administrators, UNCHANGED realm,
         abandoned \subseteq abandoned', abandoned' \subseteq Users,
         NEW r \in ScriptRuns, admin' = [admin EXCEPT ![a] = r],
         RunHolds(r, realm), admin[a].todo = {}
  PROVE  StaffInductive'
<1>1. StaffTypeOK'
  BY DEF StaffInductive, StaffTypeOK
<1>2. PICK k : k = realm
  OBVIOUS
<1>3. ASSUME NEW b \in Administrators
      PROVE  RunHolds(admin'[b], k)
  BY <1>2 DEF StaffInductive, StaffTypeOK
<1>4. ASSUME NEW u \in Users, NEW b \in Administrators, Pending(admin[b].todo, u)
      PROVE  Pending(admin'[b].todo, u)
  BY <1>4 DEF StaffInductive, StaffTypeOK, Pending
<1>5. \A u \in Users : k.user[u].exists /\ ~k.user[u].password =>
        u \in abandoned' \/ \E b \in Administrators : Pending(admin'[b].todo, u)
  BY <1>2, <1>4 DEF StaffInductive, PasswordsPending
<1> QED BY <1>1, <1>2, <1>3, <1>5, Assembled

\* A run that stops before its first call.
LEMMA EmptyStop ==
  ASSUME StaffInductive, NEW a \in Administrators, NEW result, UNCHANGED realm,
         result \in {"failed", "dry_run", "validated"}, Stops(a, result, {}),
         admin[a].todo = {}
  PROVE  StaffInductive'
<1>1. admin' \in [Administrators -> ScriptRuns] /\ admin'[a].at = "idle"
        /\ admin'[a].todo = {} /\ admin'[a].result = result
        /\ abandoned \subseteq abandoned' /\ abandoned' \subseteq Users
        /\ \A b \in Administrators \ {a} : admin'[b] = admin[b]
  BY StopsRecord DEF StaffInductive
<1>2. PICK r : r = admin'[a]
  OBVIOUS
<1>3. RunHolds(r, realm)
  BY <1>1, <1>2 DEF RunHolds, CreatesFirst
<1>4. r \in ScriptRuns /\ admin' = [admin EXCEPT ![a] = r]
  BY <1>1, <1>2 DEF StaffInductive, StaffTypeOK
<1>5. abandoned \subseteq abandoned' /\ abandoned' \subseteq Users
  BY <1>1
<1> QED BY <1>3, <1>4, <1>5, RunStep

\* The profile, the mappers and the roles are read.
LEMMA ReadRealmStep ==
  ASSUME StaffInductive, NEW a \in Administrators, ReadRealm(a)
  PROVE  StaffInductive'
<1>1. PICK mode \in {"apply", "validate", "dry_run"}, reset \in BOOLEAN :
        admin' = [admin EXCEPT ![a] = [NoRun EXCEPT
          !.at = "users", !.mode = mode, !.reset = reset,
          !.profile = realm.profile, !.mapper = realm.mapper]]
  BY DEF ReadRealm
<1> DEFINE r == [NoRun EXCEPT !.at = "users", !.mode = mode, !.reset = reset,
                              !.profile = realm.profile, !.mapper = realm.mapper]
<1>2. realm.profile \in SUBSET Words
        /\ realm.mapper \in [Range(Mappers) -> {"absent", "drifted", "right"}]
  BY DEF StaffInductive, StaffTypeOK, Realms
<1>3. r \in ScriptRuns /\ r.at = "users" /\ r.todo = {} /\ r.result = "none"
        /\ r.profile = realm.profile /\ r.mapper = realm.mapper /\ r.user = NoRun.user
        /\ r.seen = 0
  <2>1. [NoRun EXCEPT !.at = "users"] \in ScriptRuns
    BY NoRunTyped DEF ScriptRuns
  <2>2. [NoRun EXCEPT !.at = "users", !.mode = mode] \in ScriptRuns
    BY <2>1 DEF ScriptRuns
  <2>3. [NoRun EXCEPT !.at = "users", !.mode = mode, !.reset = reset] \in ScriptRuns
    BY <2>2 DEF ScriptRuns
  <2>4. [NoRun EXCEPT !.at = "users", !.mode = mode, !.reset = reset,
                      !.profile = realm.profile] \in ScriptRuns
    BY <1>2, <2>3 DEF ScriptRuns
  <2>5. r \in ScriptRuns
    BY <1>2, <2>4 DEF ScriptRuns
  <2> QED BY <2>5, NoRunTyped DEF ScriptRuns
<1> HIDE DEF r
<1>4. admin[a].at = "idle" /\ admin[a].todo = {}
  BY DEF ReadRealm, StaffInductive, RunHolds
<1>5. ReadHolds(r, realm) /\ RolesRead(r, realm)
  BY <1>3, NoRunTyped, Numbered DEF ReadHolds, RolesRead
<1>6. RunHolds(r, realm)
  BY <1>3, <1>5 DEF RunHolds, CreatesFirst
<1>7. admin' = [admin EXCEPT ![a] = r] /\ UNCHANGED <<realm, abandoned>>
        /\ abandoned \subseteq Users
  BY <1>1 DEF ReadRealm, r, StaffInductive, StaffTypeOK
<1> QED BY <1>3, <1>4, <1>6, <1>7, RunStep

\* One more user is read.
LEMMA ReadUserStep ==
  ASSUME StaffInductive, NEW a \in Administrators, ReadUser(a)
  PROVE  StaffInductive'
<1> DEFINE s == admin[a]
           i == s.seen + 1
           u == Staff[i]
<1>0. s \in ScriptRuns /\ realm \in Realms /\ s.at = "users" /\ s.seen < Len(Staff)
        /\ UNCHANGED realm /\ RunHolds(s, realm) /\ s.todo = {}
  BY DEF ReadUser, StaffInductive, StaffTypeOK, RunHolds
<1>1. i \in DOMAIN Staff /\ u \in Users /\ i \in 0 .. Len(Staff) /\ s.seen \in Nat
  BY <1>0, Numbered DEF ScriptRuns
<1>2. CASE "tenant_id" \in realm.user[u].attributes
  BY <1>0, <1>2, EmptyStop DEF ReadUser
<1>3. CASE "tenant_id" \notin realm.user[u].attributes
  <2> DEFINE r == [s EXCEPT !.user[u] = realm.user[u], !.seen = i]
  <2>1. admin' = [admin EXCEPT ![a] = r] /\ abandoned' = abandoned /\ abandoned \subseteq Users
    BY <1>3 DEF ReadUser, StaffInductive, StaffTypeOK
  <2>2. realm.user[u] \in [exists : BOOLEAN, roles : SUBSET Words,
                           attributes : SUBSET Words, password : BOOLEAN]
    BY <1>0, <1>1 DEF Realms
  <2>3. r \in ScriptRuns
    <3>1. [s EXCEPT !.user[u] = realm.user[u]] \in ScriptRuns
      BY <1>0, <2>2 DEF ScriptRuns
    <3> QED BY <1>1, <3>1 DEF ScriptRuns
  <2>4. /\ r.at = "users" /\ r.todo = {} /\ r.result = s.result /\ r.quiet = s.quiet
        /\ r.profile = s.profile /\ r.mapper = s.mapper /\ r.seen = i
        /\ r.user = [s.user EXCEPT ![u] = realm.user[u]]
    BY <1>0 DEF ScriptRuns
  <2> HIDE DEF r, s, u
  <2>5. s.user \in [Users -> [exists : BOOLEAN, roles : SUBSET Words,
                              attributes : SUBSET Words, password : BOOLEAN]]
    BY <1>0 DEF ScriptRuns
  <2>6. ReadHolds(r, realm)
    BY <1>0, <1>1, <2>4, <2>5 DEF RunHolds, ReadHolds
  <2>7. s.quiet => RolesRead(r, realm)
    <3>1. ASSUME s.quiet, NEW j \in DOMAIN Staff, j <= i
          PROVE  Business(realm.user[Staff[j]].roles) \ {RoleOf[Staff[j]]}
                   \subseteq Business(r.user[Staff[j]].roles)
      <4>1. CASE j = i
        BY <1>1, <2>4, <2>5, <4>1 DEF u, Business
      <4>2. CASE j # i
        <5>1. j <= s.seen /\ Staff[j] # u /\ Staff[j] \in Users
          BY <1>1, <3>1, <4>2, Numbered DEF u
        <5>2. r.user[Staff[j]] = s.user[Staff[j]]
          BY <2>4, <2>5, <5>1
        <5> QED BY <1>0, <3>1, <5>1, <5>2 DEF RunHolds, RolesRead
      <4> QED BY <4>1, <4>2
    <3> QED BY <2>4, <3>1 DEF RolesRead
  <2>8. RunHolds(r, realm)
    BY <1>0, <2>4, <2>6, <2>7 DEF RunHolds, CreatesFirst
  <2>9. admin[a].todo = {}
    BY <1>0 DEF s
  <2> QED BY <1>0, <2>1, <2>3, <2>8, <2>9, RunStep
<1> QED BY <1>2, <1>3

\* The plan is made, or reported.
LEMMA DecideStep ==
  ASSUME StaffInductive, NEW a \in Administrators, Decide(a)
  PROVE  StaffInductive'
<1> DEFINE s == admin[a]
<1>0. s \in ScriptRuns /\ realm \in Realms /\ s.at = "users" /\ s.seen = Len(Staff)
        /\ UNCHANGED realm /\ RunHolds(s, realm) /\ s.todo = {}
  BY DEF Decide, StaffInductive, StaffTypeOK, RunHolds
<1>1. CASE s.mode = "dry_run"
  BY <1>0, <1>1, EmptyStop DEF Decide
<1>2. CASE s.mode = "validate"
  BY <1>0, <1>2, EmptyStop DEF Decide
<1>3. CASE s.mode = "apply"
  <2> DEFINE r == [s EXCEPT !.at = "calls", !.todo = Calls(s)]
  <2>1. admin' = [admin EXCEPT ![a] = r] /\ abandoned' = abandoned /\ abandoned \subseteq Users
    BY <1>3 DEF Decide, StaffInductive, StaffTypeOK
  <2>2. Calls(s) \in SUBSET CallRecords
    BY <1>0, PlanSound
  <2>3. r \in ScriptRuns /\ r.at = "calls" /\ r.todo = Calls(s) /\ r.result = s.result
          /\ r.quiet = s.quiet
    <3>1. [s EXCEPT !.at = "calls"] \in ScriptRuns
      BY <1>0 DEF ScriptRuns
    <3> QED BY <1>0, <2>2, <3>1 DEF ScriptRuns
  <2> HIDE DEF r, s
  <2>4. Goals(realm, r.todo)
    BY <1>0, <2>3, PlanMeetsGoals DEF RunHolds
  <2>5. r.quiet => StaleGoal(realm, r.todo)
    BY <1>0, <2>3, PlanMeetsStale DEF RunHolds
  <2>6. RunHolds(r, realm)
    BY <1>0, <2>3, <2>4, <2>5, PlanSound, PlanCreatesFirst DEF RunHolds
  <2>7. admin[a].todo = {}
    BY <1>0 DEF s
  <2> QED BY <1>0, <2>1, <2>3, <2>6, <2>7, RunStep
<1> QED BY <1>0, <1>1, <1>2, <1>3 DEF ScriptRuns

\* The last call was answered.
LEMMA AppliedStep ==
  ASSUME StaffInductive, NEW a \in Administrators, Applied(a)
  PROVE  StaffInductive'
<1>0. StaffTypeOK /\ RunHolds(admin[a], realm) /\ UNCHANGED realm
        /\ admin[a].at = "calls" /\ admin[a].todo = {} /\ Stops(a, "applied", {})
  BY DEF Applied, StaffInductive
<1>1. admin' \in [Administrators -> ScriptRuns] /\ admin'[a].at = "idle"
        /\ admin'[a].todo = {} /\ admin'[a].result = "applied"
        /\ admin'[a].quiet = admin[a].quiet
        /\ abandoned \subseteq abandoned' /\ abandoned' \subseteq Users
        /\ \A b \in Administrators \ {a} : admin'[b] = admin[b]
  BY <1>0, StopsRecord
<1>2. PICK r : r = admin'[a]
  OBVIOUS
<1>3. RunHolds(r, realm)
  BY <1>0, <1>1, <1>2 DEF RunHolds, CreatesFirst
<1>4. r \in ScriptRuns /\ admin' = [admin EXCEPT ![a] = r]
  BY <1>0, <1>1, <1>2 DEF StaffTypeOK
<1>5. /\ abandoned \subseteq abandoned' /\ abandoned' \subseteq Users
      /\ admin[a].todo = {} /\ UNCHANGED realm
  BY <1>0, <1>1
<1> QED BY <1>3, <1>4, <1>5, RunStep

\* A call, whatever its answer: the realm is as before or as the call leaves
\* it, and the run goes on with the rest or stops.
LEMMA CallStep ==
  ASSUME StaffInductive, NEW a \in Administrators, Call(a)
  PROVE  StaffInductive'
<1> DEFINE s == admin[a]
<1>0. /\ StaffTypeOK /\ s \in ScriptRuns /\ realm \in Realms /\ RunHolds(s, realm)
      /\ s.at = "calls" /\ s.todo \in SUBSET CallRecords
  BY DEF Call, StaffInductive, StaffTypeOK, ScriptRuns
<1>1. PICK c \in s.todo :
        /\ \A d \in s.todo : c.place <= d.place
        /\ \/ \E k \in Effect(c, realm) :
                /\ realm' = k
                /\ admin' = [admin EXCEPT ![a].todo = @ \ {c}]
                /\ UNCHANGED abandoned
           \/ \E k \in Effect(c, realm) : realm' = k /\ Stops(a, "failed", s.todo \ {c})
           \/ UNCHANGED realm /\ Stops(a, "failed", s.todo)
  BY DEF Call
<1>2. c \in CallRecords /\ CallSound(c) /\ CreatesFirst(s.todo)
        /\ \A d \in s.todo : CallSound(d)
  BY <1>0 DEF RunHolds
<1>3. CASE \E k \in Effect(c, realm) :
             /\ realm' = k
             /\ admin' = [admin EXCEPT ![a].todo = @ \ {c}]
             /\ UNCHANGED abandoned
  <2>1. PICK k \in Effect(c, realm) : realm' = k
    BY <1>3
  <2> DEFINE r == [s EXCEPT !.todo = @ \ {c}]
  <2>2. /\ r \in ScriptRuns /\ r.todo = s.todo \ {c} /\ r.at = s.at
        /\ r.result = s.result /\ r.quiet = s.quiet
    BY <1>0 DEF ScriptRuns
  <2>3. admin' = [admin EXCEPT ![a] = r] /\ UNCHANGED abandoned
    BY <1>0, <1>3 DEF StaffTypeOK
  <2> HIDE DEF r
  <2>4. k \in Realms
    BY <1>0, <1>2, EffectTyped
  <2>5. StaffTypeOK'
    BY <1>0, <2>1, <2>2, <2>3, <2>4 DEF StaffTypeOK
  <2>6. ASSUME NEW b \in Administrators
        PROVE  RunHolds(admin'[b], k)
    <3>1. CASE b = a
      <4>1. admin'[b] = r
        BY <1>0, <2>3, <3>1 DEF StaffTypeOK
      <4>2. Goals(k, s.todo \ {c})
        BY <1>0, <1>1, <1>2, CallKeepsGoals DEF RunHolds
      <4>3. s.quiet => StaleGoal(k, s.todo \ {c})
        BY <1>0, <1>2, CallKeepsStale DEF RunHolds
      <4>4. CreatesFirst(s.todo \ {c})
        BY <1>0, <1>1, <1>2, RestCreatesFirst
      <4> QED BY <1>0, <1>2, <2>2, <4>1, <4>2, <4>3, <4>4 DEF RunHolds
    <3>2. CASE b # a
      BY <1>0, <1>2, <2>3, <3>2, OthersKeepRuns DEF StaffTypeOK, StaffInductive
    <3> QED BY <3>1, <3>2
  <2>7. ASSUME NEW u \in Users, k.user[u].exists, ~k.user[u].password
        PROVE  u \in abandoned \/ \E b \in Administrators : Pending(admin'[b].todo, u)
    <3>1. admin'[a].todo = s.todo \ {c} /\ \A b \in Administrators \ {a} : admin'[b] = admin[b]
      BY <1>0, <2>2, <2>3 DEF StaffTypeOK
    <3>2. \/ Pending(s.todo \ {c}, u)
          \/ /\ realm.user[u].exists /\ ~realm.user[u].password
             /\ Pending(s.todo, u) => Pending(s.todo \ {c}, u)
      BY <1>0, <1>2, <2>7, CallKeepsPending
    <3> QED BY <3>1, <3>2 DEF StaffInductive, PasswordsPending
  <2> QED BY <2>1, <2>3, <2>5, <2>6, <2>7, Assembled
<1>4. ASSUME NEW rest \in SUBSET CallRecords, NEW k \in Realms, realm' = k,
             Stops(a, "failed", rest),
             \A b \in Administrators : RunHolds(admin[b], k),
             \A u \in Users : k.user[u].exists /\ ~k.user[u].password =>
               \/ Pending(rest, u)
               \/ /\ realm.user[u].exists /\ ~realm.user[u].password
                  /\ Pending(s.todo, u) => Pending(rest, u)
      PROVE  StaffInductive'
  <2>1. /\ admin' \in [Administrators -> ScriptRuns]
        /\ admin'[a].at = "idle" /\ admin'[a].todo = {} /\ admin'[a].result = "failed"
        /\ \A b \in Administrators \ {a} : admin'[b] = admin[b]
        /\ abandoned \subseteq abandoned' /\ abandoned' \subseteq Users
        /\ \A u \in Users : Pending(rest, u) => u \in abandoned'
    BY <1>0, <1>4, StopsRecord
  <2>2. StaffTypeOK'
    BY <1>4, <2>1 DEF StaffTypeOK
  <2>3. ASSUME NEW b \in Administrators
        PROVE  RunHolds(admin'[b], k)
    <3>1. CASE b = a
      BY <2>1, <3>1 DEF RunHolds, CreatesFirst
    <3>2. CASE b # a
      BY <1>4, <2>1, <3>2
    <3> QED BY <3>1, <3>2
  <2>4. ASSUME NEW u \in Users, k.user[u].exists, ~k.user[u].password
        PROVE  u \in abandoned' \/ \E b \in Administrators : Pending(admin'[b].todo, u)
    BY <1>4, <2>1, <2>4 DEF StaffInductive, PasswordsPending
  <2> QED BY <1>4, <2>2, <2>3, <2>4, Assembled
<1>5. CASE \E k \in Effect(c, realm) : realm' = k /\ Stops(a, "failed", s.todo \ {c})
  <2>1. PICK k \in Effect(c, realm) : realm' = k
    BY <1>5
  <2>2. k \in Realms
    BY <1>0, <1>2, EffectTyped
  <2>3. \A b \in Administrators : RunHolds(admin[b], k)
    BY <1>0, <1>2, OthersKeepRuns DEF StaffTypeOK, StaffInductive
  <2>4. \A u \in Users : k.user[u].exists /\ ~k.user[u].password =>
          \/ Pending(s.todo \ {c}, u)
          \/ /\ realm.user[u].exists /\ ~realm.user[u].password
             /\ Pending(s.todo, u) => Pending(s.todo \ {c}, u)
    BY <1>0, <1>2, CallKeepsPending
  <2>5. s.todo \ {c} \in SUBSET CallRecords
    BY <1>0
  <2> QED BY <1>4, <1>5, <2>1, <2>2, <2>3, <2>4, <2>5
<1>6. CASE UNCHANGED realm /\ Stops(a, "failed", s.todo)
  <2>1. PICK k : k = realm
    OBVIOUS
  <2>2. k \in Realms /\ realm' = k /\ \A b \in Administrators : RunHolds(admin[b], k)
    BY <1>0, <1>6, <2>1 DEF StaffInductive
  <2> QED BY <1>0, <1>4, <1>6, <2>1, <2>2
<1> QED BY <1>1, <1>3, <1>5, <1>6

\* What is edited by hand undoes no call, and ends what a plan promised of roles.
LEMMA EditStep ==
  ASSUME StaffInductive, EditByHand
  PROVE  StaffInductive'
<1>0. /\ StaffTypeOK /\ abandoned' = abandoned
      /\ admin' = [a \in Administrators |-> [admin[a] EXCEPT !.quiet = FALSE]]
  BY DEF EditByHand, StaffInductive
<1>1. /\ realm' \in Realms
      /\ realm.profile \subseteq realm'.profile /\ realm'.mapper = realm.mapper
      /\ \A u \in Users :
           /\ realm'.user[u].exists <=> realm.user[u].exists
           /\ realm'.user[u].password <=> realm.user[u].password
           /\ realm'.user[u].attributes = realm.user[u].attributes
           /\ realm.user[u].roles \subseteq realm'.user[u].roles
  <2> DEFINE Kinds == [exists : BOOLEAN, roles : SUBSET Words,
                       attributes : SUBSET Words, password : BOOLEAN]
  <2>1. CASE \E v \in Users, r \in BusinessRoles :
               realm' = [realm EXCEPT !.user[v].roles = @ \cup {r}]
    <3>1. PICK v \in Users, r \in BusinessRoles :
            realm' = [realm EXCEPT !.user[v].roles = @ \cup {r}]
      BY <2>1
    <3> DEFINE old == realm.user[v]
               given == [old EXCEPT !.roles = @ \cup {r}]
    <3>2. realm \in Realms /\ r \in Words /\ old \in Kinds
      BY <1>0 DEF StaffTypeOK, Words, Realms
    <3>3. /\ given \in Kinds /\ given.attributes = old.attributes
          /\ (given.exists <=> old.exists) /\ (given.password <=> old.password)
          /\ old.roles \subseteq given.roles
      BY <3>2
    <3>4. realm' = [realm EXCEPT !.user[v] = given]
      BY <3>1
    <3> HIDE DEF given
    <3> QED BY <3>2, <3>3, <3>4 DEF Realms
  <2>2. CASE realm' = [realm EXCEPT !.profile = @ \cup {"telephone"}]
    <3>1. "telephone" \in Words /\ realm \in Realms
      BY <1>0 DEF Words, StaffTypeOK
    <3> QED BY <2>2, <3>1 DEF Realms
  <2> QED BY <2>1, <2>2 DEF EditByHand
<1>2. ASSUME NEW a \in Administrators
      PROVE  /\ admin'[a] \in ScriptRuns /\ ~admin'[a].quiet
             /\ admin'[a].at = admin[a].at /\ admin'[a].todo = admin[a].todo
             /\ admin'[a].result = admin[a].result /\ admin'[a].profile = admin[a].profile
             /\ admin'[a].mapper = admin[a].mapper /\ admin'[a].user = admin[a].user
  <2>1. admin'[a] = [admin[a] EXCEPT !.quiet = FALSE] /\ admin[a] \in ScriptRuns
    BY <1>0 DEF StaffTypeOK
  <2> QED BY <2>1 DEF ScriptRuns
<1>3. StaffTypeOK'
  BY <1>0, <1>1, <1>2 DEF StaffTypeOK
<1>4. PICK k : k = realm'
  OBVIOUS
<1>5. ASSUME NEW a \in Administrators
      PROVE  RunHolds(admin'[a], k)
  <2>1. RunHolds(admin[a], realm)
    BY DEF StaffInductive
  <2>2. ReadHolds(admin[a], realm) => ReadHolds(admin'[a], k)
    BY <1>1, <1>2, <1>4 DEF ReadHolds
  <2>3. Goals(realm, admin[a].todo) => Goals(k, admin[a].todo)
    BY <1>1, <1>4 DEF Goals, ProfileGoal, MapperGoal, ExistsGoal, PlacedGoal, RoleGoal
  <2> QED BY <1>2, <2>1, <2>2, <2>3 DEF RunHolds
<1>6. ASSUME NEW u \in Users, k.user[u].exists, ~k.user[u].password
      PROVE  u \in abandoned' \/ \E a \in Administrators : Pending(admin'[a].todo, u)
  <2>1. realm.user[u].exists /\ ~realm.user[u].password
    BY <1>1, <1>4, <1>6
  <2> QED BY <1>0, <1>2, <2>1 DEF StaffInductive, PasswordsPending
<1> QED BY <1>3, <1>4, <1>5, <1>6, Assembled

\* Every step keeps the invariant.
LEMMA StaffKept == StaffInductive /\ [StaffNext]_provisioning => StaffInductive'
<1> SUFFICES ASSUME StaffInductive, [StaffNext]_provisioning
             PROVE  StaffInductive'
  OBVIOUS
<1>1. CASE StaffNext
  BY <1>1, ReadRealmStep, ReadUserStep, DecideStep, CallStep, AppliedStep, EditStep
     DEF StaffNext
<1>2. CASE UNCHANGED provisioning
  <2>1. realm' = realm /\ admin' = admin /\ abandoned' = abandoned
    BY <1>2 DEF provisioning
  <2>2. StaffTypeOK'
    BY <2>1 DEF StaffInductive, StaffTypeOK
  <2>3. PICK k : k = realm
    OBVIOUS
  <2>4. \A a \in Administrators : RunHolds(admin'[a], k)
    BY <2>1, <2>3 DEF StaffInductive
  <2>5. \A u \in Users : k.user[u].exists /\ ~k.user[u].password =>
          u \in abandoned' \/ \E a \in Administrators : Pending(admin'[a].todo, u)
    BY <2>1, <2>3 DEF StaffInductive, PasswordsPending
  <2> QED BY <2>1, <2>2, <2>3, <2>4, <2>5, Assembled
<1> QED BY <1>1, <1>2

\* With nothing left to call for, every goal is met.
LEMMA NothingLeft == StaffInductive => AppliedIsExact
<1> SUFFICES ASSUME StaffInductive, NEW a \in Administrators,
                    admin[a].result = "applied", admin[a].quiet
             PROVE  /\ "managed" \in realm.profile
                    /\ \A m \in Range(Mappers) : realm.mapper[m] = "right"
                    /\ \A u \in Users :
                         /\ realm.user[u].exists
                         /\ "placed" \in realm.user[u].attributes
                         /\ Business(realm.user[u].roles) = {RoleOf[u]}
  BY DEF AppliedIsExact
<1>1. admin[a].todo = {} /\ Goals(realm, {}) /\ StaleGoal(realm, {})
  BY DEF StaffInductive, RunHolds
<1>2. ASSUME NEW u \in Users
      PROVE  Business(realm.user[u].roles) = {RoleOf[u]}
  <2>1. RoleOf[u] \in BusinessRoles
    BY StaffAssumption DEF Users
  <2>2. RoleOf[u] \in realm.user[u].roles
    BY <1>1 DEF Goals, RoleGoal
  <2>3. Business(realm.user[u].roles) \ {RoleOf[u]} = {}
    BY <1>1 DEF StaleGoal
  <2> QED BY <2>1, <2>2, <2>3 DEF Business
<1>3. "managed" \in realm.profile /\ \A m \in Range(Mappers) : realm.mapper[m] = "right"
  BY <1>1 DEF Goals, ProfileGoal, MapperGoal
<1>4. \A u \in Users : realm.user[u].exists /\ "placed" \in realm.user[u].attributes
  BY <1>1 DEF Goals, ExistsGoal, PlacedGoal
<1> QED BY <1>2, <1>3, <1>4

\* A password that is pending is a call of a run.
LEMMA PendingIsCalled == StaffInductive => PasswordsFollow
  BY DEF StaffInductive, PasswordsPending, PasswordsFollow, Pending
-----------------------------------------------------------------------------
(* The theorems about Operations.                                          *)

\* A step of an operator is a step of one of the three parts.
LEMMA StepsApart ==
  [OperationsNext]_operations => [RolloutNext]_rollout /\ [StaffNext]_provisioning
  BY DEF OperationsNext, operations

\* A script that ran to its PASS leaves its phase installed with its grants,
\* whatever scripts died before it or ran beside it, from any revision.
THEOREM PassInstalls == OperationsSpec => []PassedIsInstalled
<1>1. OperationsInit => RolloutInductive
  BY RolloutStarts DEF OperationsInit
<1>2. RolloutInductive /\ [OperationsNext]_operations => RolloutInductive'
  BY RolloutKept, StepsApart
<1> QED BY <1>1, <1>2, PassedDid, PTL DEF OperationsSpec

\* From every revision a dying script can leave, some script goes on.
THEOREM NoneStranded == OperationsSpec => []NoDeadEnd
<1>1. OperationsInit => RolloutInductive
  BY RolloutStarts DEF OperationsInit
<1>2. RolloutInductive /\ [OperationsNext]_operations => RolloutInductive'
  BY RolloutKept, StepsApart
<1> QED BY <1>1, <1>2, EachGoesOn, PTL DEF OperationsSpec

\* What the staff script reports as applied is so, for any staff and any number
\* of administrators who apply plans the others have made stale.
THEOREM AppliedHolds == OperationsSpec => []AppliedIsExact
<1>1. OperationsInit => StaffInductive
  BY StaffStarts DEF OperationsInit
<1>2. StaffInductive /\ [OperationsNext]_operations => StaffInductive'
  BY StaffKept, StepsApart
<1> QED BY <1>1, <1>2, NothingLeft, PTL DEF OperationsSpec

\* A user is without a password only while the run that made it is under way,
\* or after it stopped.
THEOREM PasswordsCome == OperationsSpec => []PasswordsFollow
<1>1. OperationsInit => StaffInductive
  BY StaffStarts DEF OperationsInit
<1>2. StaffInductive /\ [OperationsNext]_operations => StaffInductive'
  BY StaffKept, StepsApart
<1> QED BY <1>1, <1>2, PendingIsCalled, PTL DEF OperationsSpec
-----------------------------------------------------------------------------
(* The workspace.  The invariant is Inductive.                             *)

Anybody == Accounts \cup Identities \cup {None}

PageFields ==
  {"path", "me", "signedIn", "demo", "checked", "busy", "restored", "asking", "chat", "seen",
   "turns", "timeline"}

\* The sessions are the logins that are neither over nor expired.
SessionsKnown ==
  /\ now \in Nat
  /\ logins \in Seq([of : Anybody, since : Nat, over : BOOLEAN])
  /\ \A t \in DOMAIN sessions :
       /\ t \in DOMAIN logins /\ ~logins[t].over
       /\ sessions[t].of = logins[t].of /\ sessions[t].until = logins[t].since + Lifetime
  /\ \A t \in DOMAIN logins :
       ~logins[t].over /\ logins[t].since + Lifetime > now => t \in DOMAIN sessions

Portals == [portal : {"staff", "tenant"}, over : BOOLEAN]
CallbackRecords ==
  [trip : Nat, of : Accounts, last : BOOLEAN, stage : {"sent", "admitted", "over"},
   until : Nat \cup {None}]

\* What is known of a callback as long as its trip t is.
Honest(c, t) ==
  /\ c.last
  /\ c.stage = "admitted" => MatchesPortal(c.of, t.portal)

\* The browser remembers the last trip or none, and no trip that is over; the
\* callbacks came from what was the last trip.
TripKnown ==
  /\ trips \in Seq(Portals) /\ callbacks \in Seq(CallbackRecords)
  /\ DOMAIN jar = {"local", "keycloak", "trip", "demo"}
  /\ jar.trip \in {None, Len(trips)}
  /\ jar.trip \in DOMAIN trips => ~trips[jar.trip].over
  /\ \A n \in DOMAIN callbacks :
       callbacks[n].trip \in DOMAIN trips /\ Honest(callbacks[n], trips[callbacks[n].trip])

\* Functions have the numbers given out so far.
TasksKnown ==
  /\ started \in Nat
  /\ DOMAIN tasks \subseteq 1..started
  /\ \A n \in DOMAIN tasks :
       /\ DOMAIN tasks[n] = {"kind", "arg", "chat", "case", "todo", "reply"}
       /\ tasks[n].arg \in Anybody
  /\ DOMAIN page = PageFields

Inductive == SessionsKnown /\ TripKnown /\ TasksKnown /\ OneQuestion
-----------------------------------------------------------------------------
(* The sessions.                                                           *)

\* A login is a record of the type of the history.
LEMMA LoginTyped ==
  ASSUME SessionsKnown, NEW t \in DOMAIN logins
  PROVE  logins[t] \in [of : Anybody, since : Nat, over : BOOLEAN] /\ logins[t].since \in Nat
<1> DEFINE L == [of : Anybody, since : Nat, over : BOOLEAN]
<1>1. logins \in Seq(L)
  BY DEF SessionsKnown
<1>2. \A l \in L : l.since \in Nat
  OBVIOUS
<1> HIDE DEF L
<1>3. logins[t] \in L
  BY <1>1
<1>4. logins[t].since \in Nat
  BY <1>2, <1>3
<1> QED BY <1>3, <1>4 DEF L

\* Purging what has expired.
LEMMA LiveKept ==
  ASSUME SessionsKnown, sessions' = Live(sessions), UNCHANGED <<logins, now>>
  PROVE  SessionsKnown'
BY SignInAssumption DEF SessionsKnown, Live, Restrict

\* A login adds one session and purges others.
LEMMA LoginKept ==
  ASSUME SessionsKnown, NEW a \in Anybody, sessions' = LoggedIn(a), logins' = RecordLogin(a),
         now' = now
  PROVE  SessionsKnown'
<1> DEFINE l == [of |-> a, since |-> now, over |-> FALSE]
           L == [of : Anybody, since : Nat, over : BOOLEAN]
<1>1. l \in L /\ l.of = a /\ l.since = now /\ ~l.over
  BY DEF SessionsKnown
<1>2. logins \in Seq(L) /\ logins' = Append(logins, l)
  BY DEF SessionsKnown, RecordLogin
<1> HIDE DEF l, L
<1>3. /\ logins' \in Seq(L)
      /\ DOMAIN logins' = DOMAIN logins \cup {NewToken} /\ NewToken \notin DOMAIN logins
      /\ \A t \in DOMAIN logins : logins'[t] = logins[t]
      /\ logins'[NewToken] = l
  BY <1>1, <1>2 DEF NewToken
<1>4. \A t \in DOMAIN sessions' :
        /\ t \in DOMAIN logins' /\ ~logins'[t].over
        /\ sessions'[t].of = logins'[t].of /\ sessions'[t].until = logins'[t].since + Lifetime
  BY <1>1, <1>3 DEF SessionsKnown, LoggedIn, Live, Restrict
<1>5. \A t \in DOMAIN logins' :
        ~logins'[t].over /\ logins'[t].since + Lifetime > now => t \in DOMAIN sessions'
  <2> SUFFICES ASSUME NEW t \in DOMAIN logins, ~logins[t].over, logins[t].since + Lifetime > now
               PROVE  t \in DOMAIN Live(sessions)
    BY <1>3 DEF LoggedIn
  <2> QED BY DEF SessionsKnown, Live, Restrict
<1> QED BY <1>3, <1>4, <1>5 DEF SessionsKnown, L

\* Signing out ends the session of one token, if it has one.
LEMMA LogoutKept ==
  ASSUME SessionsKnown, NEW token, sessions' = Revoked(token), logins' = RecordEnd(token),
         now' = now
  PROVE  SessionsKnown'
<1> DEFINE L == [of : Anybody, since : Nat, over : BOOLEAN]
<1>1. logins \in Seq(L)
  BY DEF SessionsKnown
<1> HIDE DEF L
<1>2. CASE token \notin DOMAIN logins
  BY <1>2 DEF SessionsKnown, Revoked, RecordEnd, Restrict
<1>3. CASE token \in DOMAIN logins
  <2> DEFINE l == [logins[token] EXCEPT !.over = TRUE]
  <2>1. logins[token] \in L
    BY <1>1, <1>3
  <2>2. l \in L /\ l.over /\ logins[token] \in L
    BY <2>1 DEF L
  <2>3. logins' = [logins EXCEPT ![token] = l]
    BY <1>3 DEF RecordEnd
  <2> HIDE DEF l
  <2>4. /\ logins' \in Seq(L) /\ DOMAIN logins' = DOMAIN logins
        /\ logins'[token] = l
        /\ \A t \in DOMAIN logins : t # token => logins'[t] = logins[t]
    BY <1>1, <1>3, <2>2, <2>3
  <2>5. DOMAIN sessions' = DOMAIN sessions \ {token}
        /\ \A t \in DOMAIN sessions' : sessions'[t] = sessions[t]
    BY DEF Revoked, Restrict
  <2> QED BY <2>2, <2>4, <2>5 DEF SessionsKnown, L
<1> QED BY <1>2, <1>3

\* A request of the page at the server.
LEMMA ServesKept ==
  ASSUME SessionsKnown, NEW n, NEW request, NEW arg \in Anybody, Serves(n, request, arg)
  PROVE  SessionsKnown' /\ UNCHANGED keycloakVars
<1>1. CASE request = "localLogin"
  BY <1>1, LoginKept DEF Serves
<1>2. CASE request = "endLocal"
  BY <1>2, LogoutKept DEF Serves
<1>3. CASE request \notin {"localLogin", "endLocal"}
  BY <1>3, LiveKept DEF Serves
<1> QED BY <1>1, <1>2, <1>3 DEF Serves
-----------------------------------------------------------------------------
(* Keycloak.                                                               *)

\* Whatever leaves the trips, the callbacks and the cookie of the last trip
\* alone, or takes that cookie away.
LEMMA TripStays ==
  ASSUME TripKnown, UNCHANGED keycloakVars, DOMAIN jar' = DOMAIN jar,
         jar'.trip \in {jar.trip, None}
  PROVE  TripKnown'
<1>1. trips' = trips /\ callbacks' = callbacks
  BY DEF keycloakVars
<1>2. None \notin DOMAIN trips
  BY SignInAssumption DEF TripKnown
<1> QED BY <1>1, <1>2 DEF TripKnown, Honest, MatchesPortal

\* A trip begins: the cookie is that of the new one.
LEMMA LeaveKept ==
  ASSUME TripKnown, NEW portal \in {"staff", "tenant"}, LeaveForKeycloak(portal)
  PROVE  TripKnown'
<1> DEFINE t == [portal |-> portal, over |-> FALSE]
<1>1. t \in Portals /\ ~t.over
  BY DEF Portals
<1>2. trips' = Append(trips, t) /\ callbacks' = callbacks
      /\ jar' = [jar EXCEPT !.trip = Len(trips) + 1]
  BY DEF LeaveForKeycloak
<1> HIDE DEF t
<1>3. /\ trips' \in Seq(Portals) /\ Len(trips') = Len(trips) + 1
      /\ DOMAIN trips \subseteq DOMAIN trips'
      /\ \A i \in DOMAIN trips : trips'[i] = trips[i]
      /\ trips'[Len(trips) + 1] = t
  BY <1>1, <1>2 DEF TripKnown
<1>4. DOMAIN jar' = DOMAIN jar /\ jar'.trip = Len(trips) + 1
  BY <1>2 DEF TripKnown
<1> QED BY <1>1, <1>2, <1>3, <1>4 DEF TripKnown, Honest, MatchesPortal

\* A callback is sent: its trip is the one the cookie stands for.
LEMMA ReturnKept ==
  ASSUME TripKnown, NEW t \in DOMAIN trips, NEW a \in Accounts, ReturnFromKeycloak(t, a)
  PROVE  TripKnown'
<1> DEFINE c == [trip |-> t, of |-> a, last |-> LastAndOpen(t), stage |-> "sent", until |-> None]
<1>1. t \in Nat /\ t = jar.trip /\ t # None
  BY SignInAssumption DEF TripKnown, ReturnFromKeycloak, ValidState
<1>2. LastAndOpen(t) = TRUE
  BY <1>1 DEF TripKnown, LastAndOpen
<1>3. c \in CallbackRecords /\ c.trip = t /\ c.last /\ c.stage = "sent"
  BY <1>1, <1>2 DEF CallbackRecords
<1>4. callbacks' = Append(callbacks, c) /\ trips' = trips /\ jar' = jar
  BY DEF ReturnFromKeycloak
<1> HIDE DEF c
<1>5. /\ callbacks' \in Seq(CallbackRecords)
      /\ \A n \in DOMAIN callbacks' :
           \/ n \in DOMAIN callbacks /\ callbacks'[n] = callbacks[n]
           \/ callbacks'[n] = c
  BY <1>3, <1>4 DEF TripKnown
<1> QED BY <1>3, <1>4, <1>5 DEF TripKnown, Honest, MatchesPortal

\* A callback goes on: admitted by the role of its account, answered, failed.
LEMMA CallbackKept ==
  ASSUME TripKnown, now \in Nat, NEW n \in DOMAIN callbacks,
         ExchangeCode(n) \/ CallbackAnswered(n) \/ CallbackFails(n)
  PROVE  TripKnown'
<1> DEFINE c == callbacks[n]
           fails == [c EXCEPT !.stage = "over"]
           goes == [c EXCEPT !.stage = "admitted", !.until = now + Lifetime]
<1>1. c \in CallbackRecords /\ c.trip \in DOMAIN trips /\ Honest(c, trips[c.trip])
  BY DEF TripKnown
<1>2. /\ fails \in CallbackRecords /\ fails.trip = c.trip /\ fails.last = c.last
      /\ fails.of = c.of /\ fails.stage = "over"
  BY <1>1 DEF CallbackRecords
<1>3. /\ goes \in CallbackRecords /\ goes.trip = c.trip /\ goes.last = c.last
      /\ goes.of = c.of /\ goes.stage = "admitted"
  <2>1. now + Lifetime \in Nat
    BY SignInAssumption
  <2>2. [c EXCEPT !.stage = "admitted"] \in CallbackRecords
    BY <1>1 DEF CallbackRecords
  <2> QED BY <1>1, <2>1, <2>2 DEF CallbackRecords
<1>4. PICK d \in CallbackRecords :
        /\ callbacks' = [callbacks EXCEPT ![n] = d]
        /\ d.trip = c.trip /\ d.last
        /\ d.stage = "admitted" => MatchesPortal(d.of, trips[c.trip].portal)
  <2>1. CASE ExchangeCode(n)
    <3>1. callbacks' = [callbacks EXCEPT ![n] = goes]
            /\ MatchesPortal(c.of, trips[c.trip].portal)
      BY <2>1 DEF ExchangeCode, TripKnown
    <3> QED BY <1>1, <1>3, <3>1 DEF Honest
  <2>2. CASE CallbackAnswered(n) \/ CallbackFails(n)
    <3>1. callbacks' = [callbacks EXCEPT ![n] = fails]
      BY <2>2 DEF CallbackAnswered, CallbackFails, TripKnown
    <3> QED BY <1>1, <1>2, <3>1 DEF Honest
  <2> QED BY <2>1, <2>2
<1>5. /\ callbacks' \in Seq(CallbackRecords) /\ DOMAIN callbacks' = DOMAIN callbacks
      /\ callbacks'[n] = d
      /\ \A i \in DOMAIN callbacks : i # n => callbacks'[i] = callbacks[i]
  BY <1>4 DEF TripKnown
<1> HIDE DEF fails, goes
<1>6. CASE ExchangeCode(n) \/ CallbackFails(n)
  <2>1. trips' = trips /\ jar' = jar
    BY <1>6 DEF ExchangeCode, CallbackFails
  <2> QED BY <1>1, <1>4, <1>5, <2>1 DEF TripKnown, Honest, MatchesPortal
<1>7. CASE CallbackAnswered(n)
  <2> DEFINE t == [trips[c.trip] EXCEPT !.over = TRUE]
  <2>1. trips[c.trip] \in Portals
    BY <1>1 DEF TripKnown
  <2>2. t \in Portals /\ t.portal = trips[c.trip].portal
    BY <2>1 DEF Portals
  <2>3. trips' = [trips EXCEPT ![c.trip] = t]
    BY <1>7 DEF CallbackAnswered
  <2> HIDE DEF t
  <2>4. /\ trips' \in Seq(Portals) /\ DOMAIN trips' = DOMAIN trips /\ Len(trips') = Len(trips)
        /\ \A i \in DOMAIN trips : trips'[i].portal = trips[i].portal
    BY <1>1, <2>2, <2>3 DEF TripKnown
  <2>5. DOMAIN jar' = DOMAIN jar /\ jar'.trip = None
    BY <1>7 DEF CallbackAnswered, TripKnown
  <2>6. None \notin DOMAIN trips
    BY SignInAssumption DEF TripKnown
  <2> HIDE DEF c
  <2>7. \A i \in DOMAIN callbacks' :
          callbacks'[i].trip \in DOMAIN trips' /\ Honest(callbacks'[i], trips'[callbacks'[i].trip])
    BY <1>1, <1>4, <1>5, <2>4 DEF TripKnown, Honest, c
  <2>8. \A i \in DOMAIN callbacks' :
          Honest(callbacks[i], trips[callbacks[i].trip])' <=>
            Honest(callbacks'[i], trips'[callbacks'[i].trip])
    BY DEF Honest, MatchesPortal
  <2> QED BY <1>5, <2>4, <2>5, <2>6, <2>7, <2>8 DEF TripKnown
<1> QED BY <1>6, <1>7
-----------------------------------------------------------------------------
(* The page and its functions.                                             *)

\* A page with the fields of AppRuntime on which question a runs.
Asks(p, a) == DOMAIN p = PageFields /\ p.asking = a

\* One function more, or in the place of the others when the page is loaded.
LEMMA StartsKept ==
  ASSUME Inductive, NEW p, NEW kind, NEW arg \in Anybody, NEW chat, NEW case, NEW others,
         Starts(p, kind, arg, chat, case, others),
         \/ others = DOMAIN tasks /\ Asks(p, page.asking)
         \/ others = {} /\ Asks(p, None),
         kind = "ask" => page.asking = None
  PROVE  Inductive'
<1> DEFINE n == started + 1
           todo == Program(kind, p.demo \/ arg \in Identities, chat, case)
           new == [kind |-> kind, arg |-> arg, chat |-> chat, case |-> case, todo |-> todo,
                   reply |-> Reply(Head(todo), arg, jar)]
<1>1. /\ started' = n /\ Serves(n, Head(todo), arg) /\ jar' = jar
      /\ page' = [p EXCEPT !.asking = IF kind = "ask" THEN n ELSE @]
      /\ tasks' = [i \in others \cup {n} |-> IF i = n THEN new ELSE tasks[i]]
  BY Zenon DEF Starts
<1>2. DOMAIN new = {"kind", "arg", "chat", "case", "todo", "reply"}
      /\ new.kind = kind /\ new.arg = arg
  OBVIOUS
<1>3. n \in Nat /\ n # None /\ n \notin DOMAIN tasks /\ others \subseteq DOMAIN tasks
  BY SignInAssumption DEF Inductive, TasksKnown
<1>4. SessionsKnown' /\ TripKnown'
  BY <1>1, ServesKept, TripStays DEF Inductive
<1> HIDE DEF new, n, todo
<1>5. DOMAIN tasks' = others \cup {n} /\ tasks'[n] = new
      /\ \A i \in others : tasks'[i] = tasks[i]
  BY <1>1, <1>3
<1>6. DOMAIN page' = PageFields /\ page'.asking = IF kind = "ask" THEN n ELSE p.asking
  BY <1>1 DEF Asks, PageFields
<1>7. TasksKnown'
  <2>1. started' \in Nat /\ DOMAIN tasks' \subseteq 1..started'
    BY <1>1, <1>3, <1>5 DEF Inductive, TasksKnown, n
  <2>2. \A i \in DOMAIN tasks' :
          /\ DOMAIN tasks'[i] = {"kind", "arg", "chat", "case", "todo", "reply"}
          /\ tasks'[i].arg \in Anybody
    BY <1>2, <1>3, <1>5 DEF Inductive, TasksKnown
  <2> QED BY <1>6, <2>1, <2>2 DEF TasksKnown
<1>8. OneQuestion'
  <2>1. CASE others = {}
    BY <1>2, <1>3, <1>5, <1>6, <2>1 DEF OneQuestion, Asks, Inductive
  <2>2. CASE others = DOMAIN tasks /\ kind = "ask"
    BY <1>2, <1>3, <1>5, <1>6, <2>2 DEF OneQuestion, Inductive
  <2>3. CASE others = DOMAIN tasks /\ Asks(p, page.asking) /\ kind # "ask"
    BY <1>2, <1>3, <1>5, <1>6, <2>3 DEF OneQuestion, Asks, Inductive
  <2> QED BY <2>1, <2>2, <2>3
<1> QED BY <1>4, <1>7, <1>8 DEF Inductive
-----------------------------------------------------------------------------
(* Replies.                                                                *)

\* What the page does with a reply, or instead of it, asks nothing.
LEMMA ArrivesKept ==
  ASSUME NEW p, NEW a, NEW n, NEW t, Asks(p, a)
  PROVE  Asks(Arrives(p, n, t), a) /\ Asks(Missed(p, n, t), a)
<1>1. Asks(ShowsChat(p, t), a) /\ Asks([ShowsChat(p, t) EXCEPT !.path = t.chat], a)
  BY DEF Asks, PageFields, ShowsChat
<1> HIDE DEF ShowsChat
<1>2. Asks(Arrives(p, n, t), a)
  BY <1>1 DEF Asks, PageFields, Arrives
<1>3. Asks(Missed(p, n, t), a)
  BY DEF Asks, PageFields, Missed
<1> QED BY <1>2, <1>3

\* The end of a function: only that of a question changes who asks.
LEMMA FinallyKept ==
  ASSUME NEW p, NEW a, NEW t, NEW ok, Asks(p, a)
  PROVE  Asks(Finally(p, t, ok), IF t.kind = "ask" THEN None ELSE a)
<1>1. Asks(Cleared(p), a)
  BY DEF Asks, PageFields, Cleared, Loading
<1>2. Asks(Answered(p), None)
  BY DEF Asks, PageFields, Answered
<1>3. CASE t.kind = "ask"
  BY <1>2, <1>3 DEF Finally
<1>4. CASE t.kind = "signOut"
  BY <1>1, <1>4 DEF Finally
<1>5. CASE t.kind \notin {"ask", "signOut"}
  BY <1>5 DEF Finally, Asks, PageFields
<1> QED BY <1>3, <1>4, <1>5

\* A function goes on to its next request, or ends.
LEMMA GoesOnKept ==
  ASSUME Inductive, NEW n \in DOMAIN tasks, NEW p, NEW ok, NEW rest,
         GoesOn(n, p, ok, rest), Asks(p, page.asking), started' = started,
         DOMAIN jar' = DOMAIN jar, jar'.trip = jar.trip
  PROVE  Inductive'
<1> DEFINE t   == tasks[n]
           arg == IF t.kind = "restore" /\ "me" \in Range(rest) THEN None ELSE t.arg
<1>1. CASE rest = <<>>
  <2>1. /\ page' = Finally(p, t, ok \/ t.reply.request = "chats")
        /\ tasks' = Restrict(tasks, DOMAIN tasks \ {n})
        /\ UNCHANGED <<sessions, logins, open, now, keycloakVars, stored>>
    BY <1>1 DEF GoesOn
  <2>2. Asks(page', IF t.kind = "ask" THEN None ELSE page.asking)
    BY <2>1, FinallyKept
  <2>3. DOMAIN tasks' = DOMAIN tasks \ {n} /\ \A i \in DOMAIN tasks' : tasks'[i] = tasks[i]
    BY <2>1 DEF Restrict
  <2>4. SessionsKnown' /\ TripKnown'
    BY <2>1, TripStays DEF Inductive, SessionsKnown
  <2>5. TasksKnown'
    BY <2>2, <2>3 DEF Inductive, TasksKnown, Asks
  <2>6. OneQuestion'
    BY <2>2, <2>3, SignInAssumption DEF Inductive, TasksKnown, OneQuestion, Asks
  <2> QED BY <2>4, <2>5, <2>6 DEF Inductive
<1>2. CASE rest # <<>>
  <2> DEFINE reply == Reply(Head(rest), arg, jar')
  <2>1. /\ page' = p /\ Serves(n, Head(rest), arg)
        /\ tasks' = [tasks EXCEPT ![n].todo = rest, ![n].arg = arg, ![n].reply = reply]
    BY <1>2, Zenon DEF GoesOn
  <2>2. arg \in Anybody
    BY DEF Inductive, TasksKnown, Anybody
  <2>3. SessionsKnown' /\ TripKnown'
    BY <2>1, <2>2, ServesKept, TripStays DEF Inductive
  <2> HIDE DEF reply, arg
  <2>4. /\ DOMAIN tasks' = DOMAIN tasks
        /\ \A i \in DOMAIN tasks : i # n => tasks'[i] = tasks[i]
        /\ DOMAIN tasks'[n] = DOMAIN tasks[n] /\ tasks'[n].kind = tasks[n].kind
        /\ tasks'[n].arg = arg
    BY <2>1 DEF Inductive, TasksKnown
  <2>5. TasksKnown'
    BY <2>1, <2>2, <2>4 DEF Inductive, TasksKnown, Asks
  <2>6. OneQuestion'
    BY <2>1, <2>4 DEF Inductive, OneQuestion, Asks
  <2> QED BY <2>3, <2>5, <2>6 DEF Inductive
<1> QED BY <1>1, <1>2

\* A reply, or its failure.
LEMMA RepliesKept == Inductive /\ Replies => Inductive'
<1> SUFFICES ASSUME Inductive, NEW n \in DOMAIN tasks, Deliver(n) \/ Fail(n)
             PROVE  Inductive'
  BY DEF Replies
<1> DEFINE t == tasks[n]
<1>1. Asks(page, page.asking)
  BY DEF Inductive, TasksKnown, Asks
<1>2. CASE Deliver(n)
  <2>1. PICK rest \in AfterSuccess(t) : GoesOn(n, Arrives(page, n, t), TRUE, rest)
    BY <1>2 DEF Deliver
  <2>2. jar' = Kept(t.reply) /\ started' = started
    BY <1>2 DEF Deliver
  <2>3. DOMAIN jar' = DOMAIN jar /\ jar'.trip = jar.trip
    BY <2>2 DEF Kept, Inductive, TripKnown
  <2> QED BY <1>1, <2>1, <2>2, <2>3, ArrivesKept, GoesOnKept
<1>3. CASE Fail(n)
  BY <1>1, <1>3, ArrivesKept, GoesOnKept DEF Fail
<1> QED BY <1>2, <1>3
-----------------------------------------------------------------------------
(* The actions.                                                            *)

\* A function the user or the page starts beside the others.
LEMMA BeginsKept ==
  ASSUME Inductive, NEW p, NEW kind, NEW arg \in Anybody, NEW chat, NEW case,
         Begins(p, kind, arg, chat, case), Asks(p, page.asking),
         kind = "ask" => page.asking = None
  PROVE  Inductive'
BY StartsKept DEF Begins

\* The buttons, links and effects of the page.
LEMMA PageActionsKept ==
  ASSUME Inductive, SignsIn \/ ReturnHome \/ Chatting \/ OnCases \/ Reload
  PROVE  Inductive'
<1> DEFINE cleared == [page EXCEPT !.turns = {}]
           home    == [Busy(page) EXCEPT !.path = "app"]
           fresh   == [Busy(page) EXCEPT !.turns = {}]
           loaded  == [Loading EXCEPT !.path = page.path]
<1>1. /\ Asks(page, page.asking) /\ Asks(Busy(page), page.asking)
      /\ Asks(cleared, page.asking) /\ Asks(home, page.asking) /\ Asks(fresh, page.asking)
  BY DEF Inductive, TasksKnown, Asks, PageFields, Busy
<1>2. Asks(loaded, None)
  BY DEF Asks, PageFields, Loading
<1>3. None \in Anybody /\ Accounts \subseteq Anybody /\ Identities \subseteq Anybody
  BY DEF Anybody
<1> HIDE DEF cleared, home, fresh, loaded
<1>4. CASE SignsIn
  <2>1. ASSUME NEW a \in Accounts, StartLocalLogin(a) PROVE Inductive'
    BY <1>1, <1>3, <2>1, BeginsKept DEF StartLocalLogin
  <2>2. ASSUME NEW i \in Identities, StartDemo(i) PROVE Inductive'
    BY <1>1, <1>3, <2>2, BeginsKept DEF StartDemo, home
  <2> QED BY <1>4, <2>1, <2>2 DEF SignsIn
<1>5. CASE ReturnHome
  BY <1>1, <1>3, <1>5, BeginsKept DEF ReturnHome
<1>6. CASE Chatting
  <2>1. ASSUME NEW c \in Chats, SelectChat(c) PROVE Inductive'
    BY <1>1, <1>3, <2>1, BeginsKept DEF SelectChat, cleared
  <2>2. ASSUME NEW c \in Chats, CreateNewChat(c) PROVE Inductive'
    BY <1>1, <1>3, <2>2, BeginsKept DEF CreateNewChat, fresh
  <2>3. ASSUME NEW kind \in {"upload", "edit", "remove"}, ChangeChat(kind) PROVE Inductive'
    BY <1>1, <1>3, <2>3, BeginsKept DEF ChangeChat
  <2>4. ASSUME FollowPath PROVE Inductive'
    BY <1>1, <1>3, <2>4, BeginsKept DEF FollowPath, cleared
  <2>5. ASSUME SubmitQuestion PROVE Inductive'
    BY <1>1, <1>3, <2>5, BeginsKept DEF SubmitQuestion, MayAsk
  <2> QED BY <1>6, <2>1, <2>2, <2>3, <2>4, <2>5 DEF Chatting, UploadAttachment
<1>7. CASE OnCases
  <2>1. ASSUME WorkOnCase PROVE Inductive'
    BY <1>1, <1>3, <2>1, BeginsKept DEF WorkOnCase
  <2>2. ASSUME NEW k \in Cases, SelectCase(k) PROVE Inductive'
    BY <1>1, <1>3, <2>2, BeginsKept DEF SelectCase
  <2>3. ASSUME NEW k \in Cases, CreateCase(k) PROVE Inductive'
    BY <1>1, <1>3, <2>3, BeginsKept DEF CreateCase
  <2> QED BY <1>7, <2>1, <2>2, <2>3 DEF OnCases
<1>8. CASE Reload
  <2>1. PICK i \in IF Identities = {} THEN {None} ELSE Identities :
          Starts(loaded, "restore", i, None, None, {})
    BY <1>8 DEF Reload, loaded
  <2>2. i \in Anybody
    BY <1>3
  <2> QED BY <1>2, <2>1, <2>2, StartsKept
<1> QED BY <1>4, <1>5, <1>6, <1>7, <1>8

\* Other tabs, Keycloak, the clock and the process.
LEMMA SignInKept ==
  ASSUME Inductive, SignInNext, UNCHANGED pageVars
  PROVE  Inductive'
<1>1. TasksKnown' /\ OneQuestion'
  BY DEF Inductive, TasksKnown, OneQuestion, pageVars
<1>2. CASE \E a \in Accounts : LoginElsewhere(a)
  <2>1. PICK a \in Accounts : LoginElsewhere(a)
    BY <1>2
  <2>2. SessionsKnown'
    BY <2>1, LoginKept DEF Inductive, LoginElsewhere, Anybody
  <2>3. DOMAIN jar' = DOMAIN jar /\ jar'.trip = jar.trip
    BY <2>1 DEF Inductive, TripKnown, LoginElsewhere
  <2> QED BY <1>1, <2>1, <2>2, <2>3, TripStays DEF Inductive, LoginElsewhere
<1>3. CASE \/ \E a \in Accounts, t \in DOMAIN trips : ReturnFromKeycloak(t, a)
           \/ \E n \in DOMAIN callbacks :
                ExchangeCode(n) \/ CallbackAnswered(n) \/ CallbackFails(n)
  <2>1. SessionsKnown'
    BY <1>3 DEF Inductive, SessionsKnown, ReturnFromKeycloak, ExchangeCode, CallbackAnswered,
                CallbackFails
  <2>2. TripKnown'
    BY <1>3, ReturnKept, CallbackKept DEF Inductive, SessionsKnown
  <2> QED BY <1>1, <2>1, <2>2 DEF Inductive
<1>4. CASE LogoutElsewhere
  <2>1. SessionsKnown'
    BY <1>4, LogoutKept DEF Inductive, LogoutElsewhere
  <2>2. DOMAIN jar' = DOMAIN jar /\ jar'.trip = None
    BY <1>4 DEF Inductive, TripKnown, LogoutElsewhere, NoCookies
  <2> QED BY <1>1, <1>4, <2>1, <2>2, TripStays DEF Inductive, LogoutElsewhere
<1>5. CASE \E portal \in {"staff", "tenant"} : LeaveForKeycloak(portal)
  <2>1. SessionsKnown'
    BY <1>5 DEF Inductive, SessionsKnown, LeaveForKeycloak
  <2> QED BY <1>1, <1>5, <2>1, LeaveKept DEF Inductive
<1>6. CASE Tick
  <2>1. now' = now + 1 /\ UNCHANGED <<sessions, jar, logins, keycloakVars>>
    BY <1>6 DEF Tick
  <2>2. \A t \in DOMAIN logins : logins[t].since \in Nat
    BY LoginTyped DEF Inductive
  <2>3. SessionsKnown'
    BY <2>1, <2>2, SignInAssumption DEF Inductive, SessionsKnown
  <2> QED BY <1>1, <2>1, <2>3, TripStays DEF Inductive
<1>7. CASE Restart
  <2> DEFINE L == [of : Anybody, since : Nat, over : BOOLEAN]
  <2>1. logins \in Seq(L) /\ logins' = [i \in DOMAIN logins |-> [logins[i] EXCEPT !.over = TRUE]]
    BY <1>7 DEF Restart, Inductive, SessionsKnown
  <2>2. ASSUME NEW i \in DOMAIN logins
        PROVE  [logins[i] EXCEPT !.over = TRUE] \in L /\ [logins[i] EXCEPT !.over = TRUE].over
    BY LoginTyped DEF Inductive
  <2> HIDE DEF L
  <2>3. logins' \in Seq(L) /\ \A i \in DOMAIN logins' : logins'[i].over
    <3>1. DOMAIN logins = 1..Len(logins) /\ Len(logins) \in Nat
      BY <2>1
    <3>2. logins' \in [1..Len(logins) -> L] /\ \A i \in DOMAIN logins' : logins'[i].over
      BY <2>1, <2>2, <3>1
    <3> QED BY <3>1, <3>2, SeqDef
  <2>4. SessionsKnown'
    BY <1>7, <2>3 DEF Inductive, SessionsKnown, Restart, L
  <2> QED BY <1>1, <1>7, <2>4, TripStays DEF Inductive, Restart
<1>8. CASE CookieEnds
  <2>1. SessionsKnown'
    BY <1>8 DEF Inductive, SessionsKnown, CookieEnds
  <2>2. DOMAIN jar' = DOMAIN jar /\ jar'.trip \in {jar.trip, None}
    BY <1>8 DEF Inductive, TripKnown, CookieEnds
  <2> QED BY <1>1, <1>8, <2>1, <2>2, TripStays DEF Inductive, CookieEnds
<1> QED BY <1>2, <1>3, <1>4, <1>5, <1>6, <1>7, <1>8 DEF SignInNext

\* The tab is being loaded, or somebody is signed in.
LEMMA InitHolds == Init => Inductive
<1> SUFFICES ASSUME Init PROVE Inductive
  OBVIOUS
<1>1. TasksKnown /\ OneQuestion
  <2>1. DOMAIN page = PageFields /\ page.asking = None
    <3>1. DOMAIN Loading = PageFields /\ Loading.asking = None
      BY DEF Loading, PageFields
    <3>2. ASSUME NEW a,
                 page = [Loading EXCEPT !.path = "app", !.me = a, !.signedIn = TRUE,
                                        !.checked = TRUE, !.busy = FALSE]
          PROVE  DOMAIN page = PageFields /\ page.asking = None
      BY <3>2 DEF Loading, PageFields
    <3> QED BY <3>1, <3>2 DEF Init
  <2>2. tasks = <<>> /\ started = 0
    BY DEF Init
  <2>3. DOMAIN tasks = {}
    BY <2>2
  <2> QED BY <2>1, <2>2, <2>3 DEF TasksKnown, OneQuestion
<1>2. CASE SignInInit
  BY <1>1, <1>2 DEF Inductive, SignInInit, SessionsKnown, TripKnown, NoCookies
<1>3. CASE \E a \in Accounts : SignedInAs(a)
  <2>1. PICK a \in Accounts : SignedInAs(a)
    BY <1>3
  <2> DEFINE l == [of |-> a, since |-> 0, over |-> FALSE]
             s == [of |-> a, until |-> Lifetime]
  <2>2. l \in [of : Anybody, since : Nat, over : BOOLEAN] /\ ~l.over /\ l.of = a /\ l.since = 0
        /\ s.of = a /\ s.until = Lifetime
    BY DEF Anybody
  <2>3. logins = <<l>> /\ sessions = <<s>> /\ now = 0
    BY <2>1 DEF SignedInAs
  <2> HIDE DEF l, s
  <2>4. SessionsKnown
    BY <2>2, <2>3, SignInAssumption DEF SessionsKnown
  <2>5. TripKnown
    BY <2>1 DEF TripKnown, SignedInAs, NoCookies
  <2> QED BY <1>1, <2>4, <2>5 DEF Inductive
<1> QED BY <1>2, <1>3 DEF Init

\* Any step, with one case per group of actions.
LEMMA StepKept == Inductive /\ [Next]_vars => Inductive'
<1> SUFFICES ASSUME Inductive, [Next]_vars PROVE Inductive'
  OBVIOUS
<1>1. CASE SignsIn \/ ReturnHome \/ Chatting \/ OnCases \/ Reload
  BY <1>1, PageActionsKept
<1>2. CASE Replies
  BY <1>2, RepliesKept
<1>3. ASSUME NEW path, Navigate(path) PROVE Inductive'
  BY <1>3, TripStays DEF Navigate, signInVars, Inductive, SessionsKnown, TasksKnown,
                         OneQuestion, PageFields
<1>4. ASSUME NEW n \in open, Commit(n) PROVE Inductive'
  BY <1>4, TripStays DEF Commit, signInVars, Inductive, SessionsKnown, TasksKnown, OneQuestion
<1>5. CASE SignInNext /\ UNCHANGED pageVars
  BY <1>5, SignInKept
<1>6. CASE UNCHANGED vars
  BY <1>6, TripStays DEF vars, pageVars, signInVars, Inductive, SessionsKnown, TasksKnown,
                         OneQuestion
<1> QED BY <1>1, <1>2, <1>3, <1>4, <1>5, <1>6 DEF Next

\* The invariant of the proofs: sessions are the logins that are neither
\* over nor expired, the browser remembers the last trip or none, callbacks
\* came from what was the last trip when they were sent, and the question
\* under way is the one the page refers to.
THEOREM InvariantHolds == Spec => []Inductive
BY InitHolds, StepKept, PTL DEF Spec
-----------------------------------------------------------------------------
(* Theorems.                                                               *)

\* One question at a time: however functions overlap, reset busy, are
\* stopped or are lost with the page, the one question that runs is the one
\* activeRequest names.
THEOREM OneAtATime == Spec => []OneQuestion
<1>1. Inductive => OneQuestion
  BY DEF Inductive
<1> QED BY <1>1, InvariantHolds, PTL

\* A token stands for its account until its lifetime ends, it is revoked or
\* the process restarts, and no longer: whatever is purged in between.
THEOREM Sessions == Spec => []SessionsExact
<1>1. Inductive => SessionsExact
  <2> SUFFICES ASSUME SessionsKnown, NEW t \in DOMAIN logins
               PROVE  Authenticated(t) =
                        IF logins[t].over \/ now >= logins[t].since + Lifetime THEN None
                        ELSE logins[t].of
    BY DEF Inductive, SessionsExact
  <2>1. logins[t].since \in Nat /\ now \in Nat /\ Lifetime \in Nat
    BY LoginTyped, SignInAssumption DEF SessionsKnown
  <2>2. t \in DOMAIN Live(sessions)
          <=> ~(logins[t].over \/ now >= logins[t].since + Lifetime)
    BY <2>1 DEF SessionsKnown, Live, Restrict
  <2>3. t \in DOMAIN Live(sessions) => sessions[t].of = logins[t].of
    BY DEF SessionsKnown, Live, Restrict
  <2> QED BY <2>2, <2>3 DEF Authenticated
<1> QED BY <1>1, InvariantHolds, PTL

\* Only the answer of a callback makes the browser that of a Keycloak account,
\* and only of one whose trip, when it was sent, was the last and nobody had
\* signed in on, for an account of the portal it was for: any number of tabs
\* may leave, return and sign out while codes are exchanged.
THEOREM LastTrip == Spec => LastTripOnly
<1>1. ASSUME Inductive, [Next]_vars, jar'.keycloak \notin {None, jar.keycloak}
      PROVE  \E n \in DOMAIN callbacks :
               /\ callbacks[n].last /\ callbacks[n].of = jar'.keycloak.of
               /\ callbacks[n].stage # callbacks'[n].stage
               /\ MatchesPortal(callbacks[n].of, trips[callbacks[n].trip].portal)
  <2>1. PICK n \in DOMAIN callbacks : CallbackAnswered(n)
    <3>1. ~ UNCHANGED jar /\ ~ jar'.keycloak = jar.keycloak
      BY <1>1
    <3>2. DOMAIN jar = {"local", "keycloak", "trip", "demo"}
      BY <1>1 DEF Inductive, TripKnown
    <3>3. ~ Replies
      <4> SUFFICES ASSUME NEW n \in DOMAIN tasks, Deliver(n) \/ Fail(n) PROVE FALSE
        BY DEF Replies
      <4>1. jar' \in {jar, Kept(tasks[n].reply)}
        BY DEF Deliver, Fail
      <4> QED BY <3>1, <3>2, <4>1 DEF Kept
    <3>4. ~ (SignsIn \/ ReturnHome \/ Chatting \/ OnCases \/ Reload)
      BY <3>1 DEF SignsIn, ReturnHome, Chatting, OnCases, Reload, StartLocalLogin, StartDemo,
                  SelectChat, CreateNewChat, UploadAttachment, ChangeChat, FollowPath,
                  SubmitQuestion, WorkOnCase, SelectCase, CreateCase, Begins, Starts
    <3>5. SignInNext
      BY <1>1, <3>1, <3>3, <3>4 DEF Next, Navigate, Commit, signInVars, vars
    <3>6. ~ (LogoutElsewhere \/ Tick \/ Restart \/ CookieEnds)
      BY <1>1, <3>1, <3>2 DEF LogoutElsewhere, NoCookies, Tick, Restart, CookieEnds
    <3>7. ~ \E a \in Accounts : LoginElsewhere(a)
      BY <3>1, <3>2 DEF LoginElsewhere
    <3>8. ~ \E portal \in {"staff", "tenant"} : LeaveForKeycloak(portal)
      BY <3>1, <3>2 DEF LeaveForKeycloak
    <3>9. ~ (\/ \E a \in Accounts, t \in DOMAIN trips : ReturnFromKeycloak(t, a)
             \/ \E n \in DOMAIN callbacks : ExchangeCode(n) \/ CallbackFails(n))
      BY <3>1 DEF ReturnFromKeycloak, ExchangeCode, CallbackFails
    <3> QED BY <3>5, <3>6, <3>7, <3>8, <3>9 DEF SignInNext
  <2>2. callbacks[n].last /\ MatchesPortal(callbacks[n].of, trips[callbacks[n].trip].portal)
    BY <1>1, <2>1 DEF Inductive, TripKnown, Honest, CallbackAnswered, Callback
  <2>3. jar'.keycloak.of = callbacks[n].of
    BY <1>1, <2>1 DEF Inductive, TripKnown, CallbackAnswered
  <2>4. callbacks[n].stage # callbacks'[n].stage
    <3>1. callbacks[n] \in CallbackRecords /\ callbacks \in Seq(CallbackRecords)
      BY <1>1 DEF Inductive, TripKnown
    <3>2. [callbacks[n] EXCEPT !.stage = "over"].stage = "over"
      BY <3>1 DEF CallbackRecords
    <3>3. callbacks'[n] = [callbacks[n] EXCEPT !.stage = "over"]
      BY <2>1, <3>1 DEF CallbackAnswered
    <3> QED BY <2>1, <3>2, <3>3 DEF CallbackAnswered, Callback
  <2> QED BY <2>2, <2>3, <2>4
<1>2. Inductive /\ [Next]_vars
        => [jar'.keycloak \notin {None, jar.keycloak} =>
              \E n \in DOMAIN callbacks :
                /\ callbacks[n].last /\ callbacks[n].of = jar'.keycloak.of
                /\ callbacks[n].stage # callbacks'[n].stage
                /\ MatchesPortal(callbacks[n].of, trips[callbacks[n].trip].portal)]_signInVars
  BY <1>1
<1> QED BY <1>2, InvariantHolds, PTL DEF Spec, LastTripOnly
=============================================================================
