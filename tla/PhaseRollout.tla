---------------------------- MODULE PhaseRollout ----------------------------
(***************************************************************************)
(* The configured database on its way through the phases: the scripts      *)
(* apply_phaseNN_migration.py, run from terminals, some at the same time,  *)
(* some dying and run again.                                               *)
(*                                                                         *)
(* A script reads the revision, lets a child process of Alembic commit one *)
(* transaction per migration, commits grants in transactions of its own    *)
(* and verifies the result.  Nothing undoes a step when a later one fails: *)
(* what a script that died left behind is for the next one to put right.   *)
(* The extract the governed views read may be rebuilt meanwhile by         *)
(* 04_ONE_CLICK_CLEAN_BUILD, whose DROP SCHEMA ... CASCADE takes the views *)
(* and every grant on the old relations with it.                           *)
(***************************************************************************)
EXTENDS Integers, Sequences, FiniteSets

CONSTANTS
  Terminals,
  MaxScripts,  \* bound on the scripts started
  MaxChanges   \* bound on rebuilds of the extract and changes of the role

VARIABLES
  db,       \* the configured database
  script,   \* per terminal, the script it runs or has run last
  scripts, changes

rollout == <<db, script, scripts, changes>>

LastRevision == 12

Bundles == {"vectors", "catalogue", "views", "rules", "forecasts", "trainer", "graph"}

\* revision: the number of the last migration; vector: where pgvector can be
\* had; extract: absent while it is rebuilt, other when a rebuild gave it
\* other columns; views: the governed views exist; catalogue: the extract the
\* semantic catalogue describes.
Databases ==
  [revision : 4 .. LastRevision, vector : {"offered", "missing"},
   extract : {"whole", "other", "absent"}, views : BOOLEAN,
   runtime : {"plain", "elevated", "missing"}, trainer : {"plain", "missing"},
   grants : SUBSET Bundles, catalogue : {"empty", "whole", "other"},
   candidates : BOOLEAN]

\* One record per script: the revisions it upgrades from, the one it leaves,
\* its steps, and what it does when that revision is there already.
Phase06 == [from |-> {4}, to |-> 5, again |-> "trusts", bundles |-> {},
            steps |-> <<"upgrade", "verify">>]
Phase07 == [from |-> {5}, to |-> 6, again |-> "verifies", bundles |-> {"vectors"},
            steps |-> <<"upgrade", "grant", "verify">>]
Phase09 == [from |-> {6}, to |-> 7, again |-> "resumes",
            bundles |-> {"catalogue", "views"},
            steps |-> <<"upgrade", "grant", "refresh", "verify">>]
Phase10 == [from |-> {7, 8}, to |-> 9, again |-> "resumes", bundles |-> {"rules"},
            steps |-> <<"upgrade", "grant", "import", "verify">>]
\* Mutant: only the revision the script before left is taken up.
MutantPhase11 == [from |-> {9}, to |-> 11, again |-> "resumes",
                  bundles |-> {"forecasts", "trainer"},
                  steps |-> <<"upgrade", "grant", "trainer", "verify">>]
Phase11 == [from |-> {9, 10}, to |-> 11, again |-> "resumes",
            bundles |-> {"forecasts", "trainer"},
            steps |-> <<"upgrade", "grant", "trainer", "verify">>]
Phase12 == [from |-> {11}, to |-> 12, again |-> "resumes", bundles |-> {"graph"},
            steps |-> <<"upgrade", "grant", "verify">>]

Phases == {6, 7, 9, 10, 11, 12}

Phase(p) ==
  CASE p = 6 -> Phase06 [] p = 7 -> Phase07 [] p = 9 -> Phase09
    [] p = 10 -> Phase10 [] p = 11 -> Phase11 [] p = 12 -> Phase12

Results == {"none", "passed", "trusted", "refused", "blocked", "failed"}

\* at: the number of the step that is due, 0 when the script has ended;
\* child: the revision the Alembic process expects to find, 0 when none runs;
\* before: the metadata of the protected schemas at the start; quiet: neither
\* the extract nor a role has changed since.
Idle == [phase |-> 6, at |-> 0, child |-> 0, before |-> "whole",
         result |-> "none", quiet |-> TRUE]

\* What the phases before a revision leave when all of them passed.
GrantedBy(r) == UNION {Phase(p).bundles : p \in {q \in Phases : Phase(q).to <= r}}

RolloutInit ==
  /\ \E r \in {4, 6, 7, 9, 11}, v \in {"offered", "missing"},
        role \in {"plain", "missing"} :
       /\ v = "missing" => r = 4
       /\ role = "missing" => r <= 5
       /\ db = [revision |-> r, vector |-> v, extract |-> "whole", views |-> r >= 7,
                runtime |-> role, trainer |-> IF r >= 11 THEN "plain" ELSE "missing",
                grants |-> GrantedBy(r), catalogue |-> IF r >= 7 THEN "whole" ELSE "empty",
                candidates |-> r >= 9]
  /\ script = [t \in Terminals |-> Idle]
  /\ scripts = 0
  /\ changes = 0
-----------------------------------------------------------------------------
(* The steps of a script.                                                  *)

Running(t) == script[t].at > 0

Due(t, step) == Running(t) /\ Phase(script[t].phase).steps[script[t].at] = step

Ends(t, result) ==
  script' = [script EXCEPT ![t].at = 0, ![t].child = 0, ![t].result = result]

Goes(t) == script' = [script EXCEPT ![t].at = @ + 1, ![t].child = 0]

\* A transaction: what it would commit, nothing when a statement of it fails.
Unless(fails, committed) == IF fails THEN {} ELSE {committed}

Commits(t, outcomes) ==
  /\ \/ \E d \in outcomes : db' = d /\ Goes(t)
     \/ outcomes = {} /\ Ends(t, "failed") /\ UNCHANGED db
  /\ UNCHANGED <<scripts, changes>>

\* What each script looks at before its PASS, the revision and the protected
\* metadata apart.  Tables and constraints come with the revision.
VerifiedStatuses(d) == d.revision >= 5
VerifiedVectors(d) == d.revision >= 6
VerifiedCatalogue(d) == d.catalogue = "whole" /\ d.views /\ d.runtime = "plain"
VerifiedRules(d) == d.revision >= 9 /\ d.runtime = "plain"
VerifiedForecasts(d) == d.revision >= 11
VerifiedGraph(d) == d.revision >= 12

Verified(p, d) ==
  CASE p = 6  -> VerifiedStatuses(d)  [] p = 7  -> VerifiedVectors(d)
    [] p = 9  -> VerifiedCatalogue(d) [] p = 10 -> VerifiedRules(d)
    [] p = 11 -> VerifiedForecasts(d) [] p = 12 -> VerifiedGraph(d)

\* Mutant: run again, a script takes the grants for made.
MutantOpen(t, p) ==
  LET s == Phase(p)
      opened == [Idle EXCEPT !.phase = p, !.before = db.extract]
  IN /\ ~Running(t)
     /\ scripts < MaxScripts
     /\ scripts' = scripts + 1
     /\ script' = [script EXCEPT ![t] =
          IF p = 7 /\ db.vector = "missing" THEN [opened EXCEPT !.result = "blocked"]
          ELSE IF db.revision \in s.from THEN [opened EXCEPT !.at = 1]
          ELSE IF db.revision # s.to THEN [opened EXCEPT !.result = "refused"]
          ELSE IF s.again = "resumes" THEN [opened EXCEPT !.at = 3]
          ELSE [opened EXCEPT !.result =
                  IF s.again = "trusts" \/ Verified(p, db) THEN "trusted" ELSE "refused"]]
     /\ UNCHANGED <<db, changes>>

\* main, up to the upgrade
Open(t, p) ==
  LET s == Phase(p)
      opened == [Idle EXCEPT !.phase = p, !.before = db.extract]
  IN /\ ~Running(t)
     /\ scripts < MaxScripts
     /\ scripts' = scripts + 1
     /\ script' = [script EXCEPT ![t] =
          IF p = 7 /\ db.vector = "missing" THEN [opened EXCEPT !.result = "blocked"]
          ELSE IF db.revision \in s.from THEN [opened EXCEPT !.at = 1]
          ELSE IF db.revision # s.to THEN [opened EXCEPT !.result = "refused"]
          ELSE IF s.again = "resumes" THEN [opened EXCEPT !.at = 2]
          ELSE [opened EXCEPT !.result =
                  IF s.again = "trusts" \/ Verified(p, db) THEN "trusted" ELSE "refused"]]
     /\ UNCHANGED <<db, changes>>

\* The child process reads the revision and plans its migrations from it.
UpgradeStarts(t) ==
  /\ Due(t, "upgrade") /\ script[t].child = 0
  /\ script' = [script EXCEPT ![t].child = db.revision]
  /\ UNCHANGED <<db, scripts, changes>>

\* One migration, which finds the version it was planned from: 0007 creates
\* the governed views over the extract.
Migrate(t) ==
  /\ Due(t, "upgrade") /\ script[t].child = db.revision
  /\ db.revision < Phase(script[t].phase).to
  /\ db.revision = 6 => db.extract # "absent"
  /\ db' = [db EXCEPT !.revision = @ + 1, !.views = @ \/ db.revision = 6]
  /\ script' = [script EXCEPT ![t].child = @ + 1]
  /\ UNCHANGED <<scripts, changes>>

\* There is nothing to do, either, when the revision is past the target.
UpgradeEnds(t) ==
  /\ Due(t, "upgrade") /\ script[t].child >= Phase(script[t].phase).to
  /\ Goes(t)
  /\ UNCHANGED <<db, scripts, changes>>

\* _grant_runtime of the six scripts.  Only the last two look at the role
\* before they grant.
GrantVectors(d) ==
  Unless(d.runtime = "missing", [d EXCEPT !.grants = @ \cup {"vectors"}])

GrantCatalogue(d) ==
  Unless(d.runtime = "missing" \/ ~d.views,
         [d EXCEPT !.grants = @ \cup {"catalogue", "views"}])

GrantRules(d) == Unless(d.runtime = "missing", [d EXCEPT !.grants = @ \cup {"rules"}])

GrantForecasts(d) == Unless(d.runtime # "plain", [d EXCEPT !.grants = @ \cup {"forecasts"}])

GrantGraph(d) == Unless(d.runtime # "plain", [d EXCEPT !.grants = @ \cup {"graph"}])

Grant(t) ==
  /\ Due(t, "grant")
  /\ Commits(t, CASE script[t].phase = 7  -> GrantVectors(db)
                  [] script[t].phase = 9  -> GrantCatalogue(db)
                  [] script[t].phase = 10 -> GrantRules(db)
                  [] script[t].phase = 11 -> GrantForecasts(db)
                  [] script[t].phase = 12 -> GrantGraph(db))

\* _grant_trainer: the role is created by the transaction that grants to it.
GrantTrainer(t) ==
  /\ Due(t, "trainer")
  /\ Commits(t, Unless(db.extract = "absent",
       [db EXCEPT !.trainer = "plain", !.grants = @ \cup {"trainer"}]))

\* _refresh_catalog: the counts are compared after the commit.
Refresh(t) ==
  /\ Due(t, "refresh")
  /\ IF db.extract = "absent"
     THEN Ends(t, "failed") /\ UNCHANGED db
     ELSE /\ db' = [db EXCEPT !.catalogue = db.extract]
          /\ IF db.extract = "whole" /\ db.views THEN Goes(t) ELSE Ends(t, "failed")
  /\ UNCHANGED <<scripts, changes>>

\* _import_unapproved_candidates: what is there already stays.
Import(t) ==
  /\ Due(t, "import")
  /\ Commits(t, Unless(db.extract = "absent", [db EXCEPT !.candidates = TRUE]))

\* main, after the last commit: the revision, the metadata and the phase.
Verify(t) ==
  LET p == script[t].phase
  IN /\ Due(t, "verify")
     /\ Ends(t, IF /\ db.revision = Phase(p).to
                   /\ db.extract = script[t].before
                   /\ Verified(p, db)
                THEN "passed" ELSE "failed")
     /\ UNCHANGED <<db, scripts, changes>>

\* A timeout, a lost connection, a migration that finds another version than
\* it was planned from, the terminal closed: whatever was committed stays.
Dies(t) ==
  /\ Running(t)
  /\ Ends(t, "failed")
  /\ UNCHANGED <<db, scripts, changes>>
-----------------------------------------------------------------------------
(* What happens to the database from elsewhere.                            *)

Disturbs(d) ==
  /\ changes < MaxChanges
  /\ changes' = changes + 1
  /\ db' = d
  /\ script' = [t \in Terminals |-> [script[t] EXCEPT !.quiet = FALSE]]
  /\ UNCHANGED scripts

\* DROP SCHEMA ... CASCADE, committed by itself
DropExtract ==
  /\ db.extract # "absent"
  /\ Disturbs([db EXCEPT !.extract = "absent", !.views = FALSE,
                         !.grants = @ \ {"views", "trainer"}])

BuildExtract ==
  /\ db.extract = "absent"
  /\ \E e \in {"whole", "other"} :
       /\ db' = [db EXCEPT !.extract = e]
       /\ script' = [t \in Terminals |-> [script[t] EXCEPT !.quiet = FALSE]]
  /\ UNCHANGED <<scripts, changes>>

AlterRole ==
  \E role \in {"plain", "elevated"} \ {db.runtime} : Disturbs([db EXCEPT !.runtime = role])

RolloutNext ==
  \/ \E t \in Terminals :
       \/ \E p \in Phases : Open(t, p)
       \/ UpgradeStarts(t) \/ Migrate(t) \/ UpgradeEnds(t)
       \/ Grant(t) \/ GrantTrainer(t) \/ Refresh(t) \/ Import(t)
       \/ Verify(t) \/ Dies(t)
  \/ DropExtract \/ BuildExtract \/ AlterRole

RolloutSpec == RolloutInit /\ [][RolloutNext]_rollout
-----------------------------------------------------------------------------
(* Properties.                                                             *)

RolloutTypeOK ==
  /\ db \in Databases
  /\ script \in [Terminals ->
       [phase : Phases, at : 0 .. 4, child : 0 .. LastRevision,
        before : {"whole", "other", "absent"}, result : Results, quiet : BOOLEAN]]
  /\ scripts \in 0 .. MaxScripts
  /\ changes \in 0 .. MaxChanges

Installed(p) ==
  /\ db.revision >= Phase(p).to
  /\ Phase(p).bundles \subseteq db.grants
  /\ p >= 9 => db.runtime = "plain"
  /\ p = 9 => db.views /\ db.catalogue = "whole"
  /\ p = 10 => db.candidates

\* A script that ran to its PASS leaves its phase installed: the runtime role,
\* not elevated, holds every grant of it, whatever scripts died before or ran
\* at the same time; unless the extract or a role changed under it.  ("PASS
\* ... already_applied=true" of phases 06 and 07 promises no grants.)
PassedIsInstalled ==
  \A t \in Terminals :
    script[t].result = "passed" /\ script[t].quiet => Installed(script[t].phase)

\* A script killed between two migrations leaves no revision behind from
\* which no script goes on: each of the revisions has one that upgrades it.
NoDeadEnd ==
  db.revision < LastRevision => \E p \in Phases : db.revision \in Phase(p).from
=============================================================================
