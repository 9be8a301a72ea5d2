----------------------------- MODULE Operations -----------------------------
(***************************************************************************)
(* What operators run from a terminal: the scripts that take the database  *)
(* through the phases, the one that provisions the identity realm, and the *)
(* one that indexes the corpus.  They share no state, so a behaviour is    *)
(* about one of the three: interleaving two of them would show nothing     *)
(* that each does not show alone.                                          *)
(***************************************************************************)
EXTENDS PhaseRollout, StaffProvisioning, CorpusIndexing

VARIABLE agenda

operations == <<rollout, provisioning, corpus, agenda>>

Agendas == {"database", "realm", "corpus"}

\* The two that are not on the agenda stand still, in one state each.
OperationsInit ==
  /\ agenda \in Agendas
  /\ RolloutInit
  /\ agenda # "database" => db.revision = 4 /\ db.vector = "offered" /\ db.runtime = "plain"
  /\ StaffInit
  /\ agenda # "realm" =>
       \A u \in Users : realm.user[u] = NoUser /\ realm.mapper[Mappers[1]] = "absent"
  /\ CorpusInit

OperationsNext ==
  /\ UNCHANGED agenda
  /\ \/ agenda = "database" /\ RolloutNext /\ UNCHANGED <<provisioning, corpus>>
     \/ agenda = "realm" /\ StaffNext /\ UNCHANGED <<rollout, corpus>>
     \/ agenda = "corpus" /\ CorpusNext /\ UNCHANGED <<rollout, provisioning>>

\* An invocation goes on with the document it is at, and the operator repeats
\* the command until nothing is left, as its --help asks.
OperationsSpec ==
  /\ OperationsInit
  /\ [][OperationsNext]_operations
  /\ WF_operations(agenda = "corpus" /\ CorpusStep /\ UNCHANGED <<rollout, provisioning, agenda>>)
  /\ WF_operations(agenda = "corpus" /\ Repeat /\ UNCHANGED <<rollout, provisioning, agenda>>)
-----------------------------------------------------------------------------
(* Properties.                                                             *)

\* "Repeat the same command to resume": repeated, it comes to have a result
\* for every document of the inventory, however invocations ended before.
CorpusFinishes ==
  agenda = "corpus" => <>[](\A i \in Checksums : recorded[i] # "absent")
=============================================================================
