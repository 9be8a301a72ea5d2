------------------------- MODULE MCDocumentPipeline -------------------------
(***************************************************************************)
(* Small documents for TLC.  The cfg chooses the workers, the texts the    *)
(* parsers may extract and the bounds.                                     *)
(***************************************************************************)
EXTENDS DocumentPipeline, TLC

CONSTANTS intro, clause, annex, long, short, changed, blank, doubtful, broken, w1, w2,
  v1, v2, v3

\* Three child chunks; the annex stands at the position of the clause.
AllChildren == {intro, clause, annex}
Positions == [c \in AllChildren |-> IF c = intro THEN 0 ELSE 1]

\* How the texts are cut.
Cut == [t \in Texts |->
  CASE t = long -> {intro, clause}
    [] t = changed -> {intro, annex}
    [] t = blank -> {}
    [] OTHER -> {intro}]

Decisions == [t \in Texts |->
  CASE t = doubtful -> "conditional"
    [] t = broken -> "fail"
    [] OTHER -> "pass"]

\* The workers, and the files that are not there at first, are interchangeable.
Symmetry == Permutations({w1, w2}) \cup Permutations({v2, v3})

\* Checkpoints are written and never read: they tell no two states apart.
Effects == <<versions, current, status, raws, artifacts, chunks, active,
             embedded, objects, mishaps, work>>
=============================================================================
