--------------------------- MODULE MCRequestPool ---------------------------
(***************************************************************************)
(* Two clients with three connections: an upload that holds two, and a     *)
(* request that waits for its second; one governed view and one extracted  *)
(* table, whose columns match one expression, none, or two of different    *)
(* precedence.                                                             *)
(***************************************************************************)
EXTENDS RequestPool

CONSTANTS c1, c2, k1, k2, identity, note, patientNote, source

Asked == {{"asset"}, {"asset", "policy"}}

Named == [c \in Columns |->
  CASE c = identity    -> {"identifier"}
    [] c = note        -> {"narrative"}
    [] c = patientNote -> {"sensitive", "identifier"}
    [] OTHER           -> {}]
=============================================================================
