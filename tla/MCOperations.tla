---------------------------- MODULE MCOperations ----------------------------
(***************************************************************************)
(* Two terminals and two administrators, so that a run may find what       *)
(* another has half done; two staff users, one of whom may exist already;  *)
(* two documents, one per invocation, so that a command must be repeated.  *)
(***************************************************************************)
EXTENDS Operations, TLC

CONSTANTS clerk, head, d1, d2, a1, a2, t1, t2

Officers == <<clerk, head>>

Posts == (clerk :> "clerk_role") @@ (head :> "head_role")

Inventory == <<d1, d2>>

Expected == <<"unit-id">>
=============================================================================
