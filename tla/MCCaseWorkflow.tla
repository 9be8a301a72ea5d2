---------------------------- MODULE MCCaseWorkflow ----------------------------
(***************************************************************************)
(* Small offices for TLC.  The cfg chooses the office and the bounds.      *)
(***************************************************************************)
EXTENDS CaseWorkflow, TLC

CONSTANTS dina, nils, hana, alex, d1, n1, n2, h1, h2, a1

Staff == {dina, nils, hana}
AskNilsHana == [r \in StaffRoles |->
  CASE r = "DO" -> {dina} [] r = "NO" -> {nils} [] r = "HOD" -> {hana}]

\* Two browser tabs of the Nodal Officer and of the HOD.
TwoTabs == {d1, n1, n2, h1, h2}
TwoTabsUser == d1 :> dina @@ n1 :> nils @@ n2 :> nils @@ h1 :> hana @@ h2 :> hana
TwoTabsRoles ==
  d1 :> {"DO"} @@ n1 :> {"NO"} @@ n2 :> {"NO"} @@ h1 :> {"HOD"} @@ h2 :> {"HOD"}

\* A Data Entry Operator, an officer with two roles, each with a session per
\* role, and an Administrator who is also on the staff.
MixedStaff == {dina, nils, alex}
MixedTabs == {d1, n1, h1, a1}
MixedUser == d1 :> dina @@ n1 :> nils @@ h1 :> nils @@ a1 :> alex
MixedRoles == d1 :> {"DO"} @@ n1 :> {"NO"} @@ h1 :> {"HOD"} @@ a1 :> {"Admin", "HOD"}
MixedRecipients == [r \in StaffRoles |->
  CASE r = "DO" -> {dina} [] r = "NO" -> {nils} [] r = "HOD" -> {nils, alex}]

\* One session per subject, identity-provider tokens with several roles.
OneTab == {d1, n1, h1}
OneTabUser == d1 :> dina @@ n1 :> nils @@ h1 :> hana
OneTabRoles == d1 :> {"DO", "NO"} @@ n1 :> {"NO", "HOD"} @@ h1 :> {"HOD"}
OneTabRecipients == [r \in StaffRoles |->
  CASE r = "DO" -> {dina} [] r = "NO" -> {dina, nils} [] r = "HOD" -> {nils, hana}]
===============================================================================
