----------------------------- MODULE MCRuleBook -----------------------------
(***************************************************************************)
(* Twelve days that are three months, the second of which opens a          *)
(* financial year.  Two rents overlap in the second month, so the later    *)
(* one can be approved only once the earlier one is superseded; a tax      *)
(* starts inside a month and cuts every period it meets.                   *)
(***************************************************************************)
EXTENDS RuleBook, TLC

CONSTANTS daily, monthly, cess, gst, port, maker, fin, c1, c2

MCRules == {daily, monthly, cess, gst}

RuleText(use, from, to, basis, rate, quantum) ==
  [use |-> use, key |-> port, valid_from |-> from, valid_to |-> to,
   basis |-> basis, rate |-> rate, quantum |-> quantum]

MCContent ==
  daily :> RuleText(Rent, 0, 8, "per_area_per_day", 67, 10)
    @@ monthly :> RuleText(Rent, 4, 12, "fixed_per_month", 995, 10)
    @@ cess :> RuleText(<<"additional_rent", "CESS">>, 0, 12, "percent_of_base", 5, 10)
    @@ gst :> RuleText(<<"tax", "GST">>, 2, 12, "percent_of_taxable", 18, 10)

\* Only the review of the monthly rent is contested.
Verdict(subject, decision) == [reviewer |-> subject, decision |-> decision]

MCVerdicts ==
  [r \in MCRules |->
     IF r = monthly
     THEN {Verdict(fin, "approved"), Verdict(maker, "approved"), Verdict(fin, "rejected")}
     ELSE {Verdict(fin, "approved")}]

Asked(from, to, changes, additional, taxes) ==
  [from |-> from, to |-> to, changes |-> changes, taxes |-> taxes, additional |-> additional,
   facts |-> [key |-> port, area |-> 3, base |-> 5, exempt |-> {}],
   years |-> TRUE, mode |-> "current", at |-> Open]

MCRequests ==
  {Asked(0, 8, 3 :> [area |-> 4] @@ 5 :> [base |-> 6], {"CESS"}, {}),
   Asked(4, 12, 8 :> [exempt |-> {"GST"}], {"CESS"}, {"GST"})}

Symmetry == Permutations({c1, c2})
=============================================================================
