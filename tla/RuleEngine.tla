----------------------------- MODULE RuleEngine -----------------------------
(***************************************************************************)
(* RuleCalculationEngine: what a lease owes for a half-open period, from   *)
(* approved rules and from the facts of the lease, both of which change on *)
(* given dates.  The engine is a pure function; this module is that        *)
(* function, and the day-by-day reading of the same rules and facts it is  *)
(* compared with.                                                          *)
(*                                                                         *)
(* Dates are day numbers.  Amounts are whole numbers of a unit finer than  *)
(* a paisa.  Jurisdiction and applicability key are one key.               *)
(***************************************************************************)
EXTENDS Integers, FiniteSets, FiniteSetsExt, Functions

CONSTANTS
  MonthStarts, \* days that are the first of a month
  YearStarts,  \* days that are the first of April
  MaxSegments, \* max_segments of the engine
  Paisa,       \* units of an amount in 0.01, the quantum of a total
  Open         \* a NULL system_to: the row is still on record

ASSUME CalendarAssumption ==
  /\ MonthStarts \subseteq Int
  /\ YearStarts \subseteq MonthStarts
  /\ MaxSegments \in Nat
  /\ Paisa \in Nat \ {0}
  /\ Open \notin Int

(***************************************************************************)
(* Periods                                                                 *)
(***************************************************************************)

Inside(d, req) == req.from < d /\ d < req.to

LeaseFacts(facts) ==
  /\ facts = [key |-> facts.key, area |-> facts.area, base |-> facts.base,
              exempt |-> facts.exempt]
  /\ facts.area \in Nat \ {0} /\ facts.base \in Nat

\* A change gives the fields it names; the others stay as they are.
ApplyChange(facts, change) ==
  [f \in DOMAIN facts |-> IF f \in DOMAIN change THEN change[f] ELSE facts[f]]

\* What the API accepts.
WellFormed(req) ==
  /\ req.from \in Int /\ req.to \in Int /\ req.from < req.to
  /\ LeaseFacts(req.facts)
  /\ IsFiniteSet(req.additional) /\ IsFiniteSet(req.taxes)
  /\ \A d \in DOMAIN req.changes :
       d \in Int /\ Inside(d, req) /\ LeaseFacts(ApplyChange(req.facts, req.changes[d]))
  /\ req.at \in Int \cup {Open}
  /\ req.mode = "original" => req.at # Open

\* A rule cuts the period whether or not any required component uses it.
Boundaries(req, rules) ==
  {req.from, req.to}
    \cup DOMAIN req.changes
    \cup {d \in UNION {{r.valid_from, r.valid_to} : r \in rules} : Inside(d, req)}
    \cup {d \in YearStarts : req.years /\ Inside(d, req)}

\* Two boundaries with none between them: zip(ordered, ordered[1:]).
Consecutive(cuts) ==
  {s \in cuts \X cuts : s[1] < s[2] /\ \A d \in cuts : ~(s[1] < d /\ d < s[2])}

Segments(req, rules) == Consecutive(Boundaries(req, rules))

\* As FactsFrom, with each change applied to the facts of the request.
MutantFactsFrom(req, rules) ==
  LET cuts == Boundaries(req, rules)
      facts[d \in cuts] ==
        LET before == {c \in cuts : c < d}
        IN  IF d \in DOMAIN req.changes THEN ApplyChange(req.facts, req.changes[d])
            ELSE IF before = {} THEN req.facts ELSE facts[Max(before)]
  IN  facts

\* The facts each segment starts with: one change at most is applied per
\* boundary, to what the segment before it ended with.
FactsFrom(req, rules) ==
  LET cuts == Boundaries(req, rules)
      facts[d \in cuts] ==
        LET before == {c \in cuts : c < d}
            so_far == IF before = {} THEN req.facts ELSE facts[Max(before)]
        IN  IF d \in DOMAIN req.changes
            THEN ApplyChange(so_far, req.changes[d])
            ELSE so_far
  IN  facts

(***************************************************************************)
(* Resolution                                                              *)
(***************************************************************************)

\* Whether a row was on record for the interpretation a request asks for.
OnRecord(rule, req) ==
  \/ req.mode = "current" /\ rule.system_to = Open
  \/ /\ req.mode = "original"
     /\ rule.system_from <= req.at
     /\ rule.system_to = Open \/ rule.system_to > req.at

Matches(rules, use, facts, s, req) ==
  {r \in rules : /\ r.use = use
                 /\ r.key = facts.key
                 /\ r.valid_from <= s[1]
                 /\ r.valid_to >= s[2]
                 /\ OnRecord(r, req)}

Rent == <<"rent", "RENT">>

\* The components a request needs a rule for, in every segment.
Uses(req) == {Rent}
  \cup {<<"additional_rent", code>> : code \in req.additional}
  \cup {<<"tax", code>> : code \in req.taxes}

Resolves(rules, facts, s, req) ==
  \A use \in Uses(req) : Cardinality(Matches(rules, use, facts, s, req)) = 1

\* The rule of each component, where Resolves holds.
RulesOf(rules, facts, s, req) ==
  [use \in Uses(req) |-> CHOOSE r \in rules : r \in Matches(rules, use, facts, s, req)]

(***************************************************************************)
(* Amounts                                                                 *)
(***************************************************************************)

\* ROUND_HALF_UP of num / den, not negative, to a multiple of the quantum.
RoundHalfUp(num, den, quantum) ==
  quantum * ((2 * num + den * quantum) \div (2 * den * quantum))

Money(amount) == RoundHalfUp(amount, 1, Paisa)

Monthly == {"fixed_per_month", "per_area_per_month"}

Bases == Monthly \cup
  {"fixed_per_day", "per_area_per_day", "percent_of_base", "percent_of_taxable"}

Months(s) == Cardinality({m \in MonthStarts : s[1] < m /\ m <= s[2]})

\* Monthly rates are defined for whole months only.
Payable(rule, s) == rule.basis \in Monthly => s[1] \in MonthStarts /\ s[2] \in MonthStarts

Amount(rule, s, area, base, taxable) ==
  LET rounded(num, den) == RoundHalfUp(num, den, rule.quantum)
      days == s[2] - s[1]
  IN  CASE rule.basis = "fixed_per_day" -> rounded(rule.rate * days, 1)
        [] rule.basis = "per_area_per_day" -> rounded(rule.rate * area * days, 1)
        [] rule.basis = "fixed_per_month" -> rounded(rule.rate * Months(s), 1)
        [] rule.basis = "per_area_per_month" -> rounded(rule.rate * Months(s) * area, 1)
        [] rule.basis = "percent_of_base" -> rounded(base * rule.rate, 100)
        [] rule.basis = "percent_of_taxable" -> rounded(taxable * rule.rate, 100)

\* The rule of an exempt tax must resolve, but its amount is not computed.
Exempt(use, facts) == use[1] = "tax" /\ use[2] \in facts.exempt

Calculable(rules, facts, s, req) ==
  /\ Resolves(rules, facts, s, req)
  /\ \A use \in Uses(req) :
       Exempt(use, facts) \/ Payable(RulesOf(rules, facts, s, req)[use], s)

\* As CalculateSegment, with the total of rent and tax alone.
MutantCalculateSegment(rules, facts, s, req) ==
  LET by == RulesOf(rules, facts, s, req)
      seed == facts.base * (s[2] - s[1])
      rent == Amount(by[Rent], s, facts.area, seed, seed)
      extra == [code \in req.additional |->
                  Amount(by[<<"additional_rent", code>>], s, facts.area, rent, rent)]
      additional == SumFunction(extra)
      taxable == Money(rent + additional)
      levied == [code \in req.taxes \ facts.exempt |->
                   Amount(by[<<"tax", code>>], s, facts.area, rent, taxable)]
      tax == SumFunction(levied)
  IN  [period |-> s, facts |-> facts, rules |-> by,
       rent |-> Money(rent), additional |-> Money(additional), tax |-> Money(tax),
       total |-> Money(rent + tax)]

CalculateSegment(rules, facts, s, req) ==
  LET by == RulesOf(rules, facts, s, req)
      seed == facts.base * (s[2] - s[1])
      rent == Amount(by[Rent], s, facts.area, seed, seed)
      extra == [code \in req.additional |->
                  Amount(by[<<"additional_rent", code>>], s, facts.area, rent, rent)]
      additional == SumFunction(extra)
      taxable == Money(rent + additional)
      levied == [code \in req.taxes \ facts.exempt |->
                   Amount(by[<<"tax", code>>], s, facts.area, rent, taxable)]
      tax == SumFunction(levied)
  IN  [period |-> s, facts |-> facts, rules |-> by,
       rent |-> Money(rent), additional |-> Money(additional), tax |-> Money(tax),
       total |-> Money(taxable + tax)]

\* One amount, summed over the segments.
SumOf(amount, parts) == SumFunction([p \in parts |-> p[amount]])

NoTotals == [rent |-> 0, additional |-> 0, tax |-> 0, grand |-> 0]

Calculate(req, rules) ==
  LET segments == Segments(req, rules)
      facts == FactsFrom(req, rules)
      parts == {CalculateSegment(rules, facts[s[1]], s, req) : s \in segments}
      rent == SumOf("rent", parts)
      additional == SumOf("additional", parts)
      tax == SumOf("tax", parts)
  IN  IF /\ Cardinality(segments) <= MaxSegments
         /\ \A s \in segments : Calculable(rules, facts[s[1]], s, req)
      THEN [status |-> "completed", parts |-> parts,
            totals |-> [rent |-> Money(rent), additional |-> Money(additional),
                        tax |-> Money(tax), grand |-> Money(rent + additional + tax)]]
      ELSE [status |-> "review_required", parts |-> {}, totals |-> NoTotals]

(***************************************************************************)
(* The same rules and facts read one day at a time                         *)
(***************************************************************************)

\* A fact on a day is what the last change up to that day that names it said.
FactsOn(req, day) ==
  [f \in DOMAIN req.facts |->
     LET told == {d \in DOMAIN req.changes : d <= day /\ f \in DOMAIN req.changes[d]}
     IN  IF told = {} THEN req.facts[f] ELSE req.changes[Max(told)][f]]

RulesOn(rules, use, req, day) ==
  {r \in rules : /\ r.use = use
                 /\ r.key = FactsOn(req, day).key
                 /\ r.valid_from <= day /\ day < r.valid_to
                 /\ OnRecord(r, req)}

Days(req) == req.from .. req.to - 1
Covers(s, day) == s[1] <= day /\ day < s[2]

\* A completed result counts every day once, with the facts and the rules
\* of that day.
ByDay(req, rules, result) ==
  \A day \in Days(req) :
    \E p \in result.parts :
      /\ \A q \in result.parts : Covers(q.period, day) <=> q = p
      /\ p.facts = FactsOn(req, day)
      /\ \A use \in Uses(req) : RulesOn(rules, use, req, day) = {p.rules[use]}

\* What makes a calculation impossible, seen from the days.
Undecided(req, rules) ==
  \E day \in Days(req), use \in Uses(req) :
    Cardinality(RulesOn(rules, use, req, day)) # 1

BrokenMonth(req, rules) ==
  \E s \in Segments(req, rules), use \in Uses(req) :
    \E r \in RulesOn(rules, use, req, s[1]) : ~Payable(r, s)
=============================================================================
