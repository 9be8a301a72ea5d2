------------------------------ MODULE RuleBook ------------------------------
(***************************************************************************)
(* The rules of pms_rules with their approvals, and the calculations made  *)
(* from them: rules are drafted, reviewed by Finance and Legal, approved   *)
(* and superseded while requests load them, compute and store their        *)
(* results.  A request is one READ COMMITTED transaction, so each of its   *)
(* statements sees the rows of its own moment: the rules it loads, the     *)
(* earlier result it looks for and the unique key of its INSERT are three  *)
(* different moments.                                                      *)
(*                                                                         *)
(* A stored result is keyed by the request, which includes its mode and    *)
(* as_recorded_at, and answers every later request with that key.          *)
(***************************************************************************)
EXTENDS RuleEngine

CONSTANTS
  Rules,    \* rule_id
  Content,  \* what a rule says: use, key, valid period, basis, rate, quantum
  Old,      \* rules approved before the behaviour begins
  Makers,   \* subjects who draft rules
  Verdicts, \* the reviews each rule may receive: reviewer and decision
  Clients,  \* requests in flight at a time
  Requests, \* calculations the clients may ask for
  MaxTime,  \* bound: days of system time
  MaxSaved  \* bound: results stored or on their way

\* Two rules for one component and key, and with a day in common.
SameKey(r, s) == Content[r].use = Content[s].use /\ Content[r].key = Content[s].key

OverlapValid(r, s) ==
  /\ Content[r].valid_from < Content[s].valid_to
  /\ Content[s].valid_from < Content[r].valid_to

ASSUME RulesAssumption ==
  /\ DOMAIN Content = Rules
  /\ \A r \in Rules : /\ Content[r].valid_from \in Int
                      /\ Content[r].valid_to \in Int
                      /\ Content[r].valid_from < Content[r].valid_to
                      /\ Content[r].basis \in Bases
                      /\ Content[r].rate \in Nat
                      /\ Content[r].quantum \in Nat \ {0}
  /\ \A req \in Requests : WellFormed(req)
  /\ Old \subseteq Rules
  /\ \A r, s \in Old : r # s => ~(SameKey(r, s) /\ OverlapValid(r, s))

VARIABLES
  now,       \* the clock of the database
  book,      \* rule_definition: status, system period, maker
  approvals, \* rule_approval
  job,       \* the request each client has in flight
  stored     \* calculation_input with its calculation_result, by request

vars == <<now, book, approvals, job, stored>>

Roles == {"finance", "legal"}
Idle == [phase |-> "idle"]

\* A row as load_approved_rules returns it.
Row(r) == [rule_id |-> r, use |-> Content[r].use, key |-> Content[r].key,
           valid_from |-> Content[r].valid_from, valid_to |-> Content[r].valid_to,
           basis |-> Content[r].basis, rate |-> Content[r].rate,
           quantum |-> Content[r].quantum,
           system_from |-> book[r].system_from, system_to |-> book[r].system_to]

Approved == {r \in Rules : book[r].status = "approved"}
Book == {Row(r) : r \in Approved}

\* Roles of the reviews stand for the subjects who gave them to old rules.
Init ==
  /\ now = 0
  /\ book = [r \in Rules |->
       [status |-> IF r \in Old THEN "approved" ELSE "absent", system_from |-> 0,
        system_to |-> Open, created_by |-> "nobody"]]
  /\ approvals = {[rule |-> r, role |-> role, decision |-> "approved", reviewer |-> role] :
                    r \in Old, role \in Roles}
  /\ job = [c \in Clients |-> Idle]
  /\ stored = [k \in {} |-> Idle]

Tick ==
  /\ now < MaxTime
  /\ now' = now + 1
  /\ UNCHANGED <<book, approvals, job, stored>>

(***************************************************************************)
(* Rules                                                                   *)
(***************************************************************************)

\* system_from is the moment of the draft, not of its approval.
Draft(r, maker) ==
  /\ book[r].status = "absent"
  /\ book' = [book EXCEPT ![r] = [status |-> "draft", system_from |-> now,
                                  system_to |-> Open, created_by |-> maker]]
  /\ UNCHANGED <<now, approvals, job, stored>>

\* One row per rule and role, never changed: a refusal is final.
Unreviewed(r, role) == \A a \in approvals : ~(a.rule = r /\ a.role = role)

Review(r, role, verdict) ==
  /\ book[r].status # "absent"
  /\ Unreviewed(r, role)
  /\ approvals' = approvals \cup
       {[rule |-> r, role |-> role,
         decision |-> verdict.decision, reviewer |-> verdict.reviewer]}
  /\ UNCHANGED <<now, book, job, stored>>

\* trg_rule_definition_approval: both roles, neither the maker.
Reviewed(r) ==
  LET given == {a \in approvals : a.rule = r /\ a.decision = "approved"}
  IN  /\ Cardinality(given) = 2
      /\ \A a \in given : a.reviewer # book[r].created_by

Before(t, end) == end = Open \/ t < end

OverlapSystem(r, s) ==
  /\ Before(book[r].system_from, book[s].system_to)
  /\ Before(book[s].system_from, book[r].system_to)

\* ex_rule_definition_approved_overlap.
Excluded(r, s) == SameKey(r, s) /\ OverlapValid(r, s) /\ OverlapSystem(r, s)

\* As Approve, compared only with the rules still on record.
MutantApprove(r) ==
  /\ book[r].status = "draft"
  /\ Reviewed(r)
  /\ \A s \in Approved : book[s].system_to = Open => ~Excluded(r, s)
  /\ book' = [book EXCEPT ![r].status = "approved"]
  /\ UNCHANGED <<now, approvals, job, stored>>

Approve(r) ==
  /\ book[r].status = "draft"
  /\ Reviewed(r)
  /\ \A s \in Approved : ~Excluded(r, s)
  /\ book' = [book EXCEPT ![r].status = "approved"]
  /\ UNCHANGED <<now, approvals, job, stored>>

\* As Supersede, with the old row taken out of the book.
MutantSupersede(r) ==
  /\ book[r].status = "approved"
  /\ book[r].system_to = Open
  /\ book[r].system_from < now
  /\ book' = [book EXCEPT ![r].system_to = now, ![r].status = "draft"]
  /\ UNCHANGED <<now, approvals, job, stored>>

\* The system period of a rule is closed; ck_rule_definition_system.
Supersede(r) ==
  /\ book[r].status = "approved"
  /\ book[r].system_to = Open
  /\ book[r].system_from < now
  /\ book' = [book EXCEPT ![r].system_to = now]
  /\ UNCHANGED <<now, approvals, job, stored>>

(***************************************************************************)
(* Calculations                                                            *)
(***************************************************************************)

\* The system clause follows as_recorded_at, the engine's follows the mode.
Loaded(req) ==
  {Row(r) : r \in {q \in Approved :
     /\ Content[q].key = req.facts.key
     /\ Content[q].valid_from < req.to /\ Content[q].valid_to > req.from
     /\ IF req.at = Open
        THEN book[q].system_to = Open
        ELSE book[q].system_from <= req.at /\ Before(req.at, book[q].system_to)}}

\* load_approved_rules and the engine, which computes from what was loaded.
Load(c, req) ==
  /\ job[c] = Idle
  /\ Cardinality(DOMAIN stored) + Cardinality({d \in Clients : job[d] # Idle}) < MaxSaved
  /\ job' = [job EXCEPT ![c] = [phase |-> "computed", req |-> req, rules |-> Loaded(req),
                                result |-> Calculate(req, Loaded(req)), began |-> now]]
  /\ UNCHANGED <<now, book, approvals, stored>>

Ask(c) == \E req \in Requests : Load(c, req)

\* A replay is the stored request under another interpretation.
Interpretations ==
  {[mode |-> "current", at |-> Open]}
    \cup {[mode |-> "original", at |-> t] : t \in 0..MaxTime}

Reread(k, i) ==
  [from |-> k.from, to |-> k.to, changes |-> k.changes, additional |-> k.additional,
   taxes |-> k.taxes, facts |-> k.facts, years |-> k.years,
   mode |-> i.mode, at |-> i.at]

Replay(c) == \E k \in DOMAIN stored, i \in Interpretations : Load(c, Reread(k, i))

\* existing(): an earlier result with this key is the answer.
Find(c) ==
  /\ job[c].phase = "computed"
  /\ job' = [job EXCEPT ![c] =
       IF job[c].req \in DOMAIN stored THEN Idle ELSE [job[c] EXCEPT !.phase = "missed"]]
  /\ UNCHANGED <<now, book, approvals, stored>>

\* The INSERT and the COMMIT; uq_calculation_input_hash makes the second of
\* two equal requests wait for the first and then fail.
Save(c) ==
  /\ job[c].phase = "missed"
  /\ stored' = IF job[c].req \in DOMAIN stored THEN stored
               ELSE [k \in DOMAIN stored \cup {job[c].req} |->
                       IF k = job[c].req
                       THEN [result |-> job[c].result, completed_at |-> job[c].began]
                       ELSE stored[k]]
  /\ job' = [job EXCEPT ![c] = Idle]
  /\ UNCHANGED <<now, book, approvals>>

Next ==
  \/ Tick
  \/ \E r \in Rules :
       \/ \E maker \in Makers : Draft(r, maker)
       \/ \E role \in Roles, verdict \in Verdicts[r] : Review(r, role, verdict)
       \/ Approve(r)
       \/ Supersede(r)
  \/ \E c \in Clients : Ask(c) \/ Replay(c) \/ Find(c) \/ Save(c)

Spec == Init /\ [][Next]_vars

(***************************************************************************)
(* Properties                                                              *)
(***************************************************************************)

Results == {[req |-> job[c].req, rules |-> job[c].rules, result |-> job[c].result] :
              c \in {d \in Clients : job[d] # Idle}}

TypeOK ==
  /\ now \in Nat
  /\ \A r \in Rules :
       /\ book[r].status \in {"absent", "draft", "approved"}
       /\ book[r].system_from \in Nat
       /\ book[r].system_to \in Nat \cup {Open}
       /\ book[r].created_by \in Makers \cup {"nobody"}
  /\ \A a \in approvals : a.rule \in Rules /\ a.role \in Roles
  /\ \A c \in Clients : job[c].phase \in {"idle", "computed", "missed"}

\* A completed calculation counts every day of its period once, with the
\* facts and the one rule in force on that day, however the dates of rules
\* and changes cut the period; and it asks for review only when some day
\* has no rule or two, a monthly rate meets part of a month, or there are
\* too many segments (RuleCalculationEngine._segments, _resolve).
FollowsCalendar ==
  \A x \in Results :
    IF x.result.status = "completed" THEN ByDay(x.req, x.rules, x.result)
    ELSE \/ Undecided(x.req, x.rules)
         \/ BrokenMonth(x.req, x.rules)
         \/ Cardinality(Segments(x.req, x.rules)) > MaxSegments

\* The total of a bill is the sum of the totals of its segments, although
\* the one adds rounded components and the other rounds their sum, as long
\* as no rule rounds finer than a paisa (_calculate_segment, calculate).
TotalsAgree ==
  \A x \in Results :
    (\A r \in x.rules : r.quantum % Paisa = 0) =>
      x.result.totals.grand = SumOf("total", x.result.parts)

\* At no moment are two approved rules for one component and key in force
\* on one day (ex_rule_definition_approved_overlap over both periods).
OneRuleInForce ==
  \A r, s \in Approved : r # s => ~Excluded(r, s)

\* A rule in force was approved by a Finance and a Legal review, neither of
\* them its maker's (enforce_rule_approval, immutable approvals).
IndependentApproval ==
  \A r \in Approved : \A role \in Roles :
    \E a \in approvals : /\ a.rule = r /\ a.role = role /\ a.decision = "approved"
                         /\ a.reviewer # book[r].created_by

\* Of the rules a request loaded no two match one segment: a calculation is
\* never sent to review as ambiguous (_resolve against the constraint).
NeverAmbiguous ==
  \A x \in Results : \A use \in Uses(x.req) :
    \A s \in Segments(x.req, x.rules) :
      Cardinality(Matches(x.rules, use, FactsOn(x.req, s[1]), s, x.req)) <= 1

\* A bill completed as recorded at an earlier moment stands: whatever is
\* drafted, approved or superseded later, to resolve a segment of it again
\* in the book as of that moment gives the same rule for each component
\* (ORIGINAL_AS_RECORDED).
RecordedStands ==
  \A k \in DOMAIN stored :
    (k.mode = "original" /\ k.at < stored[k].completed_at
       /\ stored[k].result.status = "completed") =>
      \A p \in stored[k].result.parts : \A use \in Uses(k) :
        {r.rule_id : r \in Matches(Book, use, p.facts, p.period, k)} = {p.rules[use].rule_id}
=============================================================================
