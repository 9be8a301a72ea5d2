--------------------------- MODULE RuleBook_proof ---------------------------
(***************************************************************************)
(* Proofs about RuleEngine and RuleBook, for any calendar, rules, requests *)
(* and clients: the segments of a calculation partition its period, rules  *)
(* in force exclude each other and are independently approved, what a      *)
(* request loaded is never ambiguous, a bill recorded stands, is right on  *)
(* each of its days and adds up.                                           *)
(***************************************************************************)
EXTENDS RuleBook, FiniteSetTheorems, WellFoundedInduction, TLAPS

-----------------------------------------------------------------------------
(* The segments of a period.                                               *)

\* A set of integers with an upper bound has a largest element.
LEMMA LargestExists ==
  ASSUME NEW S \in SUBSET Int, S # {}, NEW top \in Int, \A x \in S : x <= top
  PROVE  \E m \in S : \A x \in S : x <= m
<1> DEFINE T == {top - x : x \in S}
           R == OpToRel(<, Nat)
<1>1. T \subseteq Nat /\ T # {}
  <2>1. \A x \in S : top - x \in Nat
    OBVIOUS
  <2>2. \E x \in S : top - x \in T
    OBVIOUS
  <2> QED BY <2>1, <2>2
<1>2. \E t \in T : \A u \in T : <<u, t>> \notin R
  <2>1. IsWellFoundedOn(R, Nat)
    BY NatLessThanWellFounded
  <2> HIDE DEF T, R
  <2> QED BY <1>1, <2>1, WFMin
<1>3. PICK t \in T : \A u \in T : <<u, t>> \notin R
  BY <1>2
<1>4. \A u \in T : t <= u
  <2> SUFFICES ASSUME NEW u \in T PROVE t <= u
    OBVIOUS
  <2>1. t \in Nat /\ u \in Nat
    BY <1>1
  <2>2. ~(u < t)
    BY <1>3, <2>1 DEF OpToRel
  <2> QED BY <2>1, <2>2
<1>5. PICK m \in S : t = top - m
  OBVIOUS
<1>6. \A x \in S : x <= m
  BY <1>4, <1>5
<1> QED BY <1>6

\* And one with a lower bound has a smallest.
LEMMA SmallestExists ==
  ASSUME NEW S \in SUBSET Int, S # {}, NEW bottom \in Int, \A x \in S : bottom <= x
  PROVE  \E m \in S : \A x \in S : m <= x
<1> DEFINE T == {-x : x \in S}
<1>1. T \in SUBSET Int /\ T # {} /\ -bottom \in Int /\ \A y \in T : y <= -bottom
  <2>1. \A x \in S : -x \in Int /\ -x <= -bottom
    OBVIOUS
  <2>2. \E x \in S : -x \in T
    OBVIOUS
  <2> QED BY <2>1, <2>2
<1>2. \E n \in T : \A y \in T : y <= n
  <2> HIDE DEF T
  <2> QED BY <1>1, LargestExists
<1>3. PICK n \in T : \A y \in T : y <= n
  BY <1>2
<1>4. PICK m \in S : n = -m
  OBVIOUS
<1>5. \A x \in S : m <= x
  BY <1>3, <1>4
<1> QED BY <1>5

DatedRows(rules) == \A r \in rules : r.valid_from \in Int /\ r.valid_to \in Int

\* Boundaries are days of the period, its two ends among them.
LEMMA BoundariesInPeriod ==
  ASSUME NEW req, NEW rules, WellFormed(req), DatedRows(rules)
  PROVE  /\ Boundaries(req, rules) \in SUBSET Int
         /\ req.from \in Boundaries(req, rules) /\ req.to \in Boundaries(req, rules)
         /\ \A d \in Boundaries(req, rules) : req.from <= d /\ d <= req.to
<1> DEFINE B == Boundaries(req, rules)
<1>1. req.from \in B /\ req.to \in B
  BY DEF Boundaries
<1>2. ASSUME NEW d \in B PROVE d \in Int /\ req.from <= d /\ d <= req.to
  <2>1. CASE d \in {req.from, req.to}
    BY <2>1 DEF WellFormed
  <2>2. CASE d \in DOMAIN req.changes
    BY <2>2 DEF WellFormed, Inside
  <2>3. CASE \E r \in rules : d \in {r.valid_from, r.valid_to} /\ Inside(d, req)
    BY <2>3 DEF WellFormed, Inside, DatedRows
  <2>4. CASE d \in YearStarts /\ Inside(d, req)
    <3>1. d \in Int
      BY <2>4, CalendarAssumption DEF CalendarAssumption
    <3> QED BY <2>4, <3>1 DEF WellFormed, Inside
  <2> QED BY <1>2, <2>1, <2>2, <2>3, <2>4 DEF Boundaries
<1> QED BY <1>1, <1>2

\* A segment is a period between two integers.
LEMMA SegmentShape ==
  ASSUME NEW req, NEW rules, WellFormed(req), DatedRows(rules),
         NEW s \in Segments(req, rules)
  PROVE  s[1] \in Int /\ s[2] \in Int /\ s[1] < s[2]
BY BoundariesInPeriod DEF Segments, Consecutive

\* The segments of a calculation partition its period: every day lies in
\* one segment and in no other, whatever dates rules and changes have
\* (RuleCalculationEngine._segments).
THEOREM SegmentsPartition ==
  ASSUME NEW req, NEW rules, WellFormed(req), DatedRows(rules),
         NEW day \in Days(req)
  PROVE  /\ \E s \in Segments(req, rules) : Covers(s, day)
         /\ \A s, t \in Segments(req, rules) : Covers(s, day) /\ Covers(t, day) => s = t
<1> DEFINE B == Boundaries(req, rules)
           UpTo == {d \in B : d <= day}
           After == {d \in B : day < d}
<1>1. day \in Int /\ req.from <= day /\ day < req.to
  BY DEF Days, WellFormed
<1>2. B \in SUBSET Int /\ req.from \in B /\ req.to \in B
  BY BoundariesInPeriod
<1>3. PICK a \in UpTo : \A d \in UpTo : d <= a
  <2>1. UpTo \in SUBSET Int /\ UpTo # {} /\ \A d \in UpTo : d <= day
    BY <1>1, <1>2
  <2> HIDE DEF UpTo
  <2> QED BY <1>1, <2>1, LargestExists
<1>4. PICK b \in After : \A d \in After : b <= d
  <2>1. After \in SUBSET Int /\ After # {} /\ \A d \in After : day <= d
    BY <1>1, <1>2
  <2> HIDE DEF After
  <2> QED BY <1>1, <2>1, SmallestExists
<1>5. <<a, b>> \in Segments(req, rules) /\ Covers(<<a, b>>, day)
  <2>1. a \in B /\ b \in B /\ a <= day /\ day < b
    BY <1>3, <1>4
  <2>2. ASSUME NEW d \in B PROVE ~(a < d /\ d < b)
    <3>1. d <= day \/ day < d
      BY <1>1, <1>2, <2>2
    <3>2. CASE d <= day
      BY <1>2, <1>3, <2>1, <3>2
    <3>3. CASE day < d
      BY <1>2, <1>4, <2>1, <3>3
    <3> QED BY <3>1, <3>2, <3>3
  <2>3. a < b
    BY <1>1, <1>2, <2>1
  <2> QED BY <2>1, <2>2, <2>3 DEF Segments, Consecutive, Covers
<1>6. ASSUME NEW s \in Segments(req, rules), NEW t \in Segments(req, rules),
             Covers(s, day), Covers(t, day)
      PROVE  s = t
  <2>1. s \in B \X B /\ t \in B \X B
    BY DEF Segments, Consecutive
  <2>2. /\ \A d \in B : ~(s[1] < d /\ d < s[2])
        /\ \A d \in B : ~(t[1] < d /\ d < t[2])
    BY DEF Segments, Consecutive
  <2>3. s[1] <= day /\ day < s[2] /\ t[1] <= day /\ day < t[2]
    BY <1>6 DEF Covers
  <2>4. s[1] \in Int /\ s[2] \in Int /\ t[1] \in Int /\ t[2] \in Int
    BY <1>2, <2>1
  <2>5. s[1] = t[1]
    BY <1>1, <2>1, <2>2, <2>3, <2>4
  <2>6. s[2] = t[2]
    BY <1>1, <2>1, <2>2, <2>3, <2>4
  <2> QED BY <2>1, <2>5, <2>6
<1> QED BY <1>5, <1>6

-----------------------------------------------------------------------------
(* The inductive invariant.                                                *)

RowType == [status: {"absent", "draft", "approved"}, system_from: Nat,
            system_to: Nat \cup {Open}, created_by: Makers \cup {"nobody"}]

Typed ==
  /\ now \in Nat
  /\ book \in [Rules -> RowType]
  /\ \A a \in approvals : a.rule \in Rules /\ a.role \in Roles
  /\ DOMAIN job = Clients

\* The primary key of rule_approval.
OneReview ==
  \A a, b \in approvals : a.rule = b.rule /\ a.role = b.role => a = b

RowsTyped(rows) ==
  \A x \in rows : /\ x.valid_from \in Int /\ x.valid_to \in Int
                  /\ x.system_from \in Nat /\ x.system_to \in Nat \cup {Open}

\* Rows for one component and key that share a day and a moment are one row.
Exclusive(rows) ==
  \A x, y \in rows :
    (/\ x.use = y.use /\ x.key = y.key
     /\ x.valid_from < y.valid_to /\ y.valid_from < x.valid_to
     /\ Before(x.system_from, y.system_to) /\ Before(y.system_from, x.system_to))
    => x = y

Ready(j) ==
  \/ j = Idle
  \/ /\ j = [phase |-> j.phase, req |-> j.req, rules |-> j.rules,
              result |-> j.result, began |-> j.began]
     /\ j.phase \in {"computed", "missed"}
     /\ WellFormed(j.req)
     /\ RowsTyped(j.rules) /\ Exclusive(j.rules)

Calculations ==
  /\ \A c \in Clients : Ready(job[c])
  /\ \A k \in DOMAIN stored : WellFormed(k)

IInv ==
  /\ Typed
  /\ OneReview
  /\ OneRuleInForce
  /\ IndependentApproval
  /\ Calculations

LEMMA ReadyIdle == Ready(Idle) /\ Idle.phase = "idle"
BY DEF Ready, Idle

LEMMA InitInv == Init => IInv
<1> SUFFICES ASSUME Init PROVE IInv
  OBVIOUS
<1>1. Typed
  <2>1. book \in [Rules -> RowType]
    BY DEF Init, RowType
  <2>2. \A a \in approvals : a.rule \in Rules /\ a.role \in Roles
    BY RulesAssumption DEF Init, RulesAssumption
  <2> QED BY <2>1, <2>2 DEF Init, Typed
<1>2. OneReview
  BY DEF Init, OneReview
<1>3. Approved = Old
  BY RulesAssumption DEF Init, Approved, RulesAssumption
<1>4. OneRuleInForce
  BY <1>3, RulesAssumption DEF OneRuleInForce, Excluded, RulesAssumption
<1>5. IndependentApproval
  <2> SUFFICES ASSUME NEW r \in Old, NEW role \in Roles
               PROVE  \E a \in approvals :
                        /\ a.rule = r /\ a.role = role /\ a.decision = "approved"
                        /\ a.reviewer # book[r].created_by
    BY <1>3 DEF IndependentApproval
  <2> DEFINE a == [rule |-> r, role |-> role, decision |-> "approved", reviewer |-> role]
  <2>1. a \in approvals
    BY DEF Init
  <2>2. r \in Rules /\ book[r].created_by = "nobody"
    BY RulesAssumption DEF Init, RulesAssumption
  <2>3. role # "nobody"
    BY DEF Roles
  <2> QED BY <2>1, <2>2, <2>3
<1>6. Calculations
  BY ReadyIdle DEF Init, Calculations
<1> QED BY <1>1, <1>2, <1>4, <1>5, <1>6 DEF IInv

-----------------------------------------------------------------------------
(* Steps that change the book or its approvals.                            *)

\* What requests hold does not follow the book.
LEMMA RequestsApart ==
  ASSUME Calculations, UNCHANGED <<job, stored>>
  PROVE  Calculations'
BY DEF Calculations, Ready, WellFormed, Inside, RowsTyped, Exclusive, Before, Idle

LEMMA TickStep ==
  ASSUME IInv, Tick
  PROVE  IInv'
<1>1. Typed'
  BY DEF IInv, Typed, Tick
<1>2. OneReview' /\ OneRuleInForce' /\ IndependentApproval'
  BY DEF IInv, Tick, OneReview, OneRuleInForce, IndependentApproval, Approved,
         Excluded, OverlapSystem
<1>3. Calculations'
  BY RequestsApart DEF IInv, Tick
<1> QED BY <1>1, <1>2, <1>3 DEF IInv

LEMMA DraftStep ==
  ASSUME IInv, NEW r \in Rules, NEW maker \in Makers, Draft(r, maker)
  PROVE  IInv'
<1>1. Typed'
  BY DEF IInv, Typed, Draft, RowType
<1>2. /\ Approved' = Approved /\ r \notin Approved
      /\ \A q \in Approved : book'[q] = book[q]
  BY DEF IInv, Typed, Draft, Approved
<1>3. OneReview' /\ OneRuleInForce' /\ IndependentApproval'
  BY <1>2 DEF IInv, Draft, OneReview, OneRuleInForce, IndependentApproval,
              Excluded, OverlapSystem
<1>4. Calculations'
  BY RequestsApart DEF IInv, Draft
<1> QED BY <1>1, <1>3, <1>4 DEF IInv

LEMMA ReviewStep ==
  ASSUME IInv, NEW r \in Rules, NEW role \in Roles, NEW verdict \in Verdicts[r],
         Review(r, role, verdict)
  PROVE  IInv'
<1> DEFINE new == [rule |-> r, role |-> role,
                   decision |-> verdict.decision, reviewer |-> verdict.reviewer]
<1>1. approvals' = approvals \cup {new} /\ UNCHANGED <<now, book, job, stored>>
  BY DEF Review
<1>2. Typed'
  BY <1>1 DEF IInv, Typed
<1>3. OneReview'
  <2>1. \A a \in approvals : ~(a.rule = r /\ a.role = role)
    BY DEF Review, Unreviewed
  <2> QED BY <1>1, <2>1 DEF IInv, OneReview
<1>4. OneRuleInForce'
  BY <1>1 DEF IInv, OneRuleInForce, Approved, Excluded, OverlapSystem
<1>5. IndependentApproval'
  BY <1>1 DEF IInv, IndependentApproval, Approved
<1>6. Calculations'
  BY <1>1, RequestsApart DEF IInv
<1> QED BY <1>2, <1>3, <1>4, <1>5, <1>6 DEF IInv

\* A set whose elements are all equal has at most one.
LEMMA AllEqual ==
  ASSUME NEW S, \A x, y \in S : x = y
  PROVE  Cardinality(S) \in {0, 1}
<1>1. CASE S = {}
  BY <1>1, FS_EmptySet
<1>2. CASE S # {}
  <2>1. PICK x \in S : TRUE
    BY <1>2
  <2>2. S = {x}
    BY <2>1
  <2> QED BY <2>2, FS_Singleton
<1> QED BY <1>1, <1>2

\* Two approvals of one rule are one of each role.
LEMMA BothRoles ==
  ASSUME IInv, NEW r \in Rules, Reviewed(r), NEW role \in Roles
  PROVE  \E a \in approvals : /\ a.rule = r /\ a.role = role /\ a.decision = "approved"
                              /\ a.reviewer # book[r].created_by
<1> DEFINE given == {a \in approvals : a.rule = r /\ a.decision = "approved"}
<1>1. Cardinality(given) = 2 /\ \A a \in given : a.reviewer # book[r].created_by
  BY DEF Reviewed
<1> SUFFICES \E a \in given : a.role = role
  BY <1>1
<1> SUFFICES ASSUME \A a \in given : a.role # role PROVE FALSE
  OBVIOUS
<1>2. \A a, b \in given : a.role = b.role
  BY DEF IInv, Typed, Roles
<1>3. \A a, b \in given : a = b
  BY <1>2 DEF IInv, OneReview
<1> HIDE DEF given
<1>4. Cardinality(given) \in {0, 1}
  BY <1>3, AllEqual
<1> QED BY <1>1, <1>4

LEMMA ApproveStep ==
  ASSUME IInv, NEW r \in Rules, Approve(r)
  PROVE  IInv'
<1>1. Typed'
  BY DEF IInv, Typed, Approve, RowType
<1>2. /\ Approved' = Approved \cup {r}
      /\ \A q \in Rules : /\ book'[q].system_from = book[q].system_from
                          /\ book'[q].system_to = book[q].system_to
                          /\ book'[q].created_by = book[q].created_by
  BY DEF IInv, Typed, Approve, Approved, RowType
<1>3. OneReview'
  BY DEF IInv, OneReview, Approve
<1>4. OneRuleInForce'
  <2>1. \A p, q \in Rules : Excluded(p, q)' <=> Excluded(p, q)
    BY <1>2 DEF Excluded, OverlapSystem
  <2>2. \A q \in Approved : ~Excluded(r, q) /\ ~Excluded(q, r)
    BY DEF Approve, Excluded, SameKey, OverlapValid, OverlapSystem
  <2>3. Approved \subseteq Rules
    BY DEF Approved
  <2> QED BY <1>2, <2>1, <2>2, <2>3 DEF IInv, OneRuleInForce
<1>5. IndependentApproval'
  <2>1. Reviewed(r) /\ approvals' = approvals
    BY DEF Approve
  <2>2. Approved \subseteq Rules
    BY DEF Approved
  <2> QED BY <1>2, <2>1, <2>2, BothRoles DEF IInv, IndependentApproval
<1>6. Calculations'
  BY RequestsApart DEF IInv, Approve
<1> QED BY <1>1, <1>3, <1>4, <1>5, <1>6 DEF IInv

\* A system period that ends meets no more periods than one that does not.
LEMMA SupersedeStep ==
  ASSUME IInv, NEW r \in Rules, Supersede(r)
  PROVE  IInv'
<1>1. Typed'
  BY DEF IInv, Typed, Supersede, RowType
<1>2. /\ Approved' = Approved
      /\ \A q \in Rules : /\ book'[q].system_from = book[q].system_from
                          /\ book'[q].created_by = book[q].created_by
                          /\ q # r => book'[q].system_to = book[q].system_to
  BY DEF IInv, Typed, Supersede, Approved, RowType
<1>3. OneReview'
  BY DEF IInv, OneReview, Supersede
<1>4. OneRuleInForce'
  <2>1. book[r].system_to = Open
    BY DEF Supersede
  <2>2. \A p, q \in Rules : Excluded(p, q)' => Excluded(p, q)
    BY <1>2, <2>1 DEF Excluded, OverlapSystem, Before
  <2>3. Approved \subseteq Rules
    BY DEF Approved
  <2> QED BY <1>2, <2>2, <2>3 DEF IInv, OneRuleInForce
<1>5. IndependentApproval'
  <2>1. Approved \subseteq Rules /\ approvals' = approvals
    BY DEF Approved, Supersede
  <2> QED BY <1>2, <2>1 DEF IInv, IndependentApproval
<1>6. Calculations'
  BY RequestsApart DEF IInv, Supersede
<1> QED BY <1>1, <1>3, <1>4, <1>5, <1>6 DEF IInv

-----------------------------------------------------------------------------
(* Requests.                                                               *)

\* A step of a request that leaves the book alone and keeps what it holds.
LEMMA RequestStep ==
  ASSUME IInv, UNCHANGED <<now, book, approvals>>, DOMAIN job' = Clients, Calculations'
  PROVE  IInv'
<1>1. Typed'
  BY DEF IInv, Typed
<1>2. OneReview' /\ OneRuleInForce' /\ IndependentApproval'
  BY DEF IInv, OneReview, OneRuleInForce, IndependentApproval, Approved,
         Excluded, OverlapSystem
<1> QED BY <1>1, <1>2 DEF IInv

\* The rows of the rules in force are free of overlaps.
LEMMA BookExclusive ==
  ASSUME IInv
  PROVE  RowsTyped(Book) /\ Exclusive(Book)
<1>1. Approved \subseteq Rules
  BY DEF Approved
<1>2. RowsTyped(Book)
  <2> SUFFICES ASSUME NEW r \in Approved
               PROVE  /\ Row(r).valid_from \in Int /\ Row(r).valid_to \in Int
                      /\ Row(r).system_from \in Nat /\ Row(r).system_to \in Nat \cup {Open}
    BY DEF RowsTyped, Book
  <2>1. r \in Rules /\ book[r] \in RowType
    BY <1>1 DEF IInv, Typed
  <2>2. Content[r].valid_from \in Int /\ Content[r].valid_to \in Int
    BY <2>1, RulesAssumption DEF RulesAssumption
  <2> QED BY <2>1, <2>2 DEF Row, RowType
<1>3. Exclusive(Book)
  <2> SUFFICES ASSUME NEW x \in Book, NEW y \in Book, x.use = y.use, x.key = y.key,
                      x.valid_from < y.valid_to, y.valid_from < x.valid_to,
                      Before(x.system_from, y.system_to),
                      Before(y.system_from, x.system_to)
               PROVE  x = y
    BY DEF Exclusive
  <2>1. PICK r \in Approved : x = Row(r)
    BY DEF Book
  <2>2. PICK s \in Approved : y = Row(s)
    BY DEF Book
  <2>3. Excluded(r, s)
    BY <2>1, <2>2 DEF Row, Excluded, SameKey, OverlapValid, OverlapSystem
  <2> QED BY <2>1, <2>2, <2>3 DEF IInv, OneRuleInForce
<1> QED BY <1>2, <1>3

\* And so is what load_approved_rules returns of them.
LEMMA LoadedExclusive ==
  ASSUME IInv, NEW req
  PROVE  RowsTyped(Loaded(req)) /\ Exclusive(Loaded(req))
<1>1. Loaded(req) \subseteq Book
  BY DEF Loaded, Book
<1> QED BY <1>1, BookExclusive DEF RowsTyped, Exclusive

LEMMA LoadStep ==
  ASSUME IInv, NEW c \in Clients, NEW req, WellFormed(req), Load(c, req)
  PROVE  IInv'
<1> DEFINE j == [phase |-> "computed", req |-> req, rules |-> Loaded(req),
                 result |-> Calculate(req, Loaded(req)), began |-> now]
<1>1. /\ job' = [job EXCEPT ![c] = j]
      /\ UNCHANGED <<now, book, approvals, stored>>
  BY DEF Load
<1>2. Ready(j)
  BY LoadedExclusive DEF Ready
<1> HIDE DEF j
<1>3. DOMAIN job' = Clients /\ \A d \in Clients : job'[d] = j \/ job'[d] = job[d]
  BY <1>1 DEF IInv, Typed
<1>4. Calculations'
  <2>1. \A d \in Clients : Ready(job'[d])
    BY <1>2, <1>3 DEF IInv, Calculations
  <2> QED BY <1>1, <2>1 DEF IInv, Calculations
<1> QED BY <1>1, <1>3, <1>4, RequestStep

LEMMA ReplayWellFormed ==
  ASSUME IInv, NEW k \in DOMAIN stored, NEW i \in Interpretations
  PROVE  WellFormed(Reread(k, i))
<1>1. WellFormed(k)
  BY DEF IInv, Calculations
<1>2. i.at \in Int \cup {Open} /\ (i.mode = "original" => i.at # Open)
  <2>1. \A t \in 0..MaxTime : t \in Int /\ t # Open
    BY CalendarAssumption DEF CalendarAssumption
  <2> QED BY <2>1 DEF Interpretations
<1> QED BY <1>1, <1>2 DEF WellFormed, Reread, Inside

LEMMA FindStep ==
  ASSUME IInv, NEW c \in Clients, Find(c)
  PROVE  IInv'
<1>1. job[c].phase = "computed" /\ UNCHANGED <<now, book, approvals, stored>>
  BY DEF Find
<1>2. Ready([job[c] EXCEPT !.phase = "missed"])
  <2>1. job[c] # Idle
    BY <1>1, ReadyIdle
  <2>2. /\ job[c] = [phase |-> job[c].phase, req |-> job[c].req, rules |-> job[c].rules,
                     result |-> job[c].result, began |-> job[c].began]
        /\ WellFormed(job[c].req)
        /\ RowsTyped(job[c].rules) /\ Exclusive(job[c].rules)
    BY <2>1 DEF IInv, Calculations, Ready
  <2>3. PICK m : m = [job[c] EXCEPT !.phase = "missed"]
    OBVIOUS
  <2>4. m = [phase |-> "missed", req |-> job[c].req, rules |-> job[c].rules,
             result |-> job[c].result, began |-> job[c].began]
    BY <2>2, <2>3
  <2> QED BY <2>2, <2>3, <2>4 DEF Ready
<1> DEFINE next == IF job[c].req \in DOMAIN stored THEN Idle
                   ELSE [job[c] EXCEPT !.phase = "missed"]
<1>3. job' = [job EXCEPT ![c] = next]
  BY DEF Find
<1>4. Ready(next)
  BY <1>2, ReadyIdle
<1> HIDE DEF next
<1>5. DOMAIN job' = Clients /\ \A d \in Clients : job'[d] = next \/ job'[d] = job[d]
  BY <1>3 DEF IInv, Typed
<1>6. Calculations'
  BY <1>1, <1>4, <1>5 DEF IInv, Calculations
<1> QED BY <1>1, <1>5, <1>6, RequestStep

LEMMA SaveStep ==
  ASSUME IInv, NEW c \in Clients, Save(c)
  PROVE  IInv'
<1>1. /\ job' = [job EXCEPT ![c] = Idle]
      /\ UNCHANGED <<now, book, approvals>>
      /\ job[c].phase = "missed"
  BY DEF Save
<1>2. WellFormed(job[c].req)
  BY <1>1, ReadyIdle DEF IInv, Calculations, Ready
<1>3. \A k \in DOMAIN stored' : k \in DOMAIN stored \/ k = job[c].req
  BY DEF Save
<1>4. DOMAIN job' = Clients /\ \A d \in Clients : job'[d] = Idle \/ job'[d] = job[d]
  BY <1>1 DEF IInv, Typed
<1>5. Calculations'
  <2>1. \A d \in Clients : Ready(job'[d])
    BY <1>4, ReadyIdle DEF IInv, Calculations
  <2>2. \A k \in DOMAIN stored' : WellFormed(k)
    BY <1>2, <1>3 DEF IInv, Calculations
  <2> QED BY <2>1, <2>2 DEF Calculations
<1> QED BY <1>1, <1>4, <1>5, RequestStep

-----------------------------------------------------------------------------
(* The theorems about the specification.                                   *)

LEMMA NextInv ==
  ASSUME IInv, [Next]_vars
  PROVE  IInv'
<1>1. CASE Tick
  BY <1>1, TickStep
<1>2. ASSUME NEW r \in Rules, NEW maker \in Makers, Draft(r, maker) PROVE IInv'
  BY <1>2, DraftStep
<1>3. ASSUME NEW r \in Rules, NEW role \in Roles, NEW verdict \in Verdicts[r],
             Review(r, role, verdict)
      PROVE  IInv'
  BY <1>3, ReviewStep
<1>4. ASSUME NEW r \in Rules, Approve(r) PROVE IInv'
  BY <1>4, ApproveStep
<1>5. ASSUME NEW r \in Rules, Supersede(r) PROVE IInv'
  BY <1>5, SupersedeStep
<1>6. ASSUME NEW c \in Clients, Ask(c) PROVE IInv'
  BY <1>6, LoadStep, RulesAssumption DEF Ask, RulesAssumption
<1>7. ASSUME NEW c \in Clients, Replay(c) PROVE IInv'
  BY <1>7, LoadStep, ReplayWellFormed DEF Replay
<1>8. ASSUME NEW c \in Clients, Find(c) PROVE IInv'
  BY <1>8, FindStep
<1>9. ASSUME NEW c \in Clients, Save(c) PROVE IInv'
  BY <1>9, SaveStep
<1>10. CASE UNCHANGED vars
  <2>1. Calculations'
    BY <1>10, RequestsApart DEF IInv, vars
  <2>2. DOMAIN job' = Clients
    BY <1>10 DEF IInv, Typed, vars
  <2> QED BY <1>10, <2>1, <2>2, RequestStep DEF vars
<1> QED BY <1>1, <1>2, <1>3, <1>4, <1>5, <1>6, <1>7, <1>8, <1>9, <1>10 DEF Next

\* The book, its approvals and the requests in flight keep their invariant.
THEOREM InvariantHolds == Spec => []IInv
<1>1. Init => IInv
  BY InitInv
<1>2. IInv /\ [Next]_vars => IInv'
  BY NextInv
<1> QED BY <1>1, <1>2, PTL DEF Spec

\* Every row, approval and request has its type.
THEOREM TypeCorrect == Spec => []TypeOK
<1>1. IInv => TypeOK
  <2> SUFFICES ASSUME IInv PROVE TypeOK
    OBVIOUS
  <2>1. \A c \in Clients : job[c].phase \in {"idle", "computed", "missed"}
    BY ReadyIdle DEF IInv, Calculations, Ready
  <2> QED BY <2>1 DEF IInv, Typed, RowType, TypeOK
<1> QED BY <1>1, InvariantHolds, PTL

\* Approved rules of one component and key never share a day and a moment:
\* closing a system period and approving what does not overlap keep it so.
THEOREM RulesExclude == Spec => []OneRuleInForce
<1>1. IInv => OneRuleInForce
  BY DEF IInv
<1> QED BY <1>1, InvariantHolds, PTL

\* No rule is approved without a Finance and a Legal approval by somebody
\* other than its maker.
THEOREM ApprovalsIndependent == Spec => []IndependentApproval
<1>1. IInv => IndependentApproval
  BY DEF IInv
<1> QED BY <1>1, InvariantHolds, PTL

\* Two rules that match a segment are in force together, so they are one.
LEMMA MatchesAgree ==
  ASSUME NEW rules, RowsTyped(rules), Exclusive(rules), NEW req, WellFormed(req),
         NEW use, NEW facts, NEW s, s[1] \in Int, s[2] \in Int, s[1] < s[2],
         NEW x \in Matches(rules, use, facts, s, req),
         NEW y \in Matches(rules, use, facts, s, req)
  PROVE  x = y
<1>1. x \in rules /\ y \in rules /\ x.use = y.use /\ x.key = y.key
  BY DEF Matches
<1>2. /\ x.valid_from \in Int /\ x.valid_to \in Int
      /\ y.valid_from \in Int /\ y.valid_to \in Int
      /\ x.system_from \in Nat /\ x.system_to \in Nat \cup {Open}
      /\ y.system_from \in Nat /\ y.system_to \in Nat \cup {Open}
  BY <1>1 DEF RowsTyped
<1>3. x.valid_from < y.valid_to /\ y.valid_from < x.valid_to
  BY <1>2 DEF Matches
<1>4. Before(x.system_from, y.system_to) /\ Before(y.system_from, x.system_to)
  <2>1. OnRecord(x, req) /\ OnRecord(y, req)
    BY DEF Matches
  <2>2. CASE req.mode = "current"
    BY <2>1, <2>2 DEF OnRecord, Before
  <2>3. CASE req.mode = "original"
    <3>1. req.at \in Int
      BY <2>3 DEF WellFormed
    <3> QED BY <1>2, <2>1, <2>3, <3>1 DEF OnRecord, Before
  <2> QED BY <2>1, <2>2, <2>3 DEF OnRecord
<1> QED BY <1>1, <1>3, <1>4 DEF Exclusive

\* A request never finds two rules for a component and a segment, however
\* the book changed while it ran: a calculation that asks for review lacks
\* a rule, it is not ambiguous.
THEOREM Unambiguous == Spec => []NeverAmbiguous
<1>1. IInv => NeverAmbiguous
  <2> SUFFICES ASSUME IInv, NEW c \in Clients, job[c] # Idle,
                      NEW use \in Uses(job[c].req),
                      NEW s \in Segments(job[c].req, job[c].rules)
               PROVE  Cardinality(Matches(job[c].rules, use,
                                          FactsOn(job[c].req, s[1]), s, job[c].req)) <= 1
    BY DEF NeverAmbiguous, Results
  <2> DEFINE M == Matches(job[c].rules, use, FactsOn(job[c].req, s[1]), s, job[c].req)
  <2>1. WellFormed(job[c].req) /\ RowsTyped(job[c].rules) /\ Exclusive(job[c].rules)
    BY DEF IInv, Calculations, Ready
  <2>2. s[1] \in Int /\ s[2] \in Int /\ s[1] < s[2]
    BY <2>1, SegmentShape DEF RowsTyped, DatedRows
  <2>3. \A x, y \in M : x = y
    BY <2>1, <2>2, MatchesAgree
  <2> HIDE DEF M
  <2>4. Cardinality(M) \in {0, 1}
    BY <2>3, AllEqual
  <2>5. Cardinality(M) <= 1
    BY <2>4
  <2> QED BY <2>5 DEF M
<1> QED BY <1>1, InvariantHolds, PTL

-----------------------------------------------------------------------------
(* Bills as recorded at an earlier moment.                                 *)

\* The row of r decides the component in the segment p.
Decides(r, use, p, req) == Row(r) \in Matches({Row(r)}, use, p.facts, p.period, req)

\* What a request computed at t from the book as of a moment before t is
\* decided by rows that are still approved and still on record then.
Decided(req, result, t) ==
  /\ t \in Nat /\ t <= now
  /\ req.mode = "original" /\ req.at < t =>
       \A p \in result.parts :
         /\ p.period[1] \in Int /\ p.period[2] \in Int /\ p.period[1] < p.period[2]
         /\ \A use \in Uses(req) :
              \E r \in Approved : r = p.rules[use].rule_id /\ Decides(r, use, p, req)

RecordedInv ==
  /\ \A c \in Clients : job[c] # Idle => Decided(job[c].req, job[c].result, job[c].began)
  /\ \A k \in DOMAIN stored : Decided(k, stored[k].result, stored[k].completed_at)

\* What may become of the book: rules in force stay there, and a system
\* period is closed only in the present.
BookGrows ==
  /\ now <= now'
  /\ \A r \in Approved :
       /\ r \in Approved'
       /\ book'[r].system_from = book[r].system_from
       /\ \/ book'[r].system_to = book[r].system_to
          \/ book[r].system_to = Open /\ book'[r].system_to = now

\* Then what is decided as of the past stays decided.
LEMMA DecidedStays ==
  ASSUME IInv, IInv', BookGrows, NEW req, WellFormed(req), NEW result, NEW t,
         Decided(req, result, t)
  PROVE  Decided(req, result, t)'
<1>1. now \in Nat /\ now' \in Nat /\ t \in Nat /\ t <= now /\ t <= now'
  BY DEF IInv, Typed, Decided, BookGrows
<1>2. ASSUME req.mode = "original", req.at < t, NEW p, NEW use, NEW r \in Approved,
             Decides(r, use, p, req)
      PROVE  r \in Approved' /\ Decides(r, use, p, req)'
  <2>1. r \in Approved' /\ r \in Rules /\ book[r] \in RowType
    BY DEF BookGrows, IInv, Typed, Approved
  <2>2. req.at \in Int
    BY <1>2 DEF WellFormed
  <2>3. OnRecord(Row(r), req)
    BY <1>2 DEF Decides, Matches
  <2>4. book[r].system_from <= req.at
        /\ (book[r].system_to = Open \/ book[r].system_to > req.at)
    BY <1>2, <2>3 DEF OnRecord, Row
  <2>5. book'[r].system_from <= req.at
        /\ (book'[r].system_to = Open \/ book'[r].system_to > req.at)
    BY <1>1, <1>2, <2>2, <2>4 DEF BookGrows
  <2>6. Decides(r, use, p, req)'
    BY <1>2, <2>5 DEF Decides, Matches, OnRecord, Row
  <2> QED BY <2>1, <2>6
<1> QED BY <1>1, <1>2 DEF Decided

\* Every step of the rules lets the book only grow.
LEMMA RulesGrow ==
  ASSUME IInv,
         \/ Tick
         \/ \E r \in Rules :
              \/ \E maker \in Makers : Draft(r, maker)
              \/ \E role \in Roles, verdict \in Verdicts[r] : Review(r, role, verdict)
              \/ Approve(r) \/ Supersede(r)
         \/ UNCHANGED <<now, book>>
  PROVE  BookGrows
<1> USE DEF BookGrows, IInv, Typed
<1>1. CASE Tick
  BY <1>1 DEF Tick, Approved
<1>2. ASSUME NEW r \in Rules, NEW maker, Draft(r, maker) PROVE BookGrows
  BY <1>2 DEF Draft, Approved
<1>3. ASSUME NEW r \in Rules, NEW role, NEW verdict, Review(r, role, verdict) PROVE BookGrows
  BY <1>3 DEF Review, Approved
<1>4. ASSUME NEW r \in Rules, Approve(r) PROVE BookGrows
  BY <1>4 DEF Approve, Approved, RowType
<1>5. ASSUME NEW r \in Rules, Supersede(r) PROVE BookGrows
  BY <1>5 DEF Supersede, Approved, RowType
<1>6. CASE UNCHANGED <<now, book>>
  BY <1>6 DEF Approved
<1> QED BY <1>1, <1>2, <1>3, <1>4, <1>5, <1>6

\* A completed part names, for each component, a rule it loaded and that
\* matches its facts and its segment.
LEMMA PartOfResult ==
  ASSUME NEW req, NEW rules, NEW p \in Calculate(req, rules).parts, NEW use \in Uses(req)
  PROVE  p.period \in Segments(req, rules)
         /\ p.rules[use] \in Matches(rules, use, p.facts, p.period, req)
<1> DEFINE facts == FactsFrom(req, rules)
<1>1. \A s \in Segments(req, rules) : Calculable(rules, facts[s[1]], s, req)
  BY DEF Calculate
<1>2. PICK s \in Segments(req, rules) : p = CalculateSegment(rules, facts[s[1]], s, req)
  BY DEF Calculate
<1>3. p.period = s /\ p.facts = facts[s[1]] /\ p.rules = RulesOf(rules, facts[s[1]], s, req)
  BY <1>2 DEF CalculateSegment
<1> DEFINE M == Matches(rules, use, facts[s[1]], s, req)
<1>4. M # {}
  BY <1>1, FS_EmptySet DEF Calculable, Resolves
<1>5. M \subseteq rules
  BY DEF Matches
<1>6. p.rules[use] = CHOOSE r \in rules : r \in M
  BY <1>3 DEF RulesOf
<1> HIDE DEF M, facts
<1>7. p.rules[use] \in M
  BY <1>4, <1>5, <1>6
<1> QED BY <1>3, <1>7 DEF M

\* What is computed now is decided by the rows it was computed from.
LEMMA LoadedDecides ==
  ASSUME IInv, NEW req, WellFormed(req)
  PROVE  Decided(req, Calculate(req, Loaded(req)), now)
<1> DEFINE rows == Loaded(req)
           result == Calculate(req, rows)
<1>1. RowsTyped(rows)
  BY LoadedExclusive
<1>2. ASSUME NEW p \in result.parts, NEW use \in Uses(req)
      PROVE  /\ p.period[1] \in Int /\ p.period[2] \in Int /\ p.period[1] < p.period[2]
             /\ \E r \in Approved : r = p.rules[use].rule_id /\ Decides(r, use, p, req)
  <2>1. p.period \in Segments(req, rows)
        /\ p.rules[use] \in Matches(rows, use, p.facts, p.period, req)
    BY PartOfResult
  <2>2. p.period[1] \in Int /\ p.period[2] \in Int /\ p.period[1] < p.period[2]
    BY <1>1, <2>1, SegmentShape DEF RowsTyped, DatedRows
  <2>3. PICK r \in Approved : p.rules[use] = Row(r)
    BY <2>1 DEF Matches, Loaded
  <2>4. r = p.rules[use].rule_id
    BY <2>3 DEF Row
  <2>5. Decides(r, use, p, req)
    BY <2>1, <2>3 DEF Decides, Matches
  <2> QED BY <2>2, <2>4, <2>5
<1>3. Rent \in Uses(req)
  BY DEF Uses
<1>4. now \in Nat
  BY DEF IInv, Typed
<1> QED BY <1>2, <1>3, <1>4 DEF Decided

\* A computed result is stored as it is, and an answer changes nothing.
LEMMA RecordedStep ==
  ASSUME IInv, IInv', RecordedInv, [Next]_vars
  PROVE  RecordedInv'
<1>1. BookGrows
  BY RulesGrow DEF Next, vars, Ask, Replay, Load, Find, Save
<1>2. ASSUME NEW c \in Clients, NEW j, j = job[c], j # Idle
      PROVE  WellFormed(j.req) /\ Decided(j.req, j.result, j.began)'
  <2>1. WellFormed(j.req) /\ Decided(j.req, j.result, j.began)
    BY <1>2 DEF RecordedInv, IInv, Calculations, Ready
  <2> QED BY <1>1, <2>1, DecidedStays
<1>3. ASSUME NEW k \in DOMAIN stored, NEW x, x = stored[k]
      PROVE  Decided(k, x.result, x.completed_at)'
  <2>1. WellFormed(k) /\ Decided(k, x.result, x.completed_at)
    BY <1>3 DEF RecordedInv, IInv, Calculations
  <2> QED BY <1>1, <2>1, DecidedStays
<1>4. CASE UNCHANGED <<job, stored>>
  BY <1>2, <1>3, <1>4 DEF RecordedInv
<1>5. ASSUME NEW c \in Clients, NEW req, WellFormed(req), Load(c, req) PROVE RecordedInv'
  <2>1. PICK j : j = [phase |-> "computed", req |-> req, rules |-> Loaded(req),
                      result |-> Calculate(req, Loaded(req)), began |-> now]
    OBVIOUS
  <2>2. job' = [job EXCEPT ![c] = j] /\ UNCHANGED <<now, book, stored>>
    BY <1>5, <2>1 DEF Load
  <2>3. Decided(j.req, j.result, j.began)
    BY <1>5, <2>1, LoadedDecides
  <2>4. WellFormed(j.req)
    BY <1>5, <2>1
  <2>5. Decided(j.req, j.result, j.began)'
    BY <1>1, <2>3, <2>4, DecidedStays
  <2>6. ASSUME NEW d \in Clients, NEW i, i = job'[d], i # Idle
        PROVE  Decided(i.req, i.result, i.began)'
    <3>1. i = j \/ i = job[d]
      BY <2>2, <2>6 DEF IInv, Typed
    <3> QED BY <1>2, <2>5, <2>6, <3>1
  <2>7. \A d \in Clients : job'[d] # Idle => Decided(job[d].req, job[d].result, job[d].began)'
    BY <2>6
  <2> QED BY <1>3, <2>2, <2>7 DEF RecordedInv
<1>6. ASSUME NEW c \in Clients, Find(c) PROVE RecordedInv'
  <2>1. UNCHANGED stored
        /\ job' = [job EXCEPT ![c] = IF job[c].req \in DOMAIN stored THEN Idle
                                     ELSE [job[c] EXCEPT !.phase = "missed"]]
    BY <1>6 DEF Find
  <2>2. ASSUME NEW d \in Clients, NEW i, i = job'[d], i # Idle
        PROVE  Decided(i.req, i.result, i.began)'
    <3>1. PICK j : j = job[d]
      OBVIOUS
    <3>2. CASE i = j
      BY <1>2, <2>2, <3>1, <3>2
    <3>3. CASE i # j
      <4>1. d = c /\ i = [j EXCEPT !.phase = "missed"]
        BY <2>1, <2>2, <3>1, <3>3 DEF IInv, Typed
      <4>2. j.phase = "computed"
        BY <1>6, <3>1, <4>1 DEF Find
      <4>3. j # Idle
        BY <4>2 DEF Idle
      <4>4. i.req = j.req /\ i.result = j.result /\ i.began = j.began
        <5>1. j = [phase |-> j.phase, req |-> j.req, rules |-> j.rules,
                   result |-> j.result, began |-> j.began]
          BY <3>1, <4>3 DEF IInv, Calculations, Ready
        <5> QED BY <4>1, <5>1
      <4> QED BY <1>2, <3>1, <4>3, <4>4
    <3> QED BY <3>2, <3>3
  <2>3. \A d \in Clients : job'[d] # Idle => Decided(job[d].req, job[d].result, job[d].began)'
    BY <2>2
  <2> QED BY <1>3, <2>1, <2>3 DEF RecordedInv
<1>7. ASSUME NEW c \in Clients, Save(c) PROVE RecordedInv'
  <2>1. PICK j : j = job[c]
    OBVIOUS
  <2>2. j # Idle /\ job' = [job EXCEPT ![c] = Idle]
    BY <1>7, <2>1 DEF Save, Idle
  <2>3. ASSUME NEW d \in Clients, NEW i, i = job'[d], i # Idle
        PROVE  Decided(i.req, i.result, i.began)'
    BY <1>2, <2>2, <2>3 DEF IInv, Typed
  <2>4. ASSUME NEW k \in DOMAIN stored', NEW x, x = stored'[k]
        PROVE  Decided(k, x.result, x.completed_at)'
    <3>1. CASE k \in DOMAIN stored /\ x = stored[k]
      BY <1>3, <3>1
    <3>2. CASE ~(k \in DOMAIN stored /\ x = stored[k])
      <4>1. k = j.req /\ x = [result |-> j.result, completed_at |-> j.began]
        BY <1>7, <2>1, <2>4, <3>2 DEF Save
      <4> QED BY <1>2, <2>1, <2>2, <4>1
    <3> QED BY <3>1, <3>2
  <2>5. /\ \A d \in Clients :
             job'[d] # Idle => Decided(job[d].req, job[d].result, job[d].began)'
        /\ (\A k \in DOMAIN stored : Decided(k, stored[k].result, stored[k].completed_at))'
    BY <2>3, <2>4
  <2> QED BY <2>5 DEF RecordedInv
<1>8. ASSUME NEW c \in Clients, Ask(c) PROVE RecordedInv'
  BY <1>5, <1>8, RulesAssumption DEF Ask, RulesAssumption
<1>9. ASSUME NEW c \in Clients, Replay(c) PROVE RecordedInv'
  BY <1>5, <1>9, ReplayWellFormed DEF Replay
<1> QED BY <1>4, <1>6, <1>7, <1>8, <1>9
        DEF Next, Tick, Draft, Review, Approve, Supersede, vars

\* What is calculated as of the past is resolved alike for ever: the row it
\* used stays approved and on record at that moment, and the exclusion of
\* rules, approved late ones among them, leaves no second one.
THEOREM RecordedBillsStand == Spec => []RecordedStands
<1>1. Init => RecordedInv
  BY DEF Init, RecordedInv
<1>2. IInv /\ IInv' /\ RecordedInv /\ [Next]_vars => RecordedInv'
  BY RecordedStep
<1>3. IInv /\ RecordedInv => RecordedStands
  <2> SUFFICES ASSUME IInv, RecordedInv, NEW k \in DOMAIN stored,
                      k.mode = "original", k.at < stored[k].completed_at,
                      NEW p \in stored[k].result.parts, NEW use \in Uses(k)
               PROVE  {r.rule_id : r \in Matches(Book, use, p.facts, p.period, k)}
                        = {p.rules[use].rule_id}
    BY DEF RecordedStands
  <2> DEFINE M == Matches(Book, use, p.facts, p.period, k)
  <2>1. p.period[1] \in Int /\ p.period[2] \in Int /\ p.period[1] < p.period[2]
    BY DEF RecordedInv, Decided
  <2>2. PICK r \in Approved : r = p.rules[use].rule_id /\ Decides(r, use, p, k)
    BY DEF RecordedInv, Decided
  <2>3. Row(r) \in M /\ Row(r).rule_id = p.rules[use].rule_id
    BY <2>2 DEF Decides, Matches, Book, Row
  <2>4. RowsTyped(Book) /\ Exclusive(Book) /\ WellFormed(k)
    BY BookExclusive DEF IInv, Calculations
  <2>5. \A x, y \in M : x = y
    BY <2>1, <2>4, MatchesAgree
  <2> HIDE DEF M
  <2>6. M = {Row(r)}
    BY <2>3, <2>5
  <2> QED BY <2>3, <2>6 DEF M
<1> QED BY <1>1, <1>2, <1>3, InvariantHolds, PTL DEF Spec

-----------------------------------------------------------------------------
(* The facts of a segment.                                                 *)

\* The greatest of a bounded set of integers.
LEMMA MaxIs ==
  ASSUME NEW S \in SUBSET Int, NEW m \in S, \A x \in S : x <= m
  PROVE  Max(S) = m
<1>1. \A x \in S : (\A y \in S : x >= y) <=> x = m
  OBVIOUS
<1> QED BY <1>1, Zenon DEF Max

\* What facts[d] is made of in FactsFrom, with those of the earlier cuts in h.
Carried(h, d, req, rules) ==
  LET before == {c \in Boundaries(req, rules) : c < d}
      so_far == IF before = {} THEN req.facts ELSE h[Max(before)]
  IN  IF d \in DOMAIN req.changes THEN ApplyChange(so_far, req.changes[d]) ELSE so_far

\* The facts a day has been told, and the latest of them.
Told(req, day, f) == {c \in DOMAIN req.changes : c <= day /\ f \in DOMAIN req.changes[c]}

\* Days on which facts change are boundaries, inside the period.
LEMMA ChangesAreCuts ==
  ASSUME NEW req, NEW rules, WellFormed(req)
  PROVE  /\ DOMAIN req.changes \subseteq Boundaries(req, rules)
         /\ \A d \in DOMAIN req.changes : d \in Int /\ req.from < d /\ d < req.to
BY DEF Boundaries, WellFormed, Inside

\* Facts change on the days of changes alone.
LEMMA ToldBetween ==
  ASSUME NEW req, NEW rules, WellFormed(req), DatedRows(rules),
         NEW a \in Boundaries(req, rules), NEW b \in Int, a <= b,
         \A c \in Boundaries(req, rules) : ~(a < c /\ c <= b)
  PROVE  FactsOn(req, b) = FactsOn(req, a)
<1>1. a \in Int
  BY BoundariesInPeriod
<1>2. \A c \in DOMAIN req.changes : c <= a <=> c <= b
  BY <1>1, ChangesAreCuts
<1>3. ASSUME NEW f PROVE Told(req, a, f) = Told(req, b, f)
  BY <1>2 DEF Told
<1> QED BY <1>3, Zenon DEF FactsOn, Told

\* If the earlier cuts have the facts of their days, so has this one.
LEMMA CarriedIsFactsOn ==
  ASSUME NEW req, NEW rules, WellFormed(req), DatedRows(rules), NEW h,
         NEW d \in Boundaries(req, rules),
         \A c \in Boundaries(req, rules) : c < d => h[c] = FactsOn(req, c)
  PROVE  Carried(h, d, req, rules) = FactsOn(req, d)
<1> DEFINE cuts == Boundaries(req, rules)
           before == {c \in cuts : c < d}
           so_far == IF before = {} THEN req.facts ELSE h[Max(before)]
<1>1. /\ cuts \in SUBSET Int /\ d \in Int /\ req.from \in Int
      /\ req.from \in cuts /\ \A c \in cuts : req.from <= c
  BY BoundariesInPeriod
<1>2. DOMAIN req.changes \subseteq cuts
      /\ \A c \in DOMAIN req.changes : c \in Int /\ req.from < c
  BY ChangesAreCuts
<1>3. req.facts = [f \in DOMAIN req.facts |-> req.facts[f]]
  BY DEF WellFormed, LeaseFacts
<1>4. /\ DOMAIN so_far = DOMAIN req.facts
      /\ so_far = [f \in DOMAIN req.facts |-> so_far[f]]
      /\ \A f \in DOMAIN req.facts :
           so_far[f] = LET told == Told(req, d, f) \ {d}
                       IN  IF told = {} THEN req.facts[f] ELSE req.changes[Max(told)][f]
  <2>1. CASE before = {}
    <3>1. d = req.from
      BY <1>1, <2>1
    <3>2. \A f : Told(req, d, f) = {}
      BY <1>1, <1>2, <3>1 DEF Told
    <3>3. so_far = req.facts
      BY <2>1
    <3> HIDE DEF so_far
    <3>4. \A f : Told(req, d, f) \ {d} = {}
      BY <3>2
    <3> QED BY <1>3, <3>3, <3>4
  <2>2. CASE before # {}
    <3>1. before \in SUBSET Int /\ \A c \in before : c <= d
      BY <1>1
    <3>2. PICK m \in before : \A c \in before : c <= m
      <4> HIDE DEF before
      <4> QED BY <1>1, <2>2, <3>1, LargestExists
    <3>3. Max(before) = m
      <4> HIDE DEF before
      <4> QED BY <3>1, <3>2, MaxIs
    <3>4. m \in cuts /\ m < d /\ so_far = FactsOn(req, m)
      BY <2>2, <3>2, <3>3
    <3>5. \A c \in DOMAIN req.changes : c <= m <=> (c <= d /\ c # d)
      BY <1>1, <1>2, <3>2, <3>4
    <3>6. \A f : Told(req, m, f) = Told(req, d, f) \ {d}
      BY <3>5 DEF Told
    <3> HIDE DEF so_far
    <3>7. /\ DOMAIN so_far = DOMAIN req.facts
          /\ so_far = [f \in DOMAIN req.facts |-> so_far[f]]
          /\ \A f \in DOMAIN req.facts :
               so_far[f] = IF Told(req, m, f) = {} THEN req.facts[f]
                           ELSE req.changes[Max(Told(req, m, f))][f]
      BY <3>4 DEF FactsOn, Told
    <3> QED BY <3>6, <3>7
  <2> QED BY <2>1, <2>2
<1>5. Carried(h, d, req, rules)
        = IF d \in DOMAIN req.changes THEN ApplyChange(so_far, req.changes[d]) ELSE so_far
  BY DEF Carried
<1> HIDE DEF so_far
<1>6. ASSUME NEW f \in DOMAIN req.facts
      PROVE  LET x == IF d \in DOMAIN req.changes /\ f \in DOMAIN req.changes[d]
                      THEN req.changes[d][f] ELSE so_far[f]
             IN  x = IF Told(req, d, f) = {} THEN req.facts[f]
                     ELSE req.changes[Max(Told(req, d, f))][f]
  <2>1. CASE d \in DOMAIN req.changes /\ f \in DOMAIN req.changes[d]
    <3>1. d \in Told(req, d, f) /\ Told(req, d, f) \in SUBSET Int
          /\ \A c \in Told(req, d, f) : c <= d
      BY <1>1, <1>2, <2>1 DEF Told
    <3>2. Max(Told(req, d, f)) = d
      BY <3>1, MaxIs
    <3> QED BY <2>1, <3>1, <3>2
  <2>2. CASE ~(d \in DOMAIN req.changes /\ f \in DOMAIN req.changes[d])
    <3>1. Told(req, d, f) \ {d} = Told(req, d, f)
      BY <2>2 DEF Told
    <3> QED BY <1>4, <2>2, <3>1
  <2> QED BY <2>1, <2>2
<1> DEFINE g == Carried(h, d, req, rules)
<1>7. /\ g = [f \in DOMAIN req.facts |-> g[f]]
      /\ \A f \in DOMAIN req.facts :
           g[f] = IF d \in DOMAIN req.changes /\ f \in DOMAIN req.changes[d]
                  THEN req.changes[d][f] ELSE so_far[f]
  <2>1. CASE d \in DOMAIN req.changes
    BY <1>4, <1>5, <2>1 DEF ApplyChange
  <2>2. CASE d \notin DOMAIN req.changes
    BY <1>4, <1>5, <2>2
  <2> QED BY <2>1, <2>2
<1> HIDE DEF g
<1>8. \A f \in DOMAIN req.facts :
        g[f] = IF Told(req, d, f) = {} THEN req.facts[f]
               ELSE req.changes[Max(Told(req, d, f))][f]
  BY <1>6, <1>7
<1>9. g = [f \in DOMAIN req.facts |->
             IF Told(req, d, f) = {} THEN req.facts[f]
             ELSE req.changes[Max(Told(req, d, f))][f]]
  BY <1>7, <1>8
<1> QED BY <1>9 DEF g, FactsOn, Told

\* However the dates of rules, changes and years cut the period, the facts
\* carried from segment to segment are those of the day a segment starts on
\* (RuleCalculationEngine._segments, _apply_change).
THEOREM FactsCarried ==
  ASSUME NEW req, NEW rules, WellFormed(req), DatedRows(rules),
         NEW day \in Boundaries(req, rules)
  PROVE  FactsFrom(req, rules)[day] = FactsOn(req, day)
<1> DEFINE cuts == Boundaries(req, rules)
           Solves(h) == h = [d \in cuts |-> Carried(h, d, req, rules)]
           all == [d \in cuts |-> FactsOn(req, d)]
<1>1. Solves(all)
  <2>1. \A d \in cuts : Carried(all, d, req, rules) = FactsOn(req, d)
    <3>1. \A c \in cuts : all[c] = FactsOn(req, c)
      OBVIOUS
    <3> HIDE DEF all
    <3> QED BY <3>1, CarriedIsFactsOn
  <2> QED BY <2>1
<1>2. FactsFrom(req, rules) = CHOOSE h : Solves(h)
  BY DEF FactsFrom, Carried
<1>3. Solves(FactsFrom(req, rules))
  <2> HIDE DEF Solves
  <2> QED BY <1>1, <1>2
<1> DEFINE facts == FactsFrom(req, rules)
<1> HIDE DEF facts
<1>4. \A d \in cuts : facts[d] = Carried(facts, d, req, rules)
  BY <1>3 DEF facts
<1> SUFFICES ASSUME facts[day] # FactsOn(req, day) PROVE FALSE
  BY DEF facts
<1> DEFINE bad == {d \in cuts : facts[d] # FactsOn(req, d)}
<1>5. PICK d \in bad : \A c \in bad : d <= c
  <2>1. bad \in SUBSET Int /\ bad # {} /\ \A c \in bad : req.from <= c
    BY BoundariesInPeriod
  <2>2. req.from \in Int
    BY DEF WellFormed
  <2> HIDE DEF bad
  <2> QED BY <2>1, <2>2, SmallestExists
<1>6. \A c \in cuts : c \in Int /\ (c < d => facts[c] = FactsOn(req, c))
  BY <1>5, BoundariesInPeriod
<1>7. Carried(facts, d, req, rules) = FactsOn(req, d)
  BY <1>5, <1>6, CarriedIsFactsOn
<1> QED BY <1>4, <1>5, <1>7

-----------------------------------------------------------------------------
(* Bills read one day at a time.                                           *)

\* The two ends of a segment are cuts, and no cut is between them.
LEMMA SegmentCuts ==
  ASSUME NEW req, NEW rules, WellFormed(req), DatedRows(rules), NEW s \in Segments(req, rules)
  PROVE  /\ s[1] \in Boundaries(req, rules) /\ s[2] \in Boundaries(req, rules)
         /\ s[1] \in Int /\ s[2] \in Int /\ s[1] < s[2]
         /\ req.from <= s[1] /\ s[2] <= req.to
         /\ \A c \in Boundaries(req, rules) : ~(s[1] < c /\ c < s[2])
BY BoundariesInPeriod DEF Segments, Consecutive

\* On every day of a segment the rules in force are those that match it.
LEMMA RulesOfDay ==
  ASSUME NEW req, NEW rules, WellFormed(req), RowsTyped(rules), NEW s \in Segments(req, rules),
         NEW day \in Int, Covers(s, day), NEW use
  PROVE  /\ FactsOn(req, day) = FactsOn(req, s[1])
         /\ RulesOn(rules, use, req, day) = Matches(rules, use, FactsOn(req, s[1]), s, req)
<1> DEFINE cuts == Boundaries(req, rules)
<1>1. DatedRows(rules)
  BY DEF RowsTyped, DatedRows
<1>2. /\ s[1] \in cuts /\ s[1] \in Int /\ s[2] \in Int /\ s[1] < s[2]
      /\ req.from <= s[1] /\ s[2] <= req.to
      /\ \A c \in cuts : ~(s[1] < c /\ c < s[2])
  BY <1>1, SegmentCuts
<1>3. s[1] <= day /\ day < s[2]
  BY DEF Covers
<1>4. FactsOn(req, day) = FactsOn(req, s[1])
  <2>1. \A c \in cuts : ~(s[1] < c /\ c <= day)
    BY <1>1, <1>2, <1>3, BoundariesInPeriod
  <2> QED BY <1>1, <1>2, <1>3, <2>1, ToldBetween
<1>5. ASSUME NEW r \in rules
      PROVE  r.valid_from <= day /\ day < r.valid_to <=> r.valid_from <= s[1] /\ r.valid_to >= s[2]
  <2>1. r.valid_from \in Int /\ r.valid_to \in Int
    BY DEF RowsTyped
  <2>2. \A d \in {r.valid_from, r.valid_to} : Inside(d, req) => d \in cuts
    BY DEF Boundaries
  <2>3. req.from \in Int /\ req.to \in Int
    BY DEF WellFormed
  <2>4. \A d \in {r.valid_from, r.valid_to} : ~(s[1] < d /\ d < s[2])
    BY <1>2, <2>1, <2>2, <2>3 DEF Inside
  <2> QED BY <1>2, <1>3, <2>1, <2>4
<1>6. RulesOn(rules, use, req, day) = Matches(rules, use, FactsOn(req, s[1]), s, req)
  BY <1>4, <1>5 DEF RulesOn, Matches
<1> QED BY <1>4, <1>6

\* A period has finitely many segments.
LEMMA FiniteSegments ==
  ASSUME NEW req, NEW rules, WellFormed(req), DatedRows(rules)
  PROVE  IsFiniteSet(Segments(req, rules))
<1> DEFINE cuts == Boundaries(req, rules)
<1>1. cuts \subseteq req.from .. req.to
  BY BoundariesInPeriod
<1>2. IsFiniteSet(req.from .. req.to)
  BY FS_Interval DEF WellFormed
<1>3. IsFiniteSet(cuts)
  BY <1>1, <1>2, FS_Subset
<1>4. IsFiniteSet(cuts \X cuts)
  BY <1>3, FS_Product
<1>5. Segments(req, rules) \subseteq cuts \X cuts
  BY DEF Segments, Consecutive
<1> QED BY <1>4, <1>5, FS_Subset

Part(s, req, rules) == CalculateSegment(rules, FactsFrom(req, rules)[s[1]], s, req)

\* A calculation that completes has one part per segment, with its facts
\* and the one rule that matches it for each component.
LEMMA CompletedParts ==
  ASSUME NEW req, NEW rules, WellFormed(req), RowsTyped(rules), Exclusive(rules),
         Calculate(req, rules).status = "completed"
  PROVE  /\ Calculate(req, rules).parts = {Part(s, req, rules) : s \in Segments(req, rules)}
         /\ \A s \in Segments(req, rules) :
              /\ Part(s, req, rules).period = s
              /\ Part(s, req, rules).facts = FactsOn(req, s[1])
              /\ \A use \in Uses(req) :
                   Matches(rules, use, FactsOn(req, s[1]), s, req)
                     = {Part(s, req, rules).rules[use]}
<1> DEFINE facts == FactsFrom(req, rules)
           part(s) == Part(s, req, rules)
<1>1. DatedRows(rules)
  BY DEF RowsTyped, DatedRows
<1>2. Calculate(req, rules).parts = {part(s) : s \in Segments(req, rules)}
  BY DEF Calculate, Part
<1>3. ASSUME NEW s \in Segments(req, rules)
      PROVE  /\ part(s).period = s /\ part(s).facts = FactsOn(req, s[1])
             /\ \A use \in Uses(req) :
                  Matches(rules, use, FactsOn(req, s[1]), s, req) = {part(s).rules[use]}
  <2>1. facts[s[1]] = FactsOn(req, s[1])
    BY <1>1, SegmentCuts, FactsCarried
  <2>2. part(s).period = s /\ part(s).facts = facts[s[1]]
    BY DEF CalculateSegment, Part
  <2>3. ASSUME NEW use \in Uses(req)
        PROVE  Matches(rules, use, facts[s[1]], s, req) = {part(s).rules[use]}
    <3>1. part(s) \in Calculate(req, rules).parts
      BY <1>2
    <3>2. part(s).rules[use] \in Matches(rules, use, part(s).facts, part(s).period, req)
      BY <3>1, PartOfResult
    <3> DEFINE M == Matches(rules, use, facts[s[1]], s, req)
    <3>3. part(s).rules[use] \in M
      BY <2>2, <3>2
    <3>4. s[1] \in Int /\ s[2] \in Int /\ s[1] < s[2]
      BY <1>1, SegmentCuts
    <3>5. \A x, y \in M : x = y
      BY <3>4, MatchesAgree
    <3> HIDE DEF M, part
    <3>6. M = {part(s).rules[use]}
      BY <3>3, <3>5
    <3> QED BY <3>6 DEF M
  <2> HIDE DEF facts, part
  <2> QED BY <2>1, <2>2, <2>3
<1> QED BY <1>2, <1>3

\* A completed bill is right on each of its days.
LEMMA CompletedByDay ==
  ASSUME NEW req, NEW rules, WellFormed(req), RowsTyped(rules), Exclusive(rules),
         Calculate(req, rules).status = "completed"
  PROVE  ByDay(req, rules, Calculate(req, rules))
<1> DEFINE part(s) == Part(s, req, rules)
           parts == Calculate(req, rules).parts
<1>1. parts = {part(s) : s \in Segments(req, rules)}
  BY CompletedParts
<1>2. \A s \in Segments(req, rules) :
        /\ part(s).period = s /\ part(s).facts = FactsOn(req, s[1])
        /\ \A use \in Uses(req) :
             Matches(rules, use, FactsOn(req, s[1]), s, req) = {part(s).rules[use]}
  BY CompletedParts
<1>3. DatedRows(rules)
  BY DEF RowsTyped, DatedRows
<1> HIDE DEF part
<1>4. ASSUME NEW day \in Days(req)
      PROVE  \E p \in parts :
               /\ \A q \in parts : Covers(q.period, day) <=> q = p
               /\ p.facts = FactsOn(req, day)
               /\ \A use \in Uses(req) : RulesOn(rules, use, req, day) = {p.rules[use]}
  <2>1. day \in Int
    BY DEF Days
  <2>2. PICK s \in Segments(req, rules) : Covers(s, day)
    BY <1>3, SegmentsPartition
  <2>3. \A t \in Segments(req, rules) : Covers(t, day) => t = s
    BY <1>3, <2>2, SegmentsPartition
  <2>4. part(s) \in parts
    BY <1>1
  <2>5. ASSUME NEW q \in parts PROVE Covers(q.period, day) <=> q = part(s)
    <3>1. PICK t \in Segments(req, rules) : q = part(t)
      BY <1>1
    <3>2. q.period = t /\ part(s).period = s
      BY <1>2, <3>1
    <3> QED BY <2>2, <2>3, <3>1, <3>2
  <2>6. part(s).facts = FactsOn(req, day)
    BY <1>2, <2>1, <2>2, RulesOfDay
  <2>7. \A use \in Uses(req) : RulesOn(rules, use, req, day) = {part(s).rules[use]}
    BY <1>2, <2>1, <2>2, RulesOfDay
  <2> QED BY <2>4, <2>5, <2>6, <2>7
<1> QED BY <1>4 DEF ByDay

\* One that asks for review has a day without its rule, part of a month, or
\* too many segments.
LEMMA ReviewHasReason ==
  ASSUME NEW req, NEW rules, WellFormed(req), RowsTyped(rules), Exclusive(rules),
         Calculate(req, rules).status # "completed"
  PROVE  \/ Undecided(req, rules)
         \/ BrokenMonth(req, rules)
         \/ Cardinality(Segments(req, rules)) > MaxSegments
<1> DEFINE facts == FactsFrom(req, rules)
<1>1. DatedRows(rules)
  BY DEF RowsTyped, DatedRows
<1>2. \/ ~(Cardinality(Segments(req, rules)) <= MaxSegments)
      \/ \E s \in Segments(req, rules) : ~Calculable(rules, facts[s[1]], s, req)
  BY DEF Calculate
<1>3. CASE ~(Cardinality(Segments(req, rules)) <= MaxSegments)
  <2>1. Cardinality(Segments(req, rules)) \in Nat
    BY <1>1, FiniteSegments, FS_CardinalityType
  <2> QED BY <1>3, <2>1, CalendarAssumption
<1>4. ASSUME NEW s \in Segments(req, rules), ~Calculable(rules, facts[s[1]], s, req)
      PROVE  Undecided(req, rules) \/ BrokenMonth(req, rules)
  <2>1. /\ s[1] \in Boundaries(req, rules) /\ s[1] \in Int /\ s[2] \in Int /\ s[1] < s[2]
        /\ req.from <= s[1] /\ s[2] <= req.to
    BY <1>1, SegmentCuts
  <2>2. Covers(s, s[1]) /\ s[1] \in Days(req)
    BY <2>1 DEF Covers, Days, WellFormed
  <2>3. facts[s[1]] = FactsOn(req, s[1])
    BY <1>1, <2>1, FactsCarried
  <2>4. \A use : RulesOn(rules, use, req, s[1]) = Matches(rules, use, facts[s[1]], s, req)
    BY <2>1, <2>2, <2>3, RulesOfDay
  <2> HIDE DEF facts
  <2>5. CASE ~Resolves(rules, facts[s[1]], s, req)
    BY <2>2, <2>4, <2>5 DEF Resolves, Undecided
  <2>6. CASE Resolves(rules, facts[s[1]], s, req)
    <3>1. PICK use \in Uses(req) : ~Payable(RulesOf(rules, facts[s[1]], s, req)[use], s)
      BY <1>4, <2>6 DEF Calculable
    <3> DEFINE M == Matches(rules, use, facts[s[1]], s, req)
    <3>2. M # {} /\ M \subseteq rules
      BY <2>6, FS_EmptySet DEF Resolves, Matches
    <3>3. RulesOf(rules, facts[s[1]], s, req)[use] = CHOOSE r \in rules : r \in M
      BY DEF RulesOf
    <3> HIDE DEF M
    <3>4. RulesOf(rules, facts[s[1]], s, req)[use] \in M
      BY <3>2, <3>3
    <3> QED BY <2>4, <3>1, <3>4 DEF M, BrokenMonth
  <2> QED BY <2>5, <2>6
<1> QED BY <1>2, <1>3, <1>4

Priced(rules) ==
  \A r \in rules : r.basis \in Bases /\ r.rate \in Nat /\ r.quantum \in Nat \ {0}

\* The rows a request loads say a rate.
LEMMA LoadedPriced == \A req : Priced(Loaded(req))
<1> SUFFICES ASSUME NEW req, NEW x \in Loaded(req)
             PROVE  x.basis \in Bases /\ x.rate \in Nat /\ x.quantum \in Nat \ {0}
  BY DEF Priced
<1>1. PICK r \in Rules : x = Row(r)
  BY DEF Loaded, Approved
<1>2. /\ Content[r].basis \in Bases /\ Content[r].rate \in Nat
      /\ Content[r].quantum \in Nat \ {0}
  BY RulesAssumption
<1> QED BY <1>1, <1>2 DEF Row

\* What a request holds was computed from the rules it holds, which say
\* their rates.
Computed(j) == j # Idle => j.result = Calculate(j.req, j.rules) /\ Priced(j.rules)

ComputedInv == \A c \in Clients : Computed(job[c])

\* No step makes a result of anything else.
LEMMA ComputedStep == IInv /\ ComputedInv /\ [Next]_vars => ComputedInv'
<1> SUFFICES ASSUME IInv, ComputedInv, [Next]_vars PROVE ComputedInv'
  OBVIOUS
<1> SUFFICES ASSUME NEW d \in Clients, NEW i, i = job'[d] PROVE Computed(i)
  BY DEF ComputedInv
<1>1. PICK j : j = job[d]
  OBVIOUS
<1>2. Computed(j) /\ Computed(Idle)
  BY <1>1 DEF ComputedInv, Computed
<1>3. ASSUME NEW c \in Clients, NEW req, Load(c, req) PROVE Computed(i)
  <2> DEFINE k == [phase |-> "computed", req |-> req, rules |-> Loaded(req),
                   result |-> Calculate(req, Loaded(req)), began |-> now]
  <2>1. i = j \/ i = k
    BY <1>1, <1>3 DEF Load, IInv, Typed
  <2>2. Computed(k)
    BY LoadedPriced DEF Computed
  <2> QED BY <1>2, <2>1, <2>2
<1>4. ASSUME NEW c \in Clients, Find(c) PROVE Computed(i)
  <2>1. CASE i = j \/ i = Idle
    BY <1>2, <2>1
  <2>2. CASE i # j /\ i # Idle
    <3>1. i = [j EXCEPT !.phase = "missed"] /\ j.phase = "computed"
      BY <1>1, <1>4, <2>2 DEF Find, IInv, Typed
    <3>2. j # Idle
      BY <3>1 DEF Idle
    <3>3. j = [phase |-> j.phase, req |-> j.req, rules |-> j.rules,
               result |-> j.result, began |-> j.began]
      BY <1>1, <3>2 DEF IInv, Calculations, Ready
    <3>4. i.req = j.req /\ i.rules = j.rules /\ i.result = j.result
      BY <3>1, <3>3
    <3> QED BY <1>2, <3>2, <3>4 DEF Computed
  <2> QED BY <2>1, <2>2
<1>5. ASSUME NEW c \in Clients, Save(c) PROVE Computed(i)
  <2>1. i = j \/ i = Idle
    BY <1>1, <1>5 DEF Save, IInv, Typed
  <2> QED BY <1>2, <2>1
<1>6. CASE UNCHANGED job
  BY <1>1, <1>2, <1>6
<1> QED BY <1>3, <1>4, <1>5, <1>6
        DEF Next, Tick, Draft, Review, Approve, Supersede, Ask, Replay, vars

\* Every result a request holds was computed from such rules, and they
\* exclude each other.
LEMMA ResultsComputed ==
  ASSUME IInv, ComputedInv, NEW x \in Results
  PROVE  /\ WellFormed(x.req)
         /\ RowsTyped(x.rules) /\ Exclusive(x.rules) /\ Priced(x.rules)
         /\ x.result = Calculate(x.req, x.rules)
<1>1. PICK c \in Clients :
        job[c] # Idle /\ x = [req |-> job[c].req, rules |-> job[c].rules, result |-> job[c].result]
  BY DEF Results
<1>2. Ready(job[c]) /\ Computed(job[c])
  BY DEF IInv, Calculations, ComputedInv
<1> QED BY <1>1, <1>2 DEF Ready, Computed

\* So this holds always.
LEMMA ComputedHolds == Spec => []ComputedInv
<1>1. Init => ComputedInv
  BY DEF Init, ComputedInv, Computed
<1> QED BY <1>1, ComputedStep, InvariantHolds, PTL DEF Spec

\* For any calendar, rules and requests, and however the book changed while
\* it ran: a completed calculation counts every day of its period once with
\* the facts and the one rule of that day, and one sent to review has its
\* reason (RuleCalculationEngine._segments, _resolve).
THEOREM CalendarFollowed == Spec => []FollowsCalendar
<1>1. IInv /\ ComputedInv => FollowsCalendar
  BY ResultsComputed, CompletedByDay, ReviewHasReason DEF FollowsCalendar
<1> QED BY <1>1, ComputedHolds, InvariantHolds, PTL

-----------------------------------------------------------------------------
(* Sums.                                                                   *)

First(s) == CHOOSE x \in s : TRUE

\* The sums of f over the sets of a family, one element at a time.
Sums(it, f, family) ==
  it = [s \in family |-> IF s = {} THEN 0 ELSE f[First(s)] + it[s \ {First(s)}]]

\* As much of it as the proofs need.
IsSum(it, f, S) ==
  /\ it[{}] = 0
  /\ \A s \in SUBSET S : s # {} => it[s] = f[First(s)] + it[s \ {First(s)}]

\* What is left of a finite set without its first element is smaller.
LEMMA OneLess ==
  ASSUME NEW s, IsFiniteSet(s), s # {}
  PROVE  /\ First(s) \in s
         /\ IsFiniteSet(s \ {First(s)})
         /\ Cardinality(s) \in Nat /\ Cardinality(s \ {First(s)}) \in Nat
         /\ Cardinality(s \ {First(s)}) = Cardinality(s) - 1
<1>1. First(s) \in s
  BY DEF First
<1> QED BY <1>1, FS_RemoveElement, FS_CardinalityType

\* A finite set of values can be summed.
LEMMA SumsExist ==
  ASSUME NEW f, NEW S, IsFiniteSet(S)
  PROVE  \E it : Sums(it, f, SUBSET S)
<1> DEFINE Small(n) == {s \in SUBSET S : Cardinality(s) <= n}
           bad == {n \in Nat : ~ \E it : Sums(it, f, Small(n))}
<1>1. \A s \in SUBSET S : IsFiniteSet(s) /\ Cardinality(s) \in Nat
  BY FS_Subset, FS_CardinalityType
<1>2. bad = {}
  <2> SUFFICES ASSUME bad # {} PROVE FALSE
    OBVIOUS
  <2>1. PICK n \in bad : \A m \in bad : n <= m
    <3>1. bad \in SUBSET Int /\ \A m \in bad : 0 <= m
      OBVIOUS
    <3> HIDE DEF bad
    <3> QED BY <3>1, SmallestExists
  <2>2. n \in Nat /\ ~ \E it : Sums(it, f, Small(n))
    BY <2>1
  <2>3. CASE n = 0
    <3>1. \A s \in Small(n) : s = {}
      BY <1>1, <2>3, FS_EmptySet
    <3> DEFINE zero == [s \in Small(n) |-> 0]
    <3>2. Sums(zero, f, Small(n))
      <4> HIDE DEF Small
      <4> QED BY <3>1 DEF Sums
    <3> QED BY <2>2, <3>2
  <2>4. CASE n # 0
    <3>1. n - 1 \in Nat /\ n - 1 \notin bad
      <4> HIDE DEF bad
      <4> QED BY <2>1, <2>2, <2>4
    <3>2. PICK it : Sums(it, f, Small(n - 1))
      BY <3>1
    <3> DEFINE next == [s \in Small(n) |->
                          IF s = {} THEN 0 ELSE f[First(s)] + it[s \ {First(s)}]]
    <3>3. ASSUME NEW s \in Small(n), s # {} PROVE next[s \ {First(s)}] = it[s \ {First(s)}]
      <4> DEFINE r == s \ {First(s)}
      <4>1. IsFiniteSet(s)
        BY <1>1
      <4>2. Cardinality(r) = Cardinality(s) - 1 /\ Cardinality(s) \in Nat
        BY <3>3, <4>1, OneLess
      <4>3. r \in Small(n - 1) /\ r \in Small(n)
        BY <2>2, <4>2
      <4> HIDE DEF r, Small
      <4>4. it[r] = IF r = {} THEN 0 ELSE f[First(r)] + it[r \ {First(r)}]
        BY <3>2, <4>3 DEF Sums
      <4>5. next[r] = IF r = {} THEN 0 ELSE f[First(r)] + it[r \ {First(r)}]
        BY <4>3
      <4> QED BY <4>4, <4>5 DEF r
    <3>4. Sums(next, f, Small(n))
      <4>1. \A s \in Small(n) :
              next[s] = IF s = {} THEN 0 ELSE f[First(s)] + next[s \ {First(s)}]
        <5> HIDE DEF Small
        <5> QED BY <3>3
      <4>2. next = [s \in Small(n) |-> next[s]]
        OBVIOUS
      <4> HIDE DEF next, Small
      <4> QED BY <4>1, <4>2 DEF Sums
    <3> QED BY <2>2, <3>4
  <2> QED BY <2>3, <2>4
<1>3. Cardinality(S) \in Nat
  BY FS_CardinalityType
<1>4. Small(Cardinality(S)) = SUBSET S
  <2>1. \A s \in SUBSET S : Cardinality(s) <= Cardinality(S)
    BY FS_Subset
  <2> QED BY <2>1
<1> QED BY <1>2, <1>3, <1>4

\* SumFunction, unrolled.
LEMMA SumIs ==
  ASSUME NEW f, NEW S, S = DOMAIN f, IsFiniteSet(S)
  PROVE  \E it : IsSum(it, f, S) /\ SumFunction(f) = it[S]
<1> DEFINE it == CHOOSE h : Sums(h, f, SUBSET S)
<1>1. Sums(it, f, SUBSET S)
  BY SumsExist
<1>2. SumFunction(f) = it[S]
  BY DEF SumFunction, SumFunctionOnSet, FoldFunctionOnSet, MapThenFoldSet, Sums, First
<1> HIDE DEF it
<1>3. IsSum(it, f, S)
  BY <1>1 DEF Sums, IsSum
<1> QED BY <1>2, <1>3

\* What holds of no element, and of one more if it holds of the others,
\* holds of every part of a finite set.
LEMMA PartByPart ==
  ASSUME NEW S, IsFiniteSet(S), NEW T, {} \in T,
         \A s \in SUBSET S : s # {} /\ s \ {First(s)} \in T => s \in T
  PROVE  S \in T
<1> SUFFICES ASSUME S \notin T PROVE FALSE
  OBVIOUS
<1> DEFINE bad == {s \in SUBSET S : s \notin T}
           sizes == {Cardinality(s) : s \in bad}
<1>1. \A s \in SUBSET S : IsFiniteSet(s) /\ Cardinality(s) \in Nat
  BY FS_Subset, FS_CardinalityType
<1>2. PICK n \in sizes : \A m \in sizes : n <= m
  <2>1. sizes \in SUBSET Int /\ \A m \in sizes : 0 <= m
    BY <1>1
  <2>2. sizes # {}
    <3>1. S \in bad
      OBVIOUS
    <3> QED BY <3>1
  <2> HIDE DEF sizes
  <2> QED BY <2>1, <2>2, SmallestExists
<1>3. PICK s \in bad : n = Cardinality(s)
  OBVIOUS
<1>4. s # {} /\ s \in SUBSET S /\ IsFiniteSet(s)
  BY <1>1, <1>3
<1> DEFINE r == s \ {First(s)}
<1>5. Cardinality(r) = n - 1 /\ n \in Nat
  BY <1>3, <1>4, OneLess
<1>6. r \in bad
  BY <1>3, <1>4
<1>7. n <= Cardinality(r)
  BY <1>2, <1>6
<1> QED BY <1>5, <1>7

Whole(n, q) == \E k \in Int : n = k * q

\* Multiples of a number can be added.
LEMMA WholeAdds ==
  ASSUME NEW q \in Int, NEW m \in Int, NEW n \in Int, Whole(m, q), Whole(n, q)
  PROVE  m + n \in Int /\ Whole(m + n, q)
<1>1. PICK j \in Int : m = j * q
  BY DEF Whole
<1>2. PICK k \in Int : n = k * q
  BY DEF Whole
<1>3. m + n = (j + k) * q
  BY <1>1, <1>2
<1>4. \E i \in Int : m + n = i * q
  <2> WITNESS j + k \in Int
  <2> QED BY <1>3
<1>5. m + n \in Int
  OBVIOUS
<1>6. Whole(m + n, q)
  BY <1>4 DEF Whole
<1> QED BY <1>5, <1>6

\* Zero is one of them.
LEMMA ZeroWhole == \A q \in Int : Whole(0, q)
BY DEF Whole

\* A sum of multiples is a multiple.
LEMMA SumWhole ==
  ASSUME NEW f, IsFiniteSet(DOMAIN f), NEW q \in Int,
         \A x \in DOMAIN f : f[x] \in Int /\ Whole(f[x], q)
  PROVE  SumFunction(f) \in Int /\ Whole(SumFunction(f), q)
<1>1. PICK it : IsSum(it, f, DOMAIN f) /\ SumFunction(f) = it[DOMAIN f]
  BY SumIs
<1> DEFINE T == {s \in SUBSET DOMAIN f : it[s] \in Int /\ Whole(it[s], q)}
<1>2. {} \in T
  BY <1>1, ZeroWhole DEF IsSum
<1>3. ASSUME NEW s \in SUBSET DOMAIN f, s # {}, s \ {First(s)} \in T PROVE s \in T
  <2>1. First(s) \in DOMAIN f
    BY <1>3 DEF First
  <2>2. it[s] = f[First(s)] + it[s \ {First(s)}]
    BY <1>1, <1>3 DEF IsSum
  <2>3. it[s \ {First(s)}] \in Int /\ Whole(it[s \ {First(s)}], q)
    BY <1>3
  <2> QED BY <2>1, <2>2, <2>3, WholeAdds
<1>4. DOMAIN f \in T
  <2> HIDE DEF T
  <2> QED BY <1>2, <1>3, PartByPart
<1> QED BY <1>1, <1>4

\* The sum of sums.
LEMMA SumAdds ==
  ASSUME NEW S, IsFiniteSet(S), NEW f, NEW g, NEW h, NEW t,
         DOMAIN f = S, DOMAIN g = S, DOMAIN h = S, DOMAIN t = S,
         \A x \in S : f[x] \in Int /\ g[x] \in Int /\ h[x] \in Int /\ t[x] = f[x] + g[x] + h[x]
  PROVE  SumFunction(t) = SumFunction(f) + SumFunction(g) + SumFunction(h)
<1>1. PICK F : IsSum(F, f, S) /\ SumFunction(f) = F[S]
  BY SumIs
<1>2. PICK G : IsSum(G, g, S) /\ SumFunction(g) = G[S]
  BY SumIs
<1>3. PICK H : IsSum(H, h, S) /\ SumFunction(h) = H[S]
  BY SumIs
<1>4. PICK U : IsSum(U, t, S) /\ SumFunction(t) = U[S]
  BY SumIs
<1> DEFINE T == {s \in SUBSET S : /\ F[s] \in Int /\ G[s] \in Int /\ H[s] \in Int
                                  /\ U[s] = F[s] + G[s] + H[s]}
<1>5. {} \in T
  BY <1>1, <1>2, <1>3, <1>4 DEF IsSum
<1>6. ASSUME NEW s \in SUBSET S, s # {}, s \ {First(s)} \in T PROVE s \in T
  <2> DEFINE r == s \ {First(s)}
             x == First(s)
  <2>1. x \in S
    BY <1>6 DEF First
  <2>2. F[s] = f[x] + F[r] /\ G[s] = g[x] + G[r] /\ H[s] = h[x] + H[r] /\ U[s] = t[x] + U[r]
    BY <1>1, <1>2, <1>3, <1>4, <1>6 DEF IsSum
  <2>3. F[r] \in Int /\ G[r] \in Int /\ H[r] \in Int /\ U[r] = F[r] + G[r] + H[r]
    BY <1>6
  <2> HIDE DEF r, x
  <2> QED BY <2>1, <2>2, <2>3
<1>7. S \in T
  <2> HIDE DEF T
  <2> QED BY <1>5, <1>6, PartByPart
<1> QED BY <1>1, <1>2, <1>3, <1>4, <1>7

-----------------------------------------------------------------------------
(* Amounts.                                                                *)

\* A quotient is what its bounds say.
LEMMA DivIs ==
  ASSUME NEW a \in Int, NEW b \in Nat \ {0}, NEW q \in Int, q * b <= a, a < q * b + b
  PROVE  a \div b = q
OBVIOUS

\* A whole number of paise is not rounded.
LEMMA MoneyKeeps ==
  ASSUME NEW n \in Int, Whole(n, Paisa)
  PROVE  Money(n) = n
<1>1. PICK k \in Int : n = k * Paisa
  BY DEF Whole
<1>2. Paisa \in Nat \ {0}
  BY CalendarAssumption
<1> DEFINE a == 2 * n + 1 * Paisa
           b == 2 * 1 * Paisa
<1>3. a \in Int /\ b \in Nat \ {0} /\ k * b <= a /\ a < k * b + b
  <2>1. k * b = 2 * (k * Paisa)
    BY <1>2
  <2> QED BY <1>1, <1>2, <2>1
<1>4. a \div b = k
  <2> HIDE DEF a, b
  <2> QED BY <1>3, DivIs
<1>5. Money(n) = Paisa * k
  BY <1>4 DEF Money, RoundHalfUp
<1> QED BY <1>1, <1>2, <1>5

\* What is rounded to a whole number of paise is one.
LEMMA RoundedWhole ==
  ASSUME NEW num \in Int, NEW den \in {1, 100}, NEW quantum \in Nat \ {0}, quantum % Paisa = 0
  PROVE  RoundHalfUp(num, den, quantum) \in Int /\ Whole(RoundHalfUp(num, den, quantum), Paisa)
<1> DEFINE a == 2 * num + den * quantum
           b == 2 * den * quantum
<1>1. a \in Int /\ b \in Nat \ {0}
  OBVIOUS
<1>2. a \div b \in Int
  <2> HIDE DEF a, b
  <2> QED BY <1>1
<1>3. Paisa \in Nat \ {0}
  BY CalendarAssumption
<1>4. PICK m \in Int : quantum = m * Paisa
  BY <1>3
<1>5. PICK d \in Int : d = a \div b
  BY <1>2
<1>6. RoundHalfUp(num, den, quantum) = quantum * d
  BY <1>5 DEF RoundHalfUp
<1>7. quantum * d = (m * d) * Paisa /\ m * d \in Int
  BY <1>3, <1>4
<1>8. Whole(quantum * d, Paisa)
  <2>1. \E k \in Int : quantum * d = k * Paisa
    BY <1>7
  <2> QED BY <2>1 DEF Whole
<1>9. quantum * d \in Int
  OBVIOUS
<1> QED BY <1>6, <1>8, <1>9

\* Months between two days can be counted.
LEMMA MonthsCounted ==
  ASSUME NEW s, s[1] \in Int, s[2] \in Int
  PROVE  Months(s) \in Nat
<1> DEFINE M == {m \in MonthStarts : s[1] < m /\ m <= s[2]}
<1>1. M \subseteq s[1] .. s[2]
  <2> SUFFICES ASSUME NEW m \in MonthStarts, s[1] < m, m <= s[2] PROVE m \in s[1] .. s[2]
    OBVIOUS
  <2>1. m \in Int
    BY CalendarAssumption
  <2> QED BY <2>1
<1>2. IsFiniteSet(s[1] .. s[2])
  BY FS_Interval
<1>3. IsFiniteSet(M)
  BY <1>1, <1>2, FS_Subset
<1> QED BY <1>3, FS_CardinalityType DEF Months

\* So every amount of a rule that rounds no finer than a paisa is whole.
LEMMA AmountWhole ==
  ASSUME NEW r, r.basis \in Bases, r.rate \in Nat, r.quantum \in Nat \ {0}, r.quantum % Paisa = 0,
         NEW s, s[1] \in Int, s[2] \in Int, NEW area \in Int, NEW base \in Int, NEW taxable \in Int
  PROVE  Amount(r, s, area, base, taxable) \in Int
         /\ Whole(Amount(r, s, area, base, taxable), Paisa)
<1>1. Months(s) \in Nat
  BY MonthsCounted
<1>2. PICK num \in Int, den \in {1, 100} :
        Amount(r, s, area, base, taxable) = RoundHalfUp(num, den, r.quantum)
  <2>1. CASE r.basis = "fixed_per_day"
    <3>1. Amount(r, s, area, base, taxable) = RoundHalfUp(r.rate * (s[2] - s[1]), 1, r.quantum)
      BY <2>1 DEF Amount
    <3>2. r.rate * (s[2] - s[1]) \in Int
      OBVIOUS
    <3> QED BY <3>1, <3>2
  <2>2. CASE r.basis = "per_area_per_day"
    <3>1. Amount(r, s, area, base, taxable)
            = RoundHalfUp(r.rate * area * (s[2] - s[1]), 1, r.quantum)
      BY <2>2 DEF Amount
    <3>2. r.rate * area * (s[2] - s[1]) \in Int
      OBVIOUS
    <3> QED BY <3>1, <3>2
  <2>3. CASE r.basis = "fixed_per_month"
    <3>1. Amount(r, s, area, base, taxable) = RoundHalfUp(r.rate * Months(s), 1, r.quantum)
      BY <2>3 DEF Amount
    <3>2. r.rate * Months(s) \in Int
      BY <1>1
    <3> QED BY <3>1, <3>2
  <2>4. CASE r.basis = "per_area_per_month"
    <3>1. Amount(r, s, area, base, taxable)
            = RoundHalfUp(r.rate * Months(s) * area, 1, r.quantum)
      BY <2>4 DEF Amount
    <3>2. r.rate * Months(s) * area \in Int
      BY <1>1
    <3> QED BY <3>1, <3>2
  <2>5. CASE r.basis = "percent_of_base"
    <3>1. Amount(r, s, area, base, taxable) = RoundHalfUp(base * r.rate, 100, r.quantum)
      BY <2>5 DEF Amount
    <3>2. base * r.rate \in Int
      OBVIOUS
    <3> QED BY <3>1, <3>2
  <2>6. CASE r.basis = "percent_of_taxable"
    <3>1. Amount(r, s, area, base, taxable) = RoundHalfUp(taxable * r.rate, 100, r.quantum)
      BY <2>6 DEF Amount
    <3>2. taxable * r.rate \in Int
      OBVIOUS
    <3> QED BY <3>1, <3>2
  <2> QED BY <2>1, <2>2, <2>3, <2>4, <2>5, <2>6 DEF Bases, Monthly
<1> QED BY <1>2, RoundedWhole

\* The facts of any day have an area and a base.
LEMMA FactsOnTyped ==
  ASSUME NEW req, WellFormed(req), NEW day \in Int
  PROVE  FactsOn(req, day).area \in Int /\ FactsOn(req, day).base \in Int
<1>1. /\ DOMAIN req.facts = {"key", "area", "base", "exempt"}
      /\ req.facts.area \in Int /\ req.facts.base \in Int
  BY DEF WellFormed, LeaseFacts
<1>2. ASSUME NEW d \in DOMAIN req.changes
      PROVE  /\ "area" \in DOMAIN req.changes[d] => req.changes[d]["area"] \in Int
             /\ "base" \in DOMAIN req.changes[d] => req.changes[d]["base"] \in Int
  <2>1. LeaseFacts(ApplyChange(req.facts, req.changes[d]))
    BY DEF WellFormed
  <2>2. /\ ApplyChange(req.facts, req.changes[d]).area \in Int
        /\ ApplyChange(req.facts, req.changes[d]).base \in Int
    BY <2>1 DEF LeaseFacts
  <2> QED BY <1>1, <2>2 DEF ApplyChange
<1>3. ASSUME NEW f \in {"area", "base"} PROVE FactsOn(req, day)[f] \in Int
  <2>1. FactsOn(req, day)[f] = IF Told(req, day, f) = {} THEN req.facts[f]
                               ELSE req.changes[Max(Told(req, day, f))][f]
    BY <1>1 DEF FactsOn, Told
  <2>2. CASE Told(req, day, f) = {}
    BY <1>1, <2>1, <2>2
  <2>3. CASE Told(req, day, f) # {}
    <3>1. Told(req, day, f) \in SUBSET Int /\ \A c \in Told(req, day, f) : c <= day
      BY DEF Told, WellFormed
    <3>2. PICK m \in Told(req, day, f) : \A c \in Told(req, day, f) : c <= m
      BY <2>3, <3>1, LargestExists
    <3>3. Max(Told(req, day, f)) = m
      BY <3>1, <3>2, MaxIs
    <3>4. m \in DOMAIN req.changes /\ f \in DOMAIN req.changes[m]
      BY <3>2 DEF Told
    <3> QED BY <1>2, <2>1, <2>3, <3>3, <3>4
  <2> QED BY <2>2, <2>3
<1>4. FactsOn(req, day)["area"] \in Int /\ FactsOn(req, day)["base"] \in Int
  BY <1>3
<1> QED BY <1>4

\* The amounts of a part are whole paise and its total is their sum.
LEMMA PartAgrees ==
  ASSUME NEW req, NEW rules, WellFormed(req), RowsTyped(rules), Exclusive(rules),
         Priced(rules), \A r \in rules : r.quantum % Paisa = 0,
         Calculate(req, rules).status = "completed", NEW s \in Segments(req, rules),
         NEW p, p = Part(s, req, rules)
  PROVE  /\ p.rent \in Int /\ Whole(p.rent, Paisa)
         /\ p.additional \in Int /\ Whole(p.additional, Paisa)
         /\ p.tax \in Int /\ Whole(p.tax, Paisa)
         /\ p.total = p.rent + p.additional + p.tax
<1> DEFINE facts == FactsFrom(req, rules)[s[1]]
           by == RulesOf(rules, facts, s, req)
           seed == facts.base * (s[2] - s[1])
           rent == Amount(by[Rent], s, facts.area, seed, seed)
           extra == [code \in req.additional |->
                       Amount(by[<<"additional_rent", code>>], s, facts.area, rent, rent)]
           additional == SumFunction(extra)
           taxable == Money(rent + additional)
           levied == [code \in req.taxes \ facts.exempt |->
                        Amount(by[<<"tax", code>>], s, facts.area, rent, taxable)]
           tax == SumFunction(levied)
<1>1. /\ p.rules = by
      /\ p.rent = Money(rent) /\ p.additional = Money(additional) /\ p.tax = Money(tax)
      /\ p.total = Money(taxable + tax)
  BY Zenon DEF Part, CalculateSegment
<1>2. DatedRows(rules) /\ Paisa \in Int
  BY CalendarAssumption DEF RowsTyped, DatedRows
<1>3. /\ s[1] \in Boundaries(req, rules) /\ s[1] \in Int /\ s[2] \in Int
  BY <1>2, SegmentCuts
<1>4. facts.area \in Int /\ facts.base \in Int
  BY <1>2, <1>3, FactsCarried, FactsOnTyped
<1>5. \A use \in Uses(req) : by[use] \in rules
  <2>1. \A use \in Uses(req) : Matches(rules, use, FactsOn(req, s[1]), s, req) = {p.rules[use]}
    BY CompletedParts
  <2> HIDE DEF by
  <2> QED BY <1>1, <2>1 DEF Matches
<1> HIDE DEF facts, by
<1>6. ASSUME NEW use \in Uses(req), NEW base \in Int, NEW taxed \in Int
      PROVE  LET a == Amount(by[use], s, facts.area, base, taxed)
             IN  a \in Int /\ Whole(a, Paisa)
  <2>1. by[use] \in rules
    BY <1>5
  <2>2. /\ by[use].basis \in Bases /\ by[use].rate \in Nat /\ by[use].quantum \in Nat \ {0}
        /\ by[use].quantum % Paisa = 0
    BY <2>1 DEF Priced
  <2> QED BY <1>3, <1>4, <2>2, AmountWhole
<1>7. seed \in Int
  BY <1>3, <1>4
<1> HIDE DEF seed
<1>8. rent \in Int /\ Whole(rent, Paisa)
  <2>1. Rent \in Uses(req)
    BY DEF Uses
  <2> QED BY <1>6, <1>7, <2>1
<1> HIDE DEF rent
<1>9. additional \in Int /\ Whole(additional, Paisa)
  <2>1. ASSUME NEW code \in req.additional PROVE extra[code] \in Int /\ Whole(extra[code], Paisa)
    <3>1. <<"additional_rent", code>> \in Uses(req)
      BY DEF Uses
    <3> QED BY <1>6, <1>8, <3>1
  <2>2. DOMAIN extra = req.additional /\ IsFiniteSet(req.additional)
    BY DEF WellFormed
  <2> HIDE DEF extra
  <2> QED BY <1>2, <2>1, <2>2, SumWhole
<1> HIDE DEF additional
<1>10. taxable = rent + additional /\ taxable \in Int /\ Whole(taxable, Paisa)
  BY <1>2, <1>8, <1>9, WholeAdds, MoneyKeeps
<1> HIDE DEF taxable
<1>11. tax \in Int /\ Whole(tax, Paisa)
  <2>1. ASSUME NEW code \in req.taxes \ facts.exempt
        PROVE  levied[code] \in Int /\ Whole(levied[code], Paisa)
    <3>1. <<"tax", code>> \in Uses(req)
      BY DEF Uses
    <3> QED BY <1>6, <1>8, <1>10, <3>1
  <2>2. DOMAIN levied = req.taxes \ facts.exempt /\ IsFiniteSet(req.taxes \ facts.exempt)
    BY FS_Subset DEF WellFormed
  <2> HIDE DEF levied
  <2> QED BY <1>2, <2>1, <2>2, SumWhole
<1> HIDE DEF tax
<1>12. taxable + tax \in Int /\ Whole(taxable + tax, Paisa)
  BY <1>2, <1>10, <1>11, WholeAdds
<1> QED BY <1>1, <1>8, <1>9, <1>10, <1>11, <1>12, MoneyKeeps

\* The sum of one amount over the parts of a bill.
LEMMA SumOfParts ==
  ASSUME NEW parts, IsFiniteSet(parts), NEW amount,
         \A p \in parts : p[amount] \in Int /\ Whole(p[amount], Paisa)
  PROVE  SumOf(amount, parts) \in Int /\ Whole(SumOf(amount, parts), Paisa)
<1> DEFINE f == [p \in parts |-> p[amount]]
<1>1. DOMAIN f = parts /\ \A p \in parts : f[p] \in Int /\ Whole(f[p], Paisa)
  OBVIOUS
<1>2. Paisa \in Int
  BY CalendarAssumption
<1> HIDE DEF f
<1>3. SumFunction(f) \in Int /\ Whole(SumFunction(f), Paisa)
  BY <1>1, <1>2, SumWhole
<1> QED BY <1>3 DEF SumOf, f

\* The total of a completed bill is the sum of the totals of its parts.
LEMMA CompletedTotals ==
  ASSUME NEW req, NEW rules, WellFormed(req), RowsTyped(rules), Exclusive(rules),
         Priced(rules), \A r \in rules : r.quantum % Paisa = 0,
         Calculate(req, rules).status = "completed"
  PROVE  Calculate(req, rules).totals.grand = SumOf("total", Calculate(req, rules).parts)
<1> DEFINE parts == {Part(s, req, rules) : s \in Segments(req, rules)}
<1>1. Calculate(req, rules).parts = parts
  BY CompletedParts
<1>2. Calculate(req, rules).totals.grand
        = Money(SumOf("rent", parts) + SumOf("additional", parts) + SumOf("tax", parts))
  <2>1. parts = {CalculateSegment(rules, FactsFrom(req, rules)[s[1]], s, req) :
                   s \in Segments(req, rules)}
    BY Zenon DEF Part
  <2> HIDE DEF parts
  <2> QED BY <2>1 DEF Calculate
<1>3. IsFiniteSet(parts)
  <2> DEFINE f == [s \in Segments(req, rules) |-> Part(s, req, rules)]
  <2>1. IsFiniteSet(Segments(req, rules))
    BY FiniteSegments DEF RowsTyped, DatedRows
  <2>2. f \in Surjection(Segments(req, rules), parts)
    BY DEF Surjection
  <2> HIDE DEF f, parts
  <2> QED BY <2>1, <2>2, FS_Surjection
<1>4. ASSUME NEW p \in parts
      PROVE  /\ p["rent"] \in Int /\ Whole(p["rent"], Paisa)
             /\ p["additional"] \in Int /\ Whole(p["additional"], Paisa)
             /\ p["tax"] \in Int /\ Whole(p["tax"], Paisa)
             /\ p["total"] = p["rent"] + p["additional"] + p["tax"]
  BY PartAgrees
<1> HIDE DEF parts
<1> DEFINE f == [p \in parts |-> p["rent"]]
           g == [p \in parts |-> p["additional"]]
           h == [p \in parts |-> p["tax"]]
           t == [p \in parts |-> p["total"]]
<1>5. SumFunction(t) = SumFunction(f) + SumFunction(g) + SumFunction(h)
  <2>1. /\ DOMAIN f = parts /\ DOMAIN g = parts /\ DOMAIN h = parts /\ DOMAIN t = parts
        /\ \A p \in parts : /\ f[p] \in Int /\ g[p] \in Int /\ h[p] \in Int
                            /\ t[p] = f[p] + g[p] + h[p]
    BY <1>4
  <2> HIDE DEF f, g, h, t
  <2> QED BY <1>3, <2>1, SumAdds
<1>6. SumOf("total", parts)
        = SumOf("rent", parts) + SumOf("additional", parts) + SumOf("tax", parts)
  BY <1>5 DEF SumOf
<1>7. /\ SumOf("rent", parts) \in Int /\ Whole(SumOf("rent", parts), Paisa)
      /\ SumOf("additional", parts) \in Int /\ Whole(SumOf("additional", parts), Paisa)
      /\ SumOf("tax", parts) \in Int /\ Whole(SumOf("tax", parts), Paisa)
  BY <1>3, <1>4, SumOfParts
<1> DEFINE a == SumOf("rent", parts)
           b == SumOf("additional", parts)
           c == SumOf("tax", parts)
<1> HIDE DEF a, b, c
<1>8. a + b + c \in Int /\ Whole(a + b + c, Paisa)
  <2>1. Paisa \in Int
    BY CalendarAssumption
  <2>2. a \in Int /\ b \in Int /\ c \in Int /\ Whole(a, Paisa) /\ Whole(b, Paisa) /\ Whole(c, Paisa)
    BY <1>7 DEF a, b, c
  <2>3. a + b \in Int /\ Whole(a + b, Paisa)
    BY <2>1, <2>2, WholeAdds
  <2> QED BY <2>1, <2>2, <2>3, WholeAdds
<1>9. Money(a + b + c) = a + b + c
  BY <1>8, MoneyKeeps
<1> QED BY <1>1, <1>2, <1>6, <1>9 DEF a, b, c

\* A calculation sent to review has no parts and no total.
LEMMA ReviewTotals ==
  ASSUME NEW req, NEW rules, Calculate(req, rules).status # "completed"
  PROVE  Calculate(req, rules).totals.grand = SumOf("total", Calculate(req, rules).parts)
<1>1. Calculate(req, rules).parts = {} /\ Calculate(req, rules).totals.grand = 0
  BY DEF Calculate, NoTotals
<1> DEFINE f == [p \in {} |-> p["total"]]
<1>2. DOMAIN f = {} /\ IsFiniteSet({})
  BY FS_EmptySet
<1>3. SumFunction(f) = 0
  <2> HIDE DEF f
  <2>1. PICK it : IsSum(it, f, {}) /\ SumFunction(f) = it[{}]
    BY <1>2, SumIs
  <2> QED BY <2>1 DEF IsSum
<1>4. SumOf("total", {}) = 0
  BY <1>3 DEF SumOf
<1> QED BY <1>1, <1>4

\* Whatever is rounded on the way, the total of a bill is the sum of the
\* totals of its segments, as long as no rule rounds finer than a paisa
\* (_calculate_segment, calculate).
THEOREM TotalsAlwaysAgree == Spec => []TotalsAgree
<1>1. IInv /\ ComputedInv => TotalsAgree
  <2> SUFFICES ASSUME IInv, ComputedInv, NEW x \in Results,
                      \A r \in x.rules : r.quantum % Paisa = 0
               PROVE  x.result.totals.grand = SumOf("total", x.result.parts)
    BY DEF TotalsAgree
  <2>1. /\ WellFormed(x.req) /\ RowsTyped(x.rules) /\ Exclusive(x.rules) /\ Priced(x.rules)
        /\ x.result = Calculate(x.req, x.rules)
    BY ResultsComputed
  <2> QED BY <2>1, CompletedTotals, ReviewTotals
<1> QED BY <1>1, ComputedHolds, InvariantHolds, PTL
=============================================================================
