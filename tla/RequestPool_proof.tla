------------------------- MODULE RequestPool_proof -------------------------
(***************************************************************************)
(* Proofs about RequestPool, for any clients, chats, pool and number of    *)
(* requests and crashes: an attachment that is READY is embedded, facts    *)
(* are sent with their audit event, and no connection is lost; and about   *)
(* StructuredQuery, for any names and shapes of relations: no plan leaves  *)
(* the governed columns of its view.                                       *)
(***************************************************************************)
EXTENDS RequestPool, FiniteSetTheorems, TLAPS

\* A request as Inductive wants it beside the tables of its state.
Fits(r) ==
  /\ r.phase # "idle" => r.n # 0
  /\ r.phase \in {"entering", "waiting"} => r.held < Wanted[r.kind]
  /\ r.phase \in {"working", "inserting", "asking", "leaving", "exiting", "serving"} => r.held # 0
  /\ r.phase = "replying" => late \/ r.held = 0
  /\ r.facts => r.phase \in {"replying", "leaving", "exiting"} /\ r.row = "none"
  /\ r.phase \in {"entering", "waiting", "working"} => r.row = "none"
  /\ r.row # "none" => r.doc # 0
  /\ r.row = "READY" => docs[r.doc].embedded
  /\ r.phase = "replying" /\ r.ok /\ r.facts /\ r.held = 0 => r.n \in audit

\* A request that still has to commit the audit event of its facts.
Owing(r) == r.ok /\ r.facts /\ r.phase \in {"leaving", "exiting"}

\* How many connections a request wants.
LEMMA WantedTyped ==
  /\ Wanted["query"] = 2 /\ Wanted["upload"] = 2 /\ Wanted["ask"] = 1
  /\ \A kind \in {"query", "upload", "ask"} : Wanted[kind] \in {1, 2}
BY DEF Wanted

\* The request of a client in a state that satisfies the invariant.
LEMMA RequestFits ==
  ASSUME Inductive, NEW c \in Clients
  PROVE  req[c] \in Requests /\ Fits(req[c])
BY DEF Inductive, TypeOK, Holding, ReadyAhead, AuditAhead, Fits

\* The place of no request.
LEMMA IdleFits == Idle \in Requests /\ Idle.phase = "idle" /\ ~Idle.facts /\ Idle.row = "none"
<1> DEFINE k == CHOOSE k \in Chats : TRUE
<1>1. k \in Chats
  BY PoolAssumption
<1> HIDE DEF k
<1>2. Received("query", 0, k) \in Requests
  BY <1>1, PoolAssumption DEF Received, Requests, Phases
<1>3. Idle = [Received("query", 0, k) EXCEPT !.phase = "idle"]
  BY DEF Idle, k
<1> QED BY <1>2, <1>3 DEF Received, Requests, Phases

\* A route that returns or raises.
LEMMA ReturnedFits ==
  ASSUME late \in BOOLEAN, NEW r \in Requests, Fits(r), ~r.facts, r.phase # "idle"
  PROVE  /\ Returned(r) \in Requests /\ Fits(Returned(r))
         /\ Raised(r) \in Requests /\ Fits(Raised(r))
<1>1. \A b \in BOOLEAN :
        LET s == [r EXCEPT !.ok = b]
        IN s \in Requests /\ Fits(s) /\ ~s.facts /\ s.phase # "idle"
  BY DEF Requests, Fits
<1>2. ASSUME NEW s \in Requests, Fits(s), ~s.facts, s.phase # "idle"
      PROVE  Returned(s) \in Requests /\ Fits(Returned(s))
  <2>1. CASE (s.ok /\ late) \/ s.held = 0
    <3>1. Returned(s) = [s EXCEPT !.phase = "replying"]
      BY <2>1 DEF Returned
    <3>2. [s EXCEPT !.phase = "replying"] \in Requests
      BY <1>2 DEF Requests, Phases
    <3> QED BY <3>1, <3>2, <2>1, <1>2 DEF Fits, Requests
  <2>2. CASE ~((s.ok /\ late) \/ s.held = 0)
    <3>1. Returned(s) = [s EXCEPT !.phase = "leaving"]
      BY <2>2 DEF Returned
    <3>2. [s EXCEPT !.phase = "leaving"] \in Requests
      BY <1>2 DEF Requests, Phases
    <3> QED BY <3>1, <3>2, <2>2, <1>2 DEF Fits, Requests
  <2> QED BY <2>1, <2>2
<1>3. Raised(r) = Returned([r EXCEPT !.ok = FALSE])
  BY DEF Raised
<1>4. [r EXCEPT !.ok = FALSE] \in Requests /\ Fits([r EXCEPT !.ok = FALSE])
      /\ ~[r EXCEPT !.ok = FALSE].facts /\ [r EXCEPT !.ok = FALSE].phase # "idle"
  BY <1>1
<1> QED BY <1>2, <1>3, <1>4

\* A step that changes one request, starts a job at most and sends an answer
\* at most preserves the invariant if the new request fits, still owes what
\* the old one did, and the answer is audited or owed.
LEMMA AnyRequest ==
  ASSUME Inductive, NEW c \in Clients, NEW r \in Requests, Become(c, r), Fits(r),
         Owing(req[c]) => Owing(r) /\ r.n = req[c].n,
         free' \in Nat, begun' \in 0..MaxStarts, made' \in Seq(Numbers),
         jobs' \in [Numbers -> Jobs],
         \A n \in Numbers :
           /\ jobs'[n].stage # "none" => jobs'[n].doc # 0
           /\ jobs'[n].stage = "ready" => jobs'[n] = jobs[n],
         answered' \subseteq Numbers,
         \A n \in answered' \ answered : n \in audit \/ (late /\ Owing(r) /\ r.n = n),
         UNCHANGED <<late, tables, unrecorded, crashes>>
  PROVE  Inductive'
<1> USE DEF tables
<1>1. /\ req' = [req EXCEPT ![c] = r] /\ req' \in [Clients -> Requests]
      /\ req'[c] = r /\ \A d \in Clients \ {c} : req'[d] = req[d]
  BY DEF Become, Inductive, TypeOK
<1>2. TypeOK'
  BY <1>1 DEF Inductive, TypeOK
<1>3. \A d \in Clients : Fits(req'[d])
  BY <1>1, RequestFits
<1>4. Holding'
  BY <1>3 DEF Holding, Fits
<1>5. ReadyAhead' /\ ReadyIsEmbedded'
  BY <1>3 DEF ReadyAhead, ReadyIsEmbedded, Inductive, Fits
<1>6. AuditAhead'
  <2>1. \A d \in Clients :
          req'[d].phase = "replying" /\ req'[d].ok /\ req'[d].facts /\ req'[d].held = 0 =>
            req'[d].n \in audit'
    BY <1>3 DEF Fits
  <2>2. \A d \in Clients : Owing(req[d]) => Owing(req'[d]) /\ req'[d].n = req[d].n
    BY <1>1
  <2>3. \A n \in answered' \ audit' :
          late' /\ (crashes' > 0 \/ \E d \in Clients : req'[d].n = n /\ Owing(req'[d]))
    <3> SUFFICES ASSUME NEW n \in answered', n \notin audit
                 PROVE  late /\ (crashes > 0
                                 \/ \E d \in Clients : req'[d].n = n /\ Owing(req'[d]))
      OBVIOUS
    <3>1. CASE n \in answered
      BY <3>1, <2>2 DEF Inductive, AuditAhead, Owing
    <3>2. CASE n \notin answered
      BY <3>2, <1>1
    <3> QED BY <3>1, <3>2
  <2> QED BY <2>1, <2>3 DEF AuditAhead, Owing
<1> QED BY <1>2, <1>4, <1>5, <1>6 DEF Inductive

\* Most steps leave jobs and answers alone.
LEMMA OneRequest ==
  ASSUME Inductive, NEW c \in Clients, NEW r \in Requests, Become(c, r), Fits(r),
         Owing(req[c]) => Owing(r) /\ r.n = req[c].n,
         free' \in Nat, begun' \in 0..MaxStarts, made' \in Seq(Numbers),
         UNCHANGED <<late, tables, jobs, answered, unrecorded, crashes>>
  PROVE  Inductive'
<1>1. /\ jobs' \in [Numbers -> Jobs] /\ answered' \subseteq Numbers
      /\ \A n \in Numbers : jobs'[n].stage # "none" => jobs'[n].doc # 0
  BY DEF Inductive, TypeOK, ReadyAhead
<1> QED BY <1>1, AnyRequest

\* A client begins: of the two dependencies none is entered yet.
LEMMA StartStep ==
  ASSUME Inductive, NEW c \in Clients, NEW kind \in {"query", "upload", "ask"},
         NEW k \in Chats, Start(c, kind, k)
  PROVE  Inductive'
<1> DEFINE r == Received(kind, begun + 1, k)
<1>1. begun \in 0..MaxStarts /\ begun < MaxStarts /\ MaxStarts \in Nat
  BY PoolAssumption DEF Inductive, TypeOK, Start
<1>2. r \in Requests
  BY <1>1 DEF Received, Requests, Phases
<1>3. Fits(r)
  BY <1>1, WantedTyped DEF Received, Fits
<1>4. ~Owing(req[c])
  BY DEF Start, Owing
<1>5. free' \in Nat /\ begun' \in 0..MaxStarts /\ made' \in Seq(Numbers)
  BY <1>1 DEF Start, Inductive, TypeOK
<1>6. Become(c, r) /\ UNCHANGED <<late, tables, jobs, answered, unrecorded, crashes>>
  BY DEF Start
<1> HIDE DEF r
<1> QED BY <1>2, <1>3, <1>4, <1>5, <1>6, OneRequest

\* The pool and the list of documents are as before.
LEMMA SameRegisters ==
  ASSUME Inductive, UNCHANGED <<begun, made>>
  PROVE  begun' \in 0..MaxStarts /\ made' \in Seq(Numbers)
BY DEF Inductive, TypeOK

\* Entering and leaving dependencies.
LEMMA DispatchStep ==
  ASSUME Inductive, NEW c \in Clients, Dispatch(c)
  PROVE  Inductive'
<1>1. req[c] \in Requests /\ Fits(req[c])
  BY RequestFits
<1>2. PICK phase \in {"waiting", "exiting"} :
        /\ \/ req[c].phase = "entering" /\ phase = "waiting"
           \/ req[c].phase = "leaving" /\ phase = "exiting"
        /\ Become(c, [req[c] EXCEPT !.phase = phase])
  BY DEF Dispatch
<1> DEFINE r == [req[c] EXCEPT !.phase = phase]
<1>3. r \in Requests /\ r.phase = phase /\ r.n = req[c].n /\ r.held = req[c].held
      /\ r.kind = req[c].kind /\ r.ok = req[c].ok /\ r.facts = req[c].facts
      /\ r.doc = req[c].doc /\ r.row = req[c].row
  BY <1>1 DEF Requests, Phases
<1> HIDE DEF r
<1>4. Fits(r)
  BY <1>1, <1>2, <1>3 DEF Fits
<1>5. Owing(req[c]) => Owing(r) /\ r.n = req[c].n
  BY <1>2, <1>3 DEF Owing
<1>6. free' \in Nat /\ begun' \in 0..MaxStarts /\ made' \in Seq(Numbers)
  BY SameRegisters DEF Dispatch, Inductive, TypeOK
<1>7. Become(c, r)
  BY <1>2 DEF r
<1> QED BY <1>3, <1>4, <1>5, <1>6, <1>7, OneRequest DEF Dispatch

LEMMA ConnectStep ==
  ASSUME Inductive, NEW c \in Clients, Connect(c)
  PROVE  Inductive'
<1>1. req[c] \in Requests /\ Fits(req[c]) /\ req[c].phase = "waiting"
  BY RequestFits DEF Connect
<1>2. req[c].held \in {0, 1} /\ req[c].held < Wanted[req[c].kind]
      /\ Wanted[req[c].kind] \in {1, 2}
  BY <1>1, WantedTyped DEF Requests, Fits
<1> DEFINE phase == IF req[c].held + 1 < Wanted[req[c].kind] THEN "entering" ELSE "working"
           q == [req[c] EXCEPT !.held = @ + 1]
           r == [q EXCEPT !.phase = phase]
<1>3. phase \in {"entering", "working"}
      /\ (phase = "entering" => req[c].held + 1 < Wanted[req[c].kind])
  OBVIOUS
<1> HIDE DEF phase
<1>4. r \in Requests /\ r.phase = phase /\ r.n = req[c].n /\ r.held = req[c].held + 1
      /\ r.kind = req[c].kind /\ r.ok = req[c].ok /\ r.facts = req[c].facts
      /\ r.doc = req[c].doc /\ r.row = req[c].row
  <2>1. q \in Requests /\ q.n = req[c].n /\ q.held = req[c].held + 1
        /\ q.kind = req[c].kind /\ q.ok = req[c].ok /\ q.facts = req[c].facts
        /\ q.doc = req[c].doc /\ q.row = req[c].row
    BY <1>1, <1>2 DEF Requests
  <2> HIDE DEF q
  <2> QED BY <1>3, <2>1 DEF Requests, Phases
<1> HIDE DEF r
<1>5. Fits(r)
  BY <1>1, <1>2, <1>3, <1>4 DEF Fits
<1>6. ~Owing(req[c])
  BY <1>1 DEF Owing
<1>7. free' \in Nat /\ begun' \in 0..MaxStarts /\ made' \in Seq(Numbers)
  BY SameRegisters DEF Connect, Inductive, TypeOK
<1>8. Become(c, r)
  BY DEF Connect, r, q, phase
<1> QED BY <1>4, <1>5, <1>6, <1>7, <1>8, OneRequest DEF Connect

\* A request outside its route's two ends owes nothing yet.
LEMMA RouteEnds ==
  ASSUME Inductive, NEW c \in Clients, NEW r \in Requests, Fits(r), ~r.facts,
         r.phase # "idle", ~req[c].facts,
         \/ Become(c, Returned(r)) \/ Become(c, Raised(r)) \/ Become(c, r),
         free' = free, begun' = begun, made' \in Seq(Numbers),
         UNCHANGED <<late, tables, jobs, answered, unrecorded, crashes>>
  PROVE  Inductive'
<1>1. late \in BOOLEAN /\ free' \in Nat /\ begun' \in 0..MaxStarts
  BY DEF Inductive, TypeOK
<1>2. ~Owing(req[c])
  BY DEF Owing
<1>3. /\ Returned(r) \in Requests /\ Fits(Returned(r))
      /\ Raised(r) \in Requests /\ Fits(Raised(r))
  BY <1>1, ReturnedFits
<1> QED BY <1>1, <1>2, <1>3, OneRequest

\* The steps of the routes, one request each.
LEMMA RouteStep ==
  ASSUME Inductive, NEW c \in Clients,
         \/ PoolTimesOut(c)
         \/ \E q \in Questions, permitted, costly \in BOOLEAN : Query(c, q, permitted, costly)
         \/ UploadFails(c) \/ InsertGoesOn(c) \/ InsertTimesOut(c)
         \/ \E attached \in BOOLEAN : AskPolicy(c, attached)
         \/ AskGoesOn(c)
  PROVE  Inductive'
<1>1. req[c] \in Requests /\ Fits(req[c])
  BY RequestFits
<1>2. /\ req[c].phase \in {"waiting", "working", "inserting", "asking"} => ~req[c].facts
      /\ made \in Seq(Numbers) /\ late \in BOOLEAN /\ free \in Nat
      /\ begun \in 0..MaxStarts
  BY <1>1 DEF Fits, Inductive, TypeOK
<1>3. CASE PoolTimesOut(c)
  BY <1>1, <1>2, <1>3, RouteEnds DEF PoolTimesOut
<1>4. CASE \E q \in Questions, permitted, costly \in BOOLEAN : Query(c, q, permitted, costly)
  <2>1. PICK q \in Questions, permitted \in BOOLEAN, costly \in BOOLEAN :
          Query(c, q, permitted, costly)
    BY <1>4
  <2>2. /\ req[c].phase = "working" /\ req[c].kind = "query"
        /\ free' = free /\ begun' = begun /\ made' = made
        /\ UNCHANGED <<late, tables, jobs, answered, unrecorded, crashes>>
    BY <2>1 DEF Query
  <2> DEFINE found == Ask(q, permitted, costly)
             s == [req[c] EXCEPT !.facts = found = "facts"]
  <2>3. CASE found \in {"denied", "too_costly"}
    <3>1. Become(c, Raised(req[c]))
      BY <2>1, <2>3 DEF Query
    <3> QED BY <3>1, <2>2, <1>1, <1>2, RouteEnds
  <2>4. CASE found \notin {"denied", "too_costly"}
    <3>1. Become(c, Returned(s))
      BY <2>1, <2>4 DEF Query
    <3>2. PICK b \in BOOLEAN : b = (found = "facts")
      BY Zenon
    <3>3. s = [req[c] EXCEPT !.facts = b]
      BY <3>2
    <3> HIDE DEF s
    <3>4. s \in Requests /\ s.phase = "working" /\ s.held # 0 /\ s.n = req[c].n /\ s.n # 0
          /\ s.row = "none" /\ s.doc = req[c].doc /\ s.kind = "query" /\ s.ok = req[c].ok
      BY <3>3, <1>1, <2>2 DEF Requests, Fits
    <3>5. PICK phase \in {"replying", "leaving"} :
            Returned(s) = [s EXCEPT !.phase = phase] /\ (phase = "replying" => late)
      BY <3>4 DEF Returned
    <3> DEFINE t == [s EXCEPT !.phase = phase]
    <3>6. t \in Requests /\ t.phase = phase /\ t.held # 0 /\ t.n # 0 /\ t.row = "none"
      BY <3>4 DEF Requests, Phases
    <3> HIDE DEF t
    <3>7. Fits(t)
      BY <3>5, <3>6 DEF Fits
    <3>8. Become(c, t) /\ ~Owing(req[c])
      BY <3>1, <3>5, <2>2, <1>2 DEF Owing, t
    <3>9. free' \in Nat /\ begun' \in 0..MaxStarts /\ made' \in Seq(Numbers)
      BY <2>2, <1>2
    <3> QED BY <3>6, <3>7, <3>8, <3>9, <2>2, OneRequest
  <2> QED BY <2>3, <2>4
<1>5. CASE UploadFails(c)
  BY <1>1, <1>2, <1>5, RouteEnds DEF UploadFails
<1>6. CASE InsertGoesOn(c)
  BY <1>1, <1>2, <1>6, RouteEnds DEF InsertGoesOn
<1>7. CASE InsertTimesOut(c)
  <2> DEFINE s == [req[c] EXCEPT !.row = "none"]
  <2>1. s \in Requests /\ Fits(s) /\ ~s.facts /\ s.phase = "inserting" /\ ~req[c].facts
    BY <1>1, <1>2, <1>7 DEF InsertTimesOut, Requests, Fits
  <2>2. Become(c, Raised(s)) /\ made' = made /\ free' = free /\ begun' = begun
        /\ UNCHANGED <<late, tables, jobs, answered, unrecorded, crashes>>
    BY <1>7 DEF InsertTimesOut
  <2> HIDE DEF s
  <2> QED BY <1>2, <2>1, <2>2, RouteEnds
<1>8. CASE \E attached \in BOOLEAN : AskPolicy(c, attached)
  <2> DEFINE s == [req[c] EXCEPT !.phase = "asking"]
  <2>1. req[c].phase = "working" /\ (Become(c, Raised(req[c])) \/ Become(c, s))
        /\ made' = made /\ free' = free /\ begun' = begun
        /\ UNCHANGED <<late, tables, jobs, answered, unrecorded, crashes>>
    BY <1>8 DEF AskPolicy
  <2>2. s \in Requests /\ Fits(s) /\ ~s.facts /\ s.phase = "asking"
    BY <1>1, <1>2, <2>1 DEF Requests, Phases, Fits
  <2> HIDE DEF s
  <2> QED BY <1>1, <1>2, <2>1, <2>2, RouteEnds
<1>9. CASE AskGoesOn(c)
  BY <1>1, <1>2, <1>9, RouteEnds DEF AskGoesOn
<1> QED BY <1>3, <1>4, <1>5, <1>6, <1>7, <1>8, <1>9

\* A file is found, or a document is made of it.
LEMMA UploadStep ==
  ASSUME Inductive, NEW c \in Clients, NEW doc \in Numbers, Upload(c, doc)
  PROVE  Inductive'
<1>1. req[c] \in Requests /\ Fits(req[c]) /\ req[c].phase = "working" /\ ~req[c].facts
  BY RequestFits DEF Upload, Fits
<1> DEFINE row == IF rows[req[c].chat] # NoRow THEN "none"
                  ELSE IF doc # req[c].n /\ Ready(doc) THEN "READY" ELSE "UPLOADED"
           q == [req[c] EXCEPT !.doc = doc]
           s == [q EXCEPT !.row = row]
           t == [s EXCEPT !.phase = "inserting"]
<1>2. row \in {"none", "UPLOADED", "READY"} /\ (row = "READY" => Ready(doc))
  OBVIOUS
<1>3. row = "READY" => docs[doc].embedded
  BY <1>2 DEF Ready, Inductive, ReadyAhead
<1>4. doc # 0 /\ doc \in 0..MaxStarts
  BY PoolAssumption DEF Numbers
<1>5. s = [req[c] EXCEPT !.doc = doc, !.row = row]
  OBVIOUS
<1>6. /\ made' \in Seq(Numbers) /\ free' = free /\ begun' = begun
      /\ UNCHANGED <<late, tables, jobs, answered, unrecorded, crashes>>
  BY DEF Upload, Inductive, TypeOK
<1>7. Become(c, t) \/ Become(c, Returned(s))
  BY <1>5 DEF Upload
<1> HIDE DEF row
<1>8. q \in Requests /\ q.doc = doc /\ q.phase = "working" /\ q.held = req[c].held
      /\ q.n = req[c].n /\ q.facts = FALSE /\ q.ok = req[c].ok
  BY <1>1, <1>4 DEF Requests
<1> HIDE DEF q
<1>9. s \in Requests /\ s.doc = doc /\ s.phase = "working" /\ s.held = req[c].held
      /\ s.n = req[c].n /\ s.facts = FALSE /\ s.ok = req[c].ok /\ s.row = row
  BY <1>2, <1>8 DEF Requests
<1> HIDE DEF s
<1>9a. Returned(s) = Returned(t)
  <2>1. \A p \in Phases : [s EXCEPT !.phase = p] = [t EXCEPT !.phase = p]
    BY <1>9 DEF Requests
  <2>2. t.ok = s.ok /\ t.held = s.held
    BY <1>9 DEF Requests
  <2> QED BY <2>1, <2>2 DEF Returned, Phases
<1>10. t \in Requests /\ t.doc = doc /\ t.phase = "inserting" /\ t.held = req[c].held
       /\ t.n = req[c].n /\ t.facts = FALSE /\ t.row = row
  BY <1>9 DEF Requests, Phases
<1> HIDE DEF t
<1>11. Fits(t)
  BY <1>1, <1>3, <1>4, <1>10 DEF Fits
<1>12. CASE Become(c, t)
  BY <1>1, <1>6, <1>10, <1>11, <1>12, RouteEnds
<1>13. CASE Become(c, Returned(s))
  BY <1>1, <1>6, <1>10, <1>11, <1>13, <1>9a, RouteEnds
<1> QED BY <1>7, <1>12, <1>13

\* A dependency is left: what its transaction wrote is there.
LEMMA ExitStep ==
  ASSUME Inductive, NEW c \in Clients, Exit(c)
  PROVE  Inductive'
<1> USE DEF tables
<1> DEFINE r == req[c]
<1>1. r \in Requests /\ Fits(r) /\ r.phase = "exiting" /\ r.n # 0 /\ r.n \in Numbers
      /\ r.held \in {1, 2}
  BY RequestFits, PoolAssumption DEF Exit, Fits, Requests, Numbers
<1>2. /\ docs \in [Numbers -> Documents] /\ rows \in [Chats -> Rows]
      /\ free' \in Nat /\ begun' \in 0..MaxStarts /\ made' \in Seq(Numbers)
      /\ UNCHANGED <<late, jobs, answered, unrecorded, crashes>>
  BY DEF Exit, Freed, Inductive, TypeOK
<1>3. docs' \in [Numbers -> Documents]
      /\ \A n \in Numbers : docs'[n].embedded = docs[n].embedded
                           /\ (docs'[n].status = "indexed" => docs[n].status = "indexed")
  <2>1. CASE docs' = docs
    BY <1>2, <2>1
  <2>2. CASE docs' = [docs EXCEPT ![r.n].status = "uploaded"]
    BY <1>1, <1>2, <2>2 DEF Documents, Statuses
  <2> QED BY <2>1, <2>2 DEF Exit
<1>4. PICK next :
        /\ Become(c, next)
        /\ \/ r.held = 2 /\ next = [r EXCEPT !.held = 1, !.phase = "leaving"]
           \/ r.held = 1 /\ next = Idle
           \/ r.held = 1 /\ next = [r EXCEPT !.held = 0, !.phase = "replying"]
  <2>1. CASE r.held > 1
    <3>1. r.held = 2 /\ r.held - 1 = 1
      BY <1>1, <2>1
    <3>2. PICK held \in Int : held = r.held - 1
      BY <3>1
    <3>3. held = 1
      BY <3>1, <3>2
    <3>4. Become(c, [r EXCEPT !.held = @ - 1, !.phase = "leaving"])
      BY <2>1 DEF Exit
    <3>5. [r EXCEPT !.held = @ - 1, !.phase = "leaving"]
            = [r EXCEPT !.held = held, !.phase = "leaving"]
      BY <3>2, Zenon
    <3>6. Become(c, [r EXCEPT !.held = 1, !.phase = "leaving"])
      BY <3>3, <3>4, <3>5, Zenon
    <3> QED BY <3>1, <3>6
  <2>2. CASE ~(r.held > 1)
    <3>1. r.held = 1
      BY <1>1, <2>2
    <3>2. \/ Become(c, Idle) \/ Become(c, [r EXCEPT !.held = 0, !.phase = "replying"])
      BY <2>2 DEF Exit
    <3> QED BY <3>1, <3>2
  <2> QED BY <2>1, <2>2
<1>5. /\ next \in Requests
      /\ \/ next.phase = "idle" /\ ~next.facts /\ next.row = "none" /\ r.held = 1
         \/ /\ next.n = r.n /\ next.ok = r.ok /\ next.facts = r.facts
            /\ next.row = r.row /\ next.doc = r.doc
            /\ \/ r.held = 2 /\ next.held = 1 /\ next.phase = "leaving"
               \/ r.held = 1 /\ next.held = 0 /\ next.phase = "replying"
  <2>1. CASE r.held = 2 /\ next = [r EXCEPT !.held = 1, !.phase = "leaving"]
    <3> DEFINE q == [r EXCEPT !.held = 1]
    <3>1. q \in Requests /\ q.held = 1 /\ q.n = r.n /\ q.ok = r.ok /\ q.facts = r.facts
          /\ q.row = r.row /\ q.doc = r.doc
      BY <1>1 DEF Requests
    <3>2. next = [q EXCEPT !.phase = "leaving"]
      BY <2>1
    <3> HIDE DEF q
    <3> QED BY <2>1, <3>1, <3>2 DEF Requests, Phases
  <2>2. CASE r.held = 1 /\ next = Idle
    BY <2>2, IdleFits
  <2>3. CASE r.held = 1 /\ next = [r EXCEPT !.held = 0, !.phase = "replying"]
    <3> DEFINE q == [r EXCEPT !.held = 0]
    <3>1. q \in Requests /\ q.held = 0 /\ q.n = r.n /\ q.ok = r.ok /\ q.facts = r.facts
          /\ q.row = r.row /\ q.doc = r.doc
      BY <1>1 DEF Requests
    <3>2. next = [q EXCEPT !.phase = "replying"]
      BY <2>3
    <3> HIDE DEF q
    <3> QED BY <2>3, <3>1, <3>2 DEF Requests, Phases
  <2> QED BY <1>4, <2>1, <2>2, <2>3
<1>6. /\ audit' \subseteq Numbers /\ audit \subseteq audit'
      /\ r.held = 1 /\ r.ok /\ r.facts => r.n \in audit'
  BY <1>1 DEF Exit, Accounts, Inductive, TypeOK
<1>7. /\ req' = [req EXCEPT ![c] = next] /\ req' \in [Clients -> Requests]
      /\ req'[c] = next /\ \A d \in Clients \ {c} : req'[d] = req[d]
  BY <1>4, <1>5 DEF Become, Inductive, TypeOK
<1>8. \A k \in Chats :
        /\ rows'[k] \in Rows
        /\ rows'[k].status = "READY" => rows'[k].doc # 0 /\ docs[rows'[k].doc].embedded
  <2> SUFFICES ASSUME NEW k \in Chats
               PROVE  /\ rows'[k] \in Rows
                      /\ rows'[k].status = "READY" =>
                           rows'[k].doc # 0 /\ docs[rows'[k].doc].embedded
    OBVIOUS
  <2>1. CASE rows'[k] = rows[k]
    BY <1>2, <2>1 DEF Inductive, ReadyIsEmbedded
  <2>2. CASE r.row = "READY" /\ rows'[k] = [id |-> r.n, doc |-> r.doc, status |-> "READY"]
    BY <1>1, <2>2 DEF Fits, Rows, Requests
  <2>3. CASE rows'[k] = [id |-> r.n, doc |-> 0, status |-> "UPLOADED"]
    BY <1>1, <2>3, PoolAssumption DEF Rows, Requests
  <2>4. \/ rows' = rows
        \/ r.row = "READY"
           /\ rows' = [rows EXCEPT ![r.chat] = [id |-> r.n, doc |-> r.doc, status |-> "READY"]]
        \/ rows' = [rows EXCEPT ![r.chat] = [id |-> r.n, doc |-> 0, status |-> "UPLOADED"]]
    <3>1. CASE Attaches(r) /\ rows[r.chat] = NoRow
      <4>1. CASE r.row = "READY"
        BY <3>1, <4>1 DEF Exit
      <4>2. CASE r.row # "READY"
        BY <3>1, <4>2 DEF Exit
      <4> QED BY <4>1, <4>2
    <3>2. CASE ~(Attaches(r) /\ rows[r.chat] = NoRow)
      BY <3>2 DEF Exit
    <3> QED BY <3>1, <3>2
  <2> QED BY <2>1, <2>2, <2>3, <2>4, <1>2
<1>9. rows' \in [Chats -> Rows]
  <2>1. DOMAIN rows' = Chats /\ rows' = [k \in Chats |-> rows'[k]]
    BY <1>2 DEF Exit
  <2> QED BY <2>1, <1>8
<1>10. TypeOK'
  BY <1>2, <1>3, <1>6, <1>7, <1>9 DEF Inductive, TypeOK
<1> HIDE DEF r
<1>11. \A d \in Clients \ {c} : Fits(req[d])'
  BY <1>2, <1>3, <1>6, <1>7, RequestFits DEF Fits, Requests, Numbers
<1>12. Fits(req[c])'
  BY <1>1, <1>2, <1>3, <1>5, <1>6, <1>7 DEF Fits, Requests, Numbers
<1>13. Holding'
  BY <1>11, <1>12 DEF Holding, Fits
<1>14. ReadyAhead' /\ ReadyIsEmbedded'
  <2>1. \A n \in Numbers :
          /\ docs'[n].status = "indexed" => docs'[n].embedded
          /\ jobs'[n].stage # "none" => jobs'[n].doc # 0
          /\ jobs'[n].stage = "ready" => docs'[jobs'[n].doc].embedded
    <3>1. \A n \in Numbers : jobs[n].stage = "ready" => jobs[n].doc \in Numbers
      BY PoolAssumption DEF Inductive, TypeOK, ReadyAhead, Jobs, Numbers
    <3> QED BY <1>2, <1>3, <3>1 DEF Inductive, ReadyAhead
  <2>2. \A d \in Clients : req'[d].row = "READY" => docs'[req'[d].doc].embedded
    BY <1>11, <1>12 DEF Fits
  <2>3. ReadyIsEmbedded'
    <3>1. \A k \in Chats : rows'[k].doc # 0 => rows'[k].doc \in Numbers
      BY <1>8, PoolAssumption DEF Rows, Numbers
    <3> QED BY <1>3, <1>8, <3>1 DEF ReadyIsEmbedded
  <2> QED BY <2>1, <2>2, <2>3 DEF ReadyAhead
<1>15. AuditAhead'
  <2>1. \A d \in Clients :
          req'[d].phase = "replying" /\ req'[d].ok /\ req'[d].facts /\ req'[d].held = 0 =>
            req'[d].n \in audit'
    BY <1>11, <1>12 DEF Fits
  <2>2. \A n \in answered' \ audit' :
          late' /\ (crashes' > 0 \/ \E d \in Clients : req'[d].n = n /\ Owing(req'[d]))
    <3> SUFFICES ASSUME NEW n \in answered \ audit, n \notin audit'
                 PROVE  late /\ (crashes > 0
                                 \/ \E d \in Clients : req'[d].n = n /\ Owing(req'[d]))
      BY <1>2, <1>6
    <3>1. late /\ (crashes > 0 \/ \E d \in Clients : req[d].n = n /\ Owing(req[d]))
      BY DEF Inductive, AuditAhead, Owing
    <3>2. req[c].n = n /\ Owing(req[c]) => req'[c].n = n /\ Owing(req'[c])
      BY <1>5, <1>6, <1>7 DEF Owing, r
    <3> QED BY <3>1, <3>2, <1>7
  <2> QED BY <2>1, <2>2 DEF AuditAhead, Owing
<1> QED BY <1>10, <1>13, <1>14, <1>15 DEF Inductive

\* The response is sent, and the job of an upload started.
LEMMA ReplyStep ==
  ASSUME Inductive, NEW c \in Clients, Reply(c)
  PROVE  Inductive'
<1> DEFINE r == req[c]
           task == r.ok /\ r.row = "UPLOADED"
<1>1. r \in Requests /\ Fits(r) /\ r.phase = "replying" /\ r.n # 0 /\ r.n \in Numbers
  BY RequestFits, PoolAssumption DEF Reply, Fits, Requests, Numbers
<1>2. /\ free' \in Nat /\ begun' \in 0..MaxStarts /\ made' \in Seq(Numbers)
      /\ UNCHANGED <<late, tables, unrecorded, crashes>>
  BY SameRegisters DEF Reply, Inductive, TypeOK
<1>3. /\ jobs' \in [Numbers -> Jobs]
      /\ \A n \in Numbers :
           /\ jobs'[n].stage # "none" => jobs'[n].doc # 0
           /\ jobs'[n].stage = "ready" => jobs'[n] = jobs[n]
  <2>1. CASE task
    <3> DEFINE job == [stage |-> "parse", doc |-> r.doc, seen |-> "absent"]
    <3>1. job \in Jobs /\ job.stage = "parse" /\ job.doc # 0
      BY <1>1, <2>1 DEF Jobs, Statuses, Requests, Fits
    <3>2. jobs' = [jobs EXCEPT ![r.n] = job]
      BY <2>1 DEF Reply
    <3> HIDE DEF job
    <3> QED BY <3>1, <3>2, <1>1 DEF Inductive, TypeOK, ReadyAhead
  <2>2. CASE ~task
    BY <2>2 DEF Reply, Inductive, TypeOK, ReadyAhead
  <2> QED BY <2>1, <2>2
<1>4. answered' \subseteq Numbers /\ \A n \in answered' \ answered : n = r.n /\ r.ok /\ r.facts
  BY <1>1 DEF Reply, Inductive, TypeOK
<1>5. ~Owing(req[c])
  BY <1>1 DEF Owing
<1>6. CASE r.held = 0
  <2>1. Become(c, Idle)
    BY <1>6 DEF Reply
  <2>2. Fits(Idle)
    BY IdleFits DEF Fits
  <2>3. \A n \in answered' \ answered : n \in audit
    BY <1>1, <1>4, <1>6 DEF Fits
  <2> QED BY <1>2, <1>3, <1>4, <1>5, <2>1, <2>2, <2>3, IdleFits, AnyRequest
<1>7. CASE r.held # 0
  <2>1. PICK phase \in {"serving", "leaving"} :
          /\ Become(c, [r EXCEPT !.phase = phase])
          /\ phase = "serving" => r.row = "UPLOADED"
    BY <1>7 DEF Reply
  <2> DEFINE t == [r EXCEPT !.phase = phase]
  <2>2. t \in Requests /\ t.phase = phase /\ t.n = r.n /\ t.held = r.held /\ t.ok = r.ok
        /\ t.facts = r.facts /\ t.row = r.row /\ t.doc = r.doc
    BY <1>1 DEF Requests, Phases
  <2> HIDE DEF t
  <2>3. Fits(t)
    BY <1>1, <1>7, <2>1, <2>2 DEF Fits
  <2>4. \A n \in answered' \ answered : late /\ Owing(t) /\ t.n = n
    BY <1>1, <1>4, <1>7, <2>1, <2>2 DEF Fits, Owing
  <2>5. Become(c, t)
    BY <2>1 DEF t
  <2> HIDE DEF r
  <2> QED BY <1>2, <1>3, <1>4, <1>5, <2>2, <2>3, <2>4, <2>5, AnyRequest
<1> QED BY <1>6, <1>7

\* A request whose job is over goes on to leave its dependencies.
LEMMA ServedStep ==
  ASSUME Inductive, NEW c \in Clients, Served(c)
  PROVE  Inductive'
<1> DEFINE r == [req[c] EXCEPT !.phase = "leaving"]
<1>1. req[c] \in Requests /\ Fits(req[c]) /\ req[c].phase = "serving"
  BY RequestFits DEF Served
<1>2. r \in Requests /\ r.phase = "leaving" /\ r.n = req[c].n /\ r.held = req[c].held
      /\ r.facts = req[c].facts /\ r.row = req[c].row /\ r.doc = req[c].doc
  BY <1>1 DEF Requests, Phases
<1>3. Become(c, r)
  BY DEF Served
<1> HIDE DEF r
<1>4. Fits(r) /\ ~Owing(req[c])
  BY <1>1, <1>2 DEF Fits, Owing
<1>5. free' \in Nat /\ begun' \in 0..MaxStarts /\ made' \in Seq(Numbers)
  BY SameRegisters DEF Served, Inductive, TypeOK
<1> QED BY <1>2, <1>3, <1>4, <1>5, OneRequest DEF Served

-----------------------------------------------------------------------------
(* The jobs.                                                               *)

DocsKept ==
  /\ docs' \in [Numbers -> Documents]
  /\ \A n \in Numbers :
       /\ docs[n].embedded => docs'[n].embedded
       /\ docs'[n].status = "indexed" => docs'[n].embedded

RowsKept ==
  /\ rows' \in [Chats -> Rows]
  /\ \A k \in Chats : rows'[k].status = "READY" =>
       rows'[k].doc # 0 /\ docs[rows'[k].doc].embedded

JobsKept ==
  /\ jobs' \in [Numbers -> Jobs]
  /\ \A n \in Numbers :
       /\ jobs'[n].stage # "none" => jobs'[n].doc # 0
       /\ jobs'[n].stage = "ready" => docs'[jobs'[n].doc].embedded

\* A step of a job preserves the invariant if it keeps these three.
LEMMA OneJob ==
  ASSUME Inductive, DocsKept, RowsKept, JobsKept, unrecorded' \subseteq Numbers,
         UNCHANGED <<late, free, req, begun, made, audit, answered, crashes>>
  PROVE  Inductive'
<1>1. TypeOK' /\ Holding' /\ AuditAhead'
  BY DEF Inductive, TypeOK, Holding, AuditAhead, DocsKept, RowsKept, JobsKept
<1>2. ReadyAhead'
  <2>1. \A c \in Clients : req[c].row = "READY" => req[c].doc \in Numbers
    BY PoolAssumption DEF Inductive, TypeOK, Holding, Requests, Numbers
  <2> QED BY <2>1 DEF Inductive, ReadyAhead, DocsKept, JobsKept
<1>3. ReadyIsEmbedded'
  <2>1. \A k \in Chats : rows'[k].doc # 0 => rows'[k].doc \in Numbers
    BY PoolAssumption DEF RowsKept, Rows, Numbers
  <2> QED BY <2>1 DEF ReadyIsEmbedded, RowsKept, DocsKept
<1> QED BY <1>1, <1>2, <1>3 DEF Inductive

\* The document of a job.
LEMMA JobDocument ==
  ASSUME Inductive, NEW n \in Numbers, jobs[n].stage # "none"
  PROVE  jobs[n].doc \in Numbers /\ docs[jobs[n].doc] \in Documents
BY PoolAssumption DEF Inductive, TypeOK, ReadyAhead, Jobs, Numbers

\* Marking a row with a status other than READY, or none.
LEMMA MarkedKept ==
  ASSUME Inductive, NEW n \in Numbers,
         NEW s \in {"PARSING", "CHUNKING", "EMBEDDING", "REVIEW_REQUIRED", "FAILED"},
         rows' = Marked(n, s, 0) \/ rows' = rows
  PROVE  RowsKept
<1>1. rows \in [Chats -> Rows]
  BY DEF Inductive, TypeOK
<1>2. CASE rows' = rows
  BY <1>1, <1>2 DEF RowsKept, Inductive, ReadyIsEmbedded
<1>3. CASE rows' = Marked(n, s, 0)
  <2>1. \A k \in Chats : [rows[k] EXCEPT !.status = s, !.doc = rows[k].doc] \in Rows
                         /\ [rows[k] EXCEPT !.status = s, !.doc = rows[k].doc].status = s
    <3> SUFFICES ASSUME NEW k \in Chats
                 PROVE  [rows[k] EXCEPT !.status = s, !.doc = rows[k].doc] \in Rows
                        /\ [rows[k] EXCEPT !.status = s, !.doc = rows[k].doc].status = s
      OBVIOUS
    <3> DEFINE x == [rows[k] EXCEPT !.status = s]
    <3>1. x \in Rows /\ x.status = s
      BY <1>1 DEF Rows
    <3> HIDE DEF x
    <3>2. [x EXCEPT !.doc = rows[k].doc] \in Rows /\ [x EXCEPT !.doc = rows[k].doc].status = s
      BY <3>1, <1>1 DEF Rows
    <3> QED BY <3>2 DEF x
  <2>2. rows' = [k \in Chats |-> IF rows[k].id = n
                   THEN [rows[k] EXCEPT !.status = s, !.doc = rows[k].doc] ELSE rows[k]]
    BY <1>3, Zenon DEF Marked
  <2>3. \A k \in Chats : rows'[k] \in Rows /\ (rows'[k].status = "READY" => rows'[k] = rows[k])
    BY <1>1, <2>1, <2>2
  <2>4. rows' \in [Chats -> Rows]
    BY <2>2, <2>3
  <2> QED BY <2>3, <2>4 DEF RowsKept, Inductive, ReadyIsEmbedded
<1> QED BY <1>2, <1>3

\* Documents that stay, or take another status than indexed.
LEMMA TurnsKept ==
  ASSUME Inductive, NEW d \in Numbers, NEW s \in Statuses \ {"indexed"},
         Turns(d, s) \/ docs' = docs
  PROVE  DocsKept
<1>1. docs \in [Numbers -> Documents]
      /\ \A n \in Numbers : docs[n].status = "indexed" => docs[n].embedded
  BY DEF Inductive, TypeOK, ReadyAhead
<1>2. CASE docs' = docs
  BY <1>1, <1>2 DEF DocsKept
<1>3. CASE Turns(d, s)
  <2> DEFINE x == [docs[d] EXCEPT !.status = s]
  <2>1. docs' = [docs EXCEPT ![d] = x]
    BY <1>3 DEF Turns
  <2>2. x \in Documents /\ x.status # "indexed" /\ x.embedded = docs[d].embedded
    BY <1>1 DEF Documents
  <2> HIDE DEF x
  <2> QED BY <1>1, <2>1, <2>2 DEF DocsKept
<1> QED BY <1>2, <1>3

\* A job that ends, or goes on to a stage other than ready.
LEMMA GoesKept ==
  ASSUME Inductive, DocsKept, NEW n \in Numbers, jobs[n].stage # "none",
         NEW stage \in {"parse", "parsing", "chunk", "chunking", "embed", "embedding",
                        "review", "fail"},
         NEW seen \in Statuses,
         \/ Goes(n, stage) \/ Ends(n)
         \/ jobs' = [jobs EXCEPT ![n] = [jobs[n] EXCEPT !.stage = stage, !.seen = seen]]
  PROVE  JobsKept
<1>1. /\ jobs \in [Numbers -> Jobs]
      /\ \A m \in Numbers : jobs[m].stage # "none" => jobs[m].doc # 0 /\ jobs[m].doc \in Numbers
  BY JobDocument DEF Inductive, TypeOK, ReadyAhead
<1>2. PICK job \in Jobs :
        /\ jobs' = [jobs EXCEPT ![n] = job]
        /\ job.stage # "ready" /\ (job.stage # "none" => job.doc # 0)
  <2>1. CASE Goes(n, stage)
    <3> DEFINE x == [jobs[n] EXCEPT !.stage = stage]
    <3>1. x \in Jobs /\ x.stage = stage /\ x.doc # 0
      BY <1>1 DEF Jobs
    <3> QED BY <2>1, <3>1, <1>1 DEF Goes
  <2>2. CASE Ends(n)
    <3>1. NoJob \in Jobs /\ NoJob.stage = "none"
      BY PoolAssumption DEF NoJob, Jobs, Statuses
    <3> QED BY <2>2, <3>1 DEF Ends
  <2>3. CASE jobs' = [jobs EXCEPT ![n] = [jobs[n] EXCEPT !.stage = stage, !.seen = seen]]
    <3> DEFINE x == [jobs[n] EXCEPT !.stage = stage]
               y == [x EXCEPT !.seen = seen]
    <3>1. x \in Jobs /\ x.stage = stage /\ x.doc # 0
      BY <1>1 DEF Jobs
    <3>2. jobs' = [jobs EXCEPT ![n] = y]
      BY <2>3
    <3> HIDE DEF x
    <3>3. y \in Jobs /\ y.stage = stage /\ y.doc # 0
      BY <3>1 DEF Jobs
    <3> HIDE DEF y
    <3> QED BY <3>2, <3>3
  <2> QED BY <2>1, <2>2, <2>3
<1>3. jobs' \in [Numbers -> Jobs]
      /\ \A m \in Numbers : jobs'[m] = IF m = n THEN job ELSE jobs[m]
  BY <1>1, <1>2
<1>4. \A m \in Numbers : jobs'[m].stage = "ready" =>
        jobs'[m] = jobs[m] /\ docs[jobs[m].doc].embedded /\ jobs[m].doc \in Numbers
  BY <1>1, <1>2, <1>3 DEF Inductive, ReadyAhead
<1> QED BY <1>1, <1>2, <1>3, <1>4 DEF JobsKept, DocsKept

LEMMA JobStep ==
  ASSUME Inductive, NEW n \in Numbers, JobGoesOn(n)
  PROVE  Inductive'
<1> DEFINE d == jobs[n].doc
<1>1. jobs[n].stage # "none" /\ d \in Numbers /\ docs[d] \in Documents
  <2>1. jobs[n].stage # "none"
    BY DEF JobGoesOn, JobParse, JobParsed, JobChunk, JobChunked, JobEmbed, JobEmbedded,
           JobReady, JobReview, JobRaises, JobStarves, JobFails, JobUnrecorded
  <2> QED BY <2>1, JobDocument
<1>2. /\ docs \in [Numbers -> Documents] /\ rows \in [Chats -> Rows]
      /\ jobs \in [Numbers -> Jobs] /\ unrecorded \subseteq Numbers
      /\ \A m \in Numbers : docs[m].status \in Statuses
  BY DEF Inductive, TypeOK, Documents
<1>3. jobs[n].seen \in Statuses
  BY <1>2 DEF Jobs
<1> DEFINE Still == unrecorded' \subseteq Numbers
                    /\ UNCHANGED <<late, free, req, begun, made, audit, answered, crashes>>
<1>4. JobUnchanged => Still
  BY <1>2 DEF JobUnchanged
<1>5. ASSUME NEW s \in {"PARSING", "CHUNKING", "EMBEDDING", "REVIEW_REQUIRED", "FAILED"},
             rows' = Marked(n, s, 0) \/ rows' = rows,
             NEW t \in Statuses \ {"indexed"}, Turns(d, t) \/ docs' = docs,
             NEW stage \in {"parse", "parsing", "chunk", "chunking", "embed", "embedding",
                            "review", "fail"},
             NEW seen \in Statuses,
             \/ Goes(n, stage) \/ Ends(n)
             \/ jobs' = [jobs EXCEPT ![n] = [jobs[n] EXCEPT !.stage = stage, !.seen = seen]],
             Still
      PROVE  Inductive'
  <2>1. RowsKept
    BY <1>5, MarkedKept
  <2>2. DocsKept
    BY <1>1, <1>5, TurnsKept
  <2>3. JobsKept
    BY <1>1, <1>5, <2>2, GoesKept
  <2> QED BY <1>5, <2>1, <2>2, <2>3, OneJob
<1> HIDE DEF Still
<1>6. "parsing" \in Statuses \ {"indexed"} /\ "chunk_ready" \in Statuses \ {"indexed"}
      /\ "failed" \in Statuses \ {"indexed"}
  BY DEF Statuses
<1>7. CASE JobParse(n)
  <2>1. rows' = Marked(n, "PARSING", 0) /\ Still
    BY <1>4, <1>7, Zenon DEF JobParse
  <2>2. \/ Goes(n, "chunk") /\ docs' = docs
        \/ Goes(n, "review") /\ docs' = docs
        \/ Goes(n, "parsing") /\ Turns(d, "parsing")
        \/ Goes(n, "fail") /\ docs' = docs
    BY <1>7, SMT DEF JobParse
  <2> QED BY <1>3, <1>5, <1>6, <2>1, <2>2, Zenon
<1>8. ASSUME NEW result \in {"passed", "review"}, JobParsed(n, result) PROVE Inductive'
  <2>1. rows' = rows /\ Still
    BY <1>4, <1>8, Zenon DEF JobParsed
  <2>2. CASE docs[d].status # "parsing"
    <3>1. Goes(n, "fail") /\ docs' = docs
      BY <1>8, <2>2 DEF JobParsed
    <3> QED BY <1>3, <1>5, <1>6, <2>1, <3>1, Zenon
  <2>3. CASE docs[d].status = "parsing"
    <3> DEFINE s == IF result = "passed" THEN "canonicalized" ELSE "review_required"
               x == [docs[d] EXCEPT !.artifact = result]
               y == [x EXCEPT !.status = s]
    <3>1. docs' = [docs EXCEPT ![d] = y] /\ (Goes(n, "chunk") \/ Goes(n, "review"))
      BY <1>1, <1>2, <1>8, <2>3 DEF JobParsed
    <3>2. s \in Statuses \ {"indexed"}
      BY DEF Statuses
    <3>3. x \in Documents /\ x.embedded = docs[d].embedded
      BY <1>1, <1>8 DEF Documents
    <3> HIDE DEF x, s
    <3>4. y \in Documents /\ y.status # "indexed" /\ y.embedded = docs[d].embedded
      BY <3>2, <3>3 DEF Documents
    <3> HIDE DEF y
    <3>5. DocsKept
      BY <1>1, <1>2, <3>1, <3>4 DEF DocsKept, Inductive, ReadyAhead
    <3>6. JobsKept
      BY <1>1, <1>3, <3>1, <3>5, GoesKept
    <3>7. RowsKept
      BY <2>1, MarkedKept
    <3> QED BY <2>1, <3>5, <3>6, <3>7, OneJob DEF Still
  <2> QED BY <2>2, <2>3
<1>9. CASE JobChunk(n)
  <2>1. rows' = Marked(n, "CHUNKING", 0) /\ docs' = docs /\ Still
    BY <1>4, <1>9, Zenon DEF JobChunk
  <2>2. docs[d].status \in Statuses
    BY <1>1, <1>2
  <2>3. CASE docs[d].status \in {"canonicalized", "chunk_ready", "indexed"}
    <3>1. jobs' = [jobs EXCEPT ![n].stage = "chunking", ![n].seen = docs[d].status]
      BY <1>9, <2>3, Zenon DEF JobChunk
    <3> QED BY <1>2, <1>5, <1>6, <2>1, <2>2, <3>1
  <2>4. CASE docs[d].status \notin {"canonicalized", "chunk_ready", "indexed"}
    <3>1. Goes(n, "fail")
      BY <1>9, <2>4, Zenon DEF JobChunk, Goes
    <3> QED BY <1>3, <1>5, <1>6, <2>1, <3>1, Zenon
  <2> QED BY <2>3, <2>4
<1>10. CASE JobChunked(n)
  BY <1>4, <1>5, <1>6, <1>10 DEF JobChunked
<1>11. CASE JobEmbed(n)
  BY <1>2, <1>1, <1>4, <1>5, <1>6, <1>11 DEF JobEmbed
<1>12. CASE JobEmbedded(n)
  <2> DEFINE x == [docs[d] EXCEPT !.status = "indexed"]
             y == [x EXCEPT !.embedded = TRUE]
             z == [docs[d] EXCEPT !.embedded = TRUE]
             job == [jobs[n] EXCEPT !.stage = "ready"]
  <2>1. rows' = rows /\ Still /\ jobs' = [jobs EXCEPT ![n] = job]
    BY <1>4, <1>12, Zenon DEF JobEmbedded, Goes
  <2>2. docs' = [docs EXCEPT ![d] = y] \/ docs' = [docs EXCEPT ![d] = z]
    BY <1>1, <1>2, <1>12 DEF JobEmbedded, Embedded
  <2>3. x \in Documents /\ z \in Documents /\ z.embedded
    BY <1>1 DEF Documents, Statuses
  <2>4. job \in Jobs /\ job.doc = d
    BY <1>2 DEF Jobs
  <2> HIDE DEF x, z, job
  <2>5. y \in Documents /\ y.embedded
    BY <2>3 DEF Documents
  <2> HIDE DEF y
  <2>6. DocsKept /\ docs'[d].embedded
    BY <1>1, <1>2, <2>2, <2>3, <2>5 DEF DocsKept, Inductive, ReadyAhead
  <2>7. JobsKept
    <3>1. jobs' \in [Numbers -> Jobs]
          /\ \A m \in Numbers : jobs'[m] = IF m = n THEN job ELSE jobs[m]
      BY <1>2, <2>1, <2>4
    <3>2. \A m \in Numbers : jobs[m].stage # "none" => jobs[m].doc # 0 /\ jobs[m].doc \in Numbers
      BY JobDocument DEF Inductive, ReadyAhead
    <3>3. \A m \in Numbers : jobs[m].stage = "ready" => docs[jobs[m].doc].embedded
      BY DEF Inductive, ReadyAhead
    <3> QED BY <1>1, <2>4, <2>6, <3>1, <3>2, <3>3 DEF JobsKept, DocsKept
  <2>8. RowsKept
    BY <2>1, MarkedKept
  <2> QED BY <2>1, <2>6, <2>7, <2>8, OneJob DEF Still
<1>13. CASE JobReady(n)
  <2>1. docs' = docs /\ Still /\ Ends(n) /\ jobs[n].stage = "ready"
    BY <1>4, <1>13, Zenon DEF JobReady
  <2>2. DocsKept
    BY <2>1, <1>1, <1>6, TurnsKept
  <2>3. JobsKept
    BY <1>1, <1>3, <2>1, <2>2, GoesKept
  <2>4. docs[d].embedded /\ d # 0
    BY <2>1 DEF Inductive, ReadyAhead
  <2>5. rows' = [k \in Chats |-> IF rows[k].id = n
                   THEN [rows[k] EXCEPT !.status = "READY", !.doc = d] ELSE rows[k]]
    <3>1. rows' = Marked(n, "READY", d)
      BY <1>13, Zenon DEF JobReady
    <3> QED BY <3>1, <2>4 DEF Marked
  <2>6. \A k \in Chats : [rows[k] EXCEPT !.status = "READY", !.doc = d] \in Rows
                         /\ [rows[k] EXCEPT !.status = "READY", !.doc = d].doc = d
    <3> SUFFICES ASSUME NEW k \in Chats
                 PROVE  [rows[k] EXCEPT !.status = "READY", !.doc = d] \in Rows
                        /\ [rows[k] EXCEPT !.status = "READY", !.doc = d].doc = d
      OBVIOUS
    <3> DEFINE x == [rows[k] EXCEPT !.status = "READY"]
    <3>1. x \in Rows
      BY <1>2 DEF Rows
    <3>2. d \in 0..MaxStarts
      BY <1>2 DEF Jobs
    <3> HIDE DEF x
    <3>3. [x EXCEPT !.doc = d] \in Rows /\ [x EXCEPT !.doc = d].doc = d
      BY <3>1, <3>2 DEF Rows
    <3> QED BY <3>3 DEF x
  <2>7. RowsKept
    BY <1>2, <2>4, <2>5, <2>6 DEF RowsKept, Inductive, ReadyIsEmbedded
  <2> QED BY <2>1, <2>2, <2>3, <2>7, OneJob DEF Still
<1>14. CASE JobReview(n)
  BY <1>4, <1>5, <1>6, <1>14 DEF JobReview
<1>15. CASE JobRaises(n)
  BY <1>4, <1>5, <1>6, <1>15 DEF JobRaises, Turns
<1>16. CASE JobStarves(n)
  BY <1>4, <1>5, <1>6, <1>16 DEF JobStarves
<1>17. CASE JobFails(n)
  BY <1>4, <1>5, <1>6, <1>17 DEF JobFails
<1>18. CASE JobUnrecorded(n)
  BY <1>2, <1>5, <1>6, <1>18 DEF JobUnrecorded, Still, tables
<1> QED
  BY <1>7, <1>8, <1>9, <1>10, <1>11, <1>12, <1>13, <1>14, <1>15, <1>16, <1>17, <1>18, Zenon
  DEF JobGoesOn

-----------------------------------------------------------------------------
(* The whole system.                                                       *)

LEMMA CrashStep ==
  ASSUME Inductive, Crash
  PROVE  Inductive'
<1>1. NoJob \in Jobs /\ NoJob.stage = "none"
  BY PoolAssumption DEF NoJob, Jobs, Statuses
<1>2. \A c \in Clients : req'[c] = Idle
  BY DEF Crash
<1>3. TypeOK'
  BY <1>1, IdleFits, PoolAssumption DEF Inductive, TypeOK, Crash, tables
<1>4. Holding'
  BY <1>2, IdleFits DEF Holding
<1>5. ReadyAhead' /\ ReadyIsEmbedded'
  BY <1>1, <1>2, IdleFits DEF Inductive, ReadyAhead, ReadyIsEmbedded, Crash, tables
<1>6. AuditAhead'
  <2>1. crashes' > 0 /\ late' = late /\ audit' = audit /\ answered' = answered
    BY DEF Inductive, TypeOK, Crash, tables
  <2> QED BY <1>2, <2>1, IdleFits DEF Inductive, AuditAhead
<1> QED BY <1>3, <1>4, <1>5, <1>6 DEF Inductive

LEMMA InitHolds == Init => Inductive
<1> SUFFICES ASSUME Init PROVE Inductive
  OBVIOUS
<1>1. NoJob \in Jobs /\ NoJob.stage = "none"
  BY PoolAssumption DEF NoJob, Jobs, Statuses
<1>2. NoDocument \in Documents /\ NoDocument.status = "absent"
  BY DEF NoDocument, Documents, Statuses
<1>3. NoRow \in Rows /\ NoRow.status = "none"
  BY PoolAssumption DEF NoRow, Rows
<1>4. TypeOK
  BY <1>1, <1>2, <1>3, IdleFits, PoolAssumption DEF Init, TypeOK, Numbers
<1>5. Holding /\ AuditAhead
  BY IdleFits DEF Init, Holding, AuditAhead
<1>6. ReadyAhead /\ ReadyIsEmbedded
  BY <1>1, <1>2, <1>3, IdleFits DEF Init, ReadyAhead, ReadyIsEmbedded
<1> QED BY <1>4, <1>5, <1>6 DEF Inductive

LEMMA NextHolds == Inductive /\ [Next]_vars => Inductive'
<1> SUFFICES ASSUME Inductive, [Next]_vars PROVE Inductive'
  OBVIOUS
<1>1. ASSUME NEW c \in Clients, NEW k \in Chats, NEW kind \in {"upload", "ask", "query"},
             Start(c, kind, k)
      PROVE  Inductive'
  BY <1>1, StartStep
<1>2. ASSUME NEW c \in Clients, GoesOn(c) PROVE Inductive'
  BY <1>2, DispatchStep, ConnectStep, RouteStep, UploadStep, ExitStep, ReplyStep, ServedStep
  DEF GoesOn
<1>3. CASE UNCHANGED vars
  BY <1>3 DEF vars, tables, Inductive, TypeOK, Holding, ReadyAhead, ReadyIsEmbedded, AuditAhead
<1>4. Idle.chat \in Chats
  BY IdleFits DEF Requests
<1> QED BY <1>1, <1>2, <1>3, <1>4, JobStep, CrashStep DEF Next

\* Whatever requests, jobs and crashes do, in any number and with a pool of
\* any size, the inductive invariant holds.
THEOREM InvariantHolds == Spec => []Inductive
BY InitHolds, NextHolds, PTL DEF Spec

\* Every variable keeps its type.
THEOREM TypeCorrect == Spec => []TypeOK
<1>1. Inductive => TypeOK
  BY DEF Inductive
<1> QED BY <1>1, InvariantHolds, PTL

\* A row of chat_attachment that is READY has a document whose embeddings are
\* committed (_process_chat_attachment and upload_chat_attachment, app.py).
THEOREM ReadyEmbedded == Spec => []ReadyIsEmbedded
<1>1. Inductive => ReadyIsEmbedded
  BY DEF Inductive
<1> QED BY <1>1, InvariantHolds, PTL

\* The facts of a structured query are sent with their audit event committed,
\* or, where FastAPI leaves dependencies after the response, with its
\* transaction still to be committed by the request.
THEOREM Audited == Spec => []AnswersAudited
<1>1. Inductive => AnswersAudited
  BY DEF Inductive, AuditAhead, AnswersAudited
<1> QED BY <1>1, InvariantHolds, PTL
-----------------------------------------------------------------------------
(* The pool. *)

\* The connections are accounted for and in finite number, and a client
\* without a request holds none.
Accounted ==
  /\ IsFiniteSet(InHands)
  /\ PoolAccounted
  /\ \A c \in Clients : req[c].phase = "idle" => req[c].held = 0

\* A step of a client that neither takes nor returns a connection.
LEMMA HandsKept ==
  ASSUME Inductive, Accounted, NEW c \in Clients, NEW r, Become(c, r), r.held = req[c].held,
         r.phase = "idle" => r.held = 0, UNCHANGED free
  PROVE  Accounted'
<1>1. req' = [req EXCEPT ![c] = r] /\ req \in [Clients -> Requests]
  BY DEF Become, Inductive, TypeOK
<1>2. \A d \in Clients :
        /\ req'[d].held = req[d].held
        /\ req'[d].phase = "idle" => req'[d].held = 0
  BY <1>1 DEF Accounted
<1>3. InHands' = InHands
  BY <1>2 DEF InHands
<1> QED BY <1>2, <1>3 DEF Accounted, PoolAccounted

\* What a route makes of its request, it does not close.
LEMMA ReturnedHeld ==
  \A r \in Requests :
    /\ Returned(r).held = r.held /\ Returned(r).phase # "idle"
    /\ Raised(r).held = r.held /\ Raised(r).phase # "idle"
<1>1. ASSUME NEW r \in Requests
      PROVE  Returned(r).held = r.held /\ Returned(r).phase # "idle"
  BY DEF Returned, Requests
<1>2. ASSUME NEW r \in Requests
      PROVE  [r EXCEPT !.ok = FALSE] \in Requests /\ [r EXCEPT !.ok = FALSE].held = r.held
  BY DEF Requests
<1> QED BY <1>1, <1>2 DEF Raised

\* A connection is taken from the pool.
LEMMA ConnectAccounts ==
  ASSUME Inductive, Accounted, NEW c \in Clients, Connect(c)
  PROVE  Accounted'
<1> DEFINE h == <<c, req[c].held + 1>>
<1>1. /\ req \in [Clients -> Requests] /\ free \in Nat /\ req[c] \in Requests
      /\ req[c].phase = "waiting" /\ req[c].held < Wanted[req[c].kind]
  BY RequestFits DEF Connect, Inductive, TypeOK, Fits
<1>2. req[c].held \in {0, 1}
  BY <1>1, WantedTyped DEF Requests
<1> DEFINE p == IF req[c].held + 1 < Wanted[req[c].kind] THEN "entering" ELSE "working"
           r == [req[c] EXCEPT !.held = @ + 1, !.phase = p]
<1>3. /\ req' = [req EXCEPT ![c] = r] /\ r.held = req[c].held + 1
      /\ r.phase \in {"entering", "working"}
  BY <1>1 DEF Connect, Become, Requests
<1> HIDE DEF r
<1>4. \A d \in Clients : req'[d] = IF d = c THEN r ELSE req[d]
  BY <1>1, <1>3
<1>5. h \notin InHands
  BY <1>2 DEF InHands
<1>6. InHands' = InHands \cup {h}
  <2>1. ASSUME NEW x PROVE x \in InHands' <=> x \in InHands \cup {h}
    <3>1. ASSUME NEW d \in Clients, NEW i \in {1, 2}, x = <<d, i>>
          PROVE  x \in InHands' <=> x \in InHands \cup {h}
      <4>1. x \in InHands <=> i <= req[d].held
        BY <3>1 DEF InHands
      <4>2. x \in InHands' <=> i <= req'[d].held
        BY <3>1 DEF InHands
      <4>3. x = h <=> d = c /\ i = req[c].held + 1
        BY <3>1
      <4> HIDE DEF h
      <4> QED BY <1>2, <1>3, <1>4, <4>1, <4>2, <4>3
    <3>2. h \in Clients \X {1, 2}
      BY <1>2
    <3> HIDE DEF h
    <3> QED BY <3>1, <3>2 DEF InHands
  <2> HIDE DEF h
  <2> QED BY <2>1
<1> HIDE DEF h
<1>7. IsFiniteSet(InHands') /\ Cardinality(InHands') = Cardinality(InHands) + 1
  BY <1>5, <1>6, FS_AddElement DEF Accounted
<1>8. free' = free - 1
  BY DEF Connect
<1>9. Cardinality(InHands) \in Nat /\ PoolAccounted
  BY FS_CardinalityType DEF Accounted
<1>10. PoolAccounted'
  BY <1>1, <1>7, <1>8, <1>9, PoolAssumption DEF PoolAccounted
<1>11. \A d \in Clients : (req'[d].phase = "idle" => req'[d].held = 0)
  BY <1>3, <1>4 DEF Accounted
<1> QED BY <1>7, <1>10, <1>11 DEF Accounted

\* A connection is returned to it.
LEMMA ExitAccounts ==
  ASSUME Inductive, Accounted, NEW c \in Clients, Exit(c)
  PROVE  Accounted'
<1> DEFINE h == <<c, req[c].held>>
<1>1. /\ req \in [Clients -> Requests] /\ free \in Nat /\ req[c] \in Requests
      /\ req[c].phase = "exiting" /\ req[c].held # 0
  BY RequestFits DEF Exit, Inductive, TypeOK, Fits
<1>2. req[c].held \in {1, 2}
  BY <1>1 DEF Requests
<1>3. PICK r :
        /\ Become(c, r)
        /\ \/ req[c].held > 1 /\ r = [req[c] EXCEPT !.held = @ - 1, !.phase = "leaving"]
           \/ req[c].held = 1 /\ r = Idle
           \/ req[c].held = 1 /\ r = [req[c] EXCEPT !.held = 0, !.phase = "replying"]
  BY <1>2 DEF Exit
<1>3a. req' = [req EXCEPT ![c] = r] /\ r.held = req[c].held - 1 /\ (r.phase = "idle" => r.held = 0)
  <2>1. CASE req[c].held > 1 /\ r = [req[c] EXCEPT !.held = @ - 1, !.phase = "leaving"]
    BY <1>1, <1>3, <2>1 DEF Become, Requests
  <2>2. CASE req[c].held = 1 /\ r = Idle
    BY <1>3, <2>2, IdleFits DEF Become, Idle, Received
  <2>3. CASE req[c].held = 1 /\ r = [req[c] EXCEPT !.held = 0, !.phase = "replying"]
    BY <1>1, <1>3, <2>3 DEF Become, Requests
  <2> QED BY <1>3, <2>1, <2>2, <2>3
<1>4. \A d \in Clients : req'[d] = IF d = c THEN r ELSE req[d]
  BY <1>1, <1>3a
<1>5. h \in InHands
  BY <1>2 DEF InHands
<1>6. InHands' = InHands \ {h}
  <2>1. ASSUME NEW x PROVE x \in InHands' <=> x \in InHands \ {h}
    <3>1. ASSUME NEW d \in Clients, NEW i \in {1, 2}, x = <<d, i>>
          PROVE  x \in InHands' <=> x \in InHands \ {h}
      <4>1. x \in InHands <=> i <= req[d].held
        BY <3>1 DEF InHands
      <4>2. x \in InHands' <=> i <= req'[d].held
        BY <3>1 DEF InHands
      <4>3. x = h <=> d = c /\ i = req[c].held
        BY <3>1
      <4> HIDE DEF h
      <4> QED BY <1>2, <1>3a, <1>4, <4>1, <4>2, <4>3
    <3> HIDE DEF h
    <3> QED BY <3>1 DEF InHands
  <2> HIDE DEF h
  <2> QED BY <2>1
<1> HIDE DEF h
<1>7. IsFiniteSet(InHands') /\ Cardinality(InHands') = Cardinality(InHands) - 1
  BY <1>5, <1>6, FS_RemoveElement DEF Accounted
<1>8. free' = free + 1
  BY DEF Exit, Freed
<1>9. Cardinality(InHands) \in Nat /\ PoolAccounted
  BY FS_CardinalityType DEF Accounted
<1>10. PoolAccounted'
  BY <1>1, <1>7, <1>8, <1>9, PoolAssumption DEF PoolAccounted
<1>11. \A d \in Clients : (req'[d].phase = "idle" => req'[d].held = 0)
  BY <1>3a, <1>4 DEF Accounted
<1> QED BY <1>7, <1>10, <1>11 DEF Accounted

\* No request holds a connection where none is under way.
LEMMA NobodyHolds ==
  ASSUME req = [c \in Clients |-> Idle], free = PoolSize
  PROVE  Accounted
<1>1. Idle.held = 0
  BY DEF Idle, Received
<1>2. InHands = {}
  BY <1>1 DEF InHands
<1> QED BY <1>1, <1>2, FS_EmptySet, PoolAssumption DEF Accounted, PoolAccounted

\* The other steps of a request hold what they held.
LEMMA ClientAccounts ==
  ASSUME Inductive, Accounted, NEW c \in Clients, GoesOn(c)
  PROVE  Accounted'
<1> DEFINE r == req[c]
<1>1. r \in Requests /\ Fits(r)
  BY RequestFits
<1>2. ASSUME NEW next, Become(c, next), next.held = r.held, next.phase # "idle", UNCHANGED free
      PROVE  Accounted'
  BY <1>2, HandsKept
<1>3. CASE Dispatch(c)
  <2>1. PICK p \in {"waiting", "exiting"} : Become(c, [r EXCEPT !.phase = p])
    BY <1>3 DEF Dispatch
  <2>2. [r EXCEPT !.phase = p].held = r.held /\ [r EXCEPT !.phase = p].phase # "idle"
    BY <1>1, <2>1 DEF Requests
  <2> QED BY <1>2, <1>3, <2>1, <2>2 DEF Dispatch
<1>4. CASE PoolTimesOut(c) \/ UploadFails(c)
  BY <1>1, <1>2, <1>4, ReturnedHeld DEF PoolTimesOut, UploadFails
<1>5. CASE Reply(c)
  <2> DEFINE p == IF r.ok /\ r.row = "UPLOADED" THEN "serving" ELSE "leaving"
  <2>1. CASE r.held = 0
    <3>1. Become(c, Idle) /\ UNCHANGED free /\ Idle.held = 0
      BY <1>5, <2>1 DEF Reply, Idle, Received
    <3> QED BY <2>1, <3>1, HandsKept
  <2>2. CASE r.held # 0
    <3>1. Become(c, [r EXCEPT !.phase = p]) /\ UNCHANGED free
      BY <1>5, <2>2 DEF Reply
    <3>2. [r EXCEPT !.phase = p].held = r.held /\ [r EXCEPT !.phase = p].phase # "idle"
      BY <1>1 DEF Requests
    <3> QED BY <1>2, <3>1, <3>2
  <2> QED BY <2>1, <2>2
<1>6. CASE Served(c)
  <2>1. Become(c, [r EXCEPT !.phase = "leaving"]) /\ UNCHANGED free
    BY <1>6 DEF Served
  <2>2. LET next == [r EXCEPT !.phase = "leaving"] IN next.held = r.held /\ next.phase # "idle"
    BY <1>1 DEF Requests
  <2> QED BY <1>2, <2>1, <2>2
<1>7. ASSUME NEW q \in Questions, NEW permitted \in BOOLEAN, NEW costly \in BOOLEAN,
             Query(c, q, permitted, costly)
      PROVE  Accounted'
  <2>1. UNCHANGED free /\ \/ Become(c, Raised(r))
                          \/ \E b \in BOOLEAN : Become(c, Returned([r EXCEPT !.facts = b]))
    BY <1>7 DEF Query
  <2>2. ASSUME NEW b \in BOOLEAN
        PROVE  [r EXCEPT !.facts = b] \in Requests /\ [r EXCEPT !.facts = b].held = r.held
    BY <1>1 DEF Requests
  <2> QED BY <1>1, <1>2, <2>1, <2>2, ReturnedHeld
<1>8. ASSUME NEW doc \in Numbers, Upload(c, doc) PROVE Accounted'
  <2>1. PICK row \in {"none", "READY", "UPLOADED"} :
          LET next == [r EXCEPT !.doc = doc, !.row = row] IN
          Become(c, [next EXCEPT !.phase = "inserting"]) \/ Become(c, Returned(next))
    BY <1>8 DEF Upload
  <2>2. [r EXCEPT !.doc = doc] \in Requests /\ [r EXCEPT !.doc = doc].held = r.held
    BY <1>1, PoolAssumption DEF Requests, Numbers
  <2> DEFINE next == [r EXCEPT !.doc = doc, !.row = row]
  <2>3. next \in Requests /\ next.held = r.held
    BY <1>1, <2>2, PoolAssumption DEF Requests, Numbers
  <2>4. Become(c, [next EXCEPT !.phase = "inserting"]) \/ Become(c, Returned(next))
    BY <2>1
  <2> HIDE DEF next
  <2>5. [next EXCEPT !.phase = "inserting"].held = r.held
        /\ [next EXCEPT !.phase = "inserting"].phase = "inserting"
    BY <2>3 DEF Requests
  <2>6. UNCHANGED free
    BY <1>8 DEF Upload
  <2> QED BY <1>2, <2>3, <2>4, <2>5, <2>6, ReturnedHeld
<1>9. CASE InsertGoesOn(c) \/ AskGoesOn(c)
  BY <1>1, <1>2, <1>9, ReturnedHeld DEF InsertGoesOn, AskGoesOn
<1>10. CASE InsertTimesOut(c)
  <2>1. [r EXCEPT !.row = "none"] \in Requests /\ [r EXCEPT !.row = "none"].held = r.held
    BY <1>1 DEF Requests
  <2> QED BY <1>2, <1>10, <2>1, ReturnedHeld DEF InsertTimesOut
<1>11. ASSUME NEW attached \in BOOLEAN, AskPolicy(c, attached) PROVE Accounted'
  <2>1. UNCHANGED free /\ \/ Become(c, Raised(r)) \/ Become(c, [r EXCEPT !.phase = "asking"])
    BY <1>11 DEF AskPolicy
  <2>2. [r EXCEPT !.phase = "asking"].held = r.held /\ [r EXCEPT !.phase = "asking"].phase # "idle"
    BY <1>1 DEF Requests
  <2> QED BY <1>1, <1>2, <2>1, <2>2, ReturnedHeld
<1> QED BY <1>3, <1>4, <1>5, <1>6, <1>7, <1>8, <1>9, <1>10, <1>11, ConnectAccounts, ExitAccounts
  DEF GoesOn

\* Every step accounts for the connections.
LEMMA StepAccounts == Inductive /\ Accounted /\ [Next]_vars => Accounted'
<1> SUFFICES ASSUME Inductive, Accounted, [Next]_vars PROVE Accounted'
  OBVIOUS
<1>1. ASSUME NEW c \in Clients, NEW k, NEW kind, Start(c, kind, k) PROVE Accounted'
  <2>1. Become(c, Received(kind, begun + 1, k)) /\ UNCHANGED free /\ req[c].held = 0
    BY <1>1 DEF Start, Accounted
  <2>2. Received(kind, begun + 1, k).held = 0
    BY DEF Received
  <2> QED BY <2>1, <2>2, HandsKept
<1>2. ASSUME UNCHANGED <<free, req>> PROVE Accounted'
  <2>1. InHands' = InHands
    BY <1>2 DEF InHands
  <2> QED BY <1>2, <2>1 DEF Accounted, PoolAccounted
<1>3. ASSUME NEW n \in Numbers, JobGoesOn(n) PROVE UNCHANGED <<free, req>>
  BY <1>3 DEF JobGoesOn, JobUnchanged, JobParse, JobParsed, JobChunk, JobChunked, JobEmbed,
    JobEmbedded, JobReady, JobReview, JobRaises, JobStarves, JobFails, JobUnrecorded
<1>4. CASE Crash
  <2>1. (req = [c \in Clients |-> Idle])' /\ (free = PoolSize)'
    BY <1>4 DEF Crash
  <2>2. Accounted'
    BY <2>1, NobodyHolds, PTL
  <2> QED BY <2>2
<1> QED BY <1>1, <1>2, <1>3, <1>4, ClientAccounts DEF Next, vars

\* However requests fail, wait and time out, whoever dies, and with pools and
\* clients in any number, a connection is in the pool or in the hands of
\* exactly one request (the provider dependencies of app.py, QueuePool).
THEOREM PoolNeverLeaks == Spec => []PoolAccounted
<1>1. Init => Accounted
  BY NobodyHolds DEF Init
<1>2. Accounted => PoolAccounted
  BY DEF Accounted
<1> QED BY <1>1, <1>2, StepAccounts, InvariantHolds, PTL DEF Spec

-----------------------------------------------------------------------------
(* Governed SQL. *)

\* Of the six classes only the first is sensitive.
LEMMA SensitiveFirst ==
  \A c \in Columns : "sensitive" \in NameMatches[c] => Class(c) = "sensitive"
<1> SUFFICES ASSUME NEW c \in Columns, "sensitive" \in NameMatches[c]
             PROVE  Class(c) = "sensitive"
  OBVIOUS
<1> DEFINE hits == {i \in DOMAIN Precedence : Precedence[i] \in NameMatches[c]}
<1>1. DOMAIN Precedence = 1..6 /\ Precedence[1] = "sensitive"
  BY DEF Precedence
<1>2. 1 \in hits /\ hits \subseteq 1..6
  BY <1>1
<1>3. Class(c) = IF hits = {} THEN "category" ELSE Precedence[Min(hits)]
  BY DEF Class
<1> HIDE DEF hits
<1>4. Min(hits) = 1
  <2>1. \A x \in hits : (\A y \in hits : x <= y) <=> x = 1
    BY <1>2
  <2> QED BY <1>2, <2>1, Zenon DEF Min
<1> QED BY <1>1, <1>2, <1>3, <1>4

\* A column a plan may name is one of its governed view, and not sensitive.
LEMMA AllowedInside ==
  ASSUME NEW shape \in Shapes, NEW view, NEW c \in Allowed(Refreshed(shape), view)
  PROVE  view \in Views /\ c \in shape[view] /\ "sensitive" \notin NameMatches[c]
<1>1. PICK row \in Refreshed(shape) :
        row.source = view /\ row.approved /\ ~row.sensitive /\ row.column = c
  BY DEF Allowed
<1>2. PICK r \in Views \cup Tables : \E d \in shape[r] : row = Profile(r, d)
  BY <1>1 DEF Refreshed, Shapes
<1>3. PICK d \in shape[r] : row = Profile(r, d)
  BY <1>2
<1>4. row.source = r /\ row.column = d /\ row.approved = (r \in Views /\ Class(d) # "sensitive")
  BY <1>3 DEF Profile
<1>5. d \in Columns
  BY DEF Shapes
<1> QED BY <1>1, <1>4, <1>5, SensitiveFirst

\* Whatever the names of columns match and whatever relations the database
\* has, no plan leaves the governed columns of its view.
THEOREM PlansAreInside == PlansStayInside
<1> SUFFICES ASSUME NEW shape \in Shapes
             PROVE  /\ \A row \in Refreshed(shape) : Accepted(row)
                    /\ \A plan \in Plans :
                         LET s == Planned(plan, Refreshed(shape), TRUE, TRUE)
                         IN s # NoStatement =>
                              /\ \A c \in s.reads :
                                   "sensitive" \notin NameMatches[c] /\ c \in shape[plan.view]
                              /\ plan.view \in Views
                              /\ Provenance \subseteq s.columns
                              /\ s.limit \in 1..MaxRows
  BY DEF PlansStayInside
<1>1. ASSUME NEW row \in Refreshed(shape) PROVE Accepted(row)
  <2>1. PICK r, c : row = Profile(r, c)
    BY DEF Refreshed
  <2>2. /\ row.class = Class(c) /\ row.sensitive = (Class(c) = "sensitive")
        /\ row.embeddable = (Class(c) = "narrative")
        /\ row.approved = (r \in Views /\ Class(c) # "sensitive")
    BY <2>1 DEF Profile
  <2> QED BY <2>2 DEF Accepted
<1>2. ASSUME NEW plan \in Plans
      PROVE  LET s == Planned(plan, Refreshed(shape), TRUE, TRUE)
             IN s # NoStatement =>
                  /\ \A c \in s.reads :
                       "sensitive" \notin NameMatches[c] /\ c \in shape[plan.view]
                  /\ plan.view \in Views
                  /\ Provenance \subseteq s.columns
                  /\ s.limit \in 1..MaxRows
  <2> DEFINE allowed == Allowed(Refreshed(shape), plan.view)
             columns == plan.columns \cup Provenance
             bounded == [plan EXCEPT !.limit = IF @ < MaxRows THEN @ ELSE MaxRows]
             s == Planned(plan, Refreshed(shape), TRUE, TRUE)
  <2> SUFFICES ASSUME s # NoStatement
               PROVE  /\ \A c \in s.reads :
                           "sensitive" \notin NameMatches[c] /\ c \in shape[plan.view]
                      /\ plan.view \in Views
                      /\ Provenance \subseteq s.columns
                      /\ s.limit \in 1..MaxRows
    OBVIOUS
  <2>1. /\ bounded.limit \in 1..MaxRows /\ bounded.filters = plan.filters
        /\ bounded.order = plan.order
    BY RowsAreLimited DEF Plans
  <2>2. s = Compiled(bounded, columns, allowed)
    BY DEF Planned
  <2> HIDE DEF allowed, bounded, s
  <2>3. /\ columns \cup plan.filters \cup plan.order \subseteq allowed
        /\ s = [columns |-> columns, reads |-> columns \cup plan.filters \cup plan.order,
                limit |-> bounded.limit]
    BY <2>1, <2>2 DEF Compiled
  <2>4. PICK c \in plan.columns : TRUE
    BY DEF Plans
  <2>5. c \in allowed
    BY <2>3, <2>4
  <2>6. \A d \in allowed :
          plan.view \in Views /\ d \in shape[plan.view] /\ "sensitive" \notin NameMatches[d]
    BY AllowedInside DEF allowed
  <2> QED BY <2>1, <2>3, <2>5, <2>6
<1> QED BY <1>1, <1>2

\* So in every behaviour: no plan names a sensitive column or one of an
\* extracted table, and every statement has its provenance and a limit
\* (SemanticCatalogBuilder, ConstrainedPlanCompiler).
THEOREM PlansGoverned == Spec => []PlansInside
<1>1. PlansInside
  BY PlansAreInside DEF PlansInside
<1> QED BY <1>1, PTL
=============================================================================
