----------------------------- MODULE RequestPool -----------------------------
(***************************************************************************)
(* Requests of the API, the connection pool they share and the attachment  *)
(* jobs they leave behind.  Each provider dependency of a route holds a    *)
(* transaction, and so a pooled connection, for as long as the request     *)
(* lasts; a synchronous dependency is entered and left in a thread, and    *)
(* the event loop has to hand it there; an "async def" route runs on the   *)
(* loop and stops every other request while it waits for the database.     *)
(*                                                                         *)
(* pyproject.toml admits releases of FastAPI that leave the dependencies   *)
(* before the response is sent and releases that leave them after the      *)
(* response and its background tasks: late says which one is installed.    *)
(*                                                                         *)
(* All uploads are of one file.  A transaction of a job is one step: it    *)
(* takes a connection and returns it; the update of the attachment's row   *)
(* before a stage is part of the stage's first step.                       *)
(***************************************************************************)
EXTENDS StructuredQuery

CONSTANTS
  Clients,    \* requests that may be under way at once
  Chats,
  Questions,  \* what the words of structured questions match
  PoolSize,   \* db_pool_size + db_max_overflow
  MaxStarts,  \* bound of the model on the requests
  MaxCrashes  \* bound of the model on the crashes of the process

ASSUME PoolAssumption ==
  /\ PoolSize \in Nat \ {0}
  /\ MaxStarts \in Nat /\ MaxCrashes \in Nat
  /\ Chats # {}

VARIABLES
  late,       \* dependencies are left after the response
  free,       \* connections in the pool
  req,        \* the request each client has under way
  begun,      \* requests so far
  made,       \* documents in the order of created_at, uncommitted ones too
  docs,       \* document_record, by the request that made it
  rows,       \* chat_attachment of the file, one per chat
  jobs,       \* attachment jobs, by the request that started them
  audit,      \* queries whose ALLOWED event is committed
  answered,   \* queries whose facts were sent
  unrecorded, \* jobs that could not even write FAILED
  crashes

vars == <<late, free, req, begun, made, docs, rows, jobs, audit, answered,
          unrecorded, crashes>>
tables == <<docs, rows, audit>>

Numbers == 1..MaxStarts

\* The dependencies of a route that hold a connection: structured query and
\* audit; chat store and document service; chat store.
Wanted == [query |-> 2, upload |-> 2, ask |-> 1]

\* A request that has been received, and the place of none.
Received(kind, n, k) ==
  [phase |-> "entering", kind |-> kind, n |-> n, held |-> 0, chat |-> k,
   ok |-> TRUE, facts |-> FALSE, doc |-> 0, row |-> "none"]

Idle == [Received("query", 0, CHOOSE k \in Chats : TRUE) EXCEPT !.phase = "idle"]

NoDocument == [status |-> "absent", artifact |-> "none", embedded |-> FALSE]
NoRow == [id |-> 0, doc |-> 0, status |-> "none"]
NoJob == [stage |-> "none", doc |-> 0, seen |-> "absent"]

Init ==
  /\ late \in BOOLEAN
  /\ free = PoolSize
  /\ req = [c \in Clients |-> Idle]
  /\ begun = 0
  /\ made = <<>>
  /\ docs = [n \in Numbers |-> NoDocument]
  /\ rows = [k \in Chats |-> NoRow]
  /\ jobs = [n \in Numbers |-> NoJob]
  /\ audit = {} /\ answered = {} /\ unrecorded = {}
  /\ crashes = 0
-----------------------------------------------------------------------------
(* Dependencies. *)

Become(c, r) == req' = [req EXCEPT ![c] = r]

\* A route on the event loop is waiting: for another transaction's row, or
\* for the pool and the models.
Stalled == \E c \in Clients : req[c].phase \in {"inserting", "asking"}

\* Mutant: the response is sent first, whatever release is installed.
MutantReturned(r) == [r EXCEPT !.phase = IF r.ok \/ r.held = 0 THEN "replying" ELSE "leaving"]

\* Where a request goes once its route has returned or raised.
Returned(r) ==
  [r EXCEPT !.phase = IF (r.ok /\ late) \/ r.held = 0 THEN "replying" ELSE "leaving"]

Raised(r) == Returned([r EXCEPT !.ok = FALSE])

Start(c, kind, k) ==
  /\ req[c].phase = "idle"
  /\ begun < MaxStarts
  /\ begun' = begun + 1
  /\ Become(c, Received(kind, begun + 1, k))
  /\ UNCHANGED <<late, free, made, tables, jobs, answered, unrecorded, crashes>>

\* The loop hands the next dependency to a thread, to enter or to leave it.
Dispatch(c) ==
  /\ ~Stalled
  /\ \/ req[c].phase = "entering" /\ Become(c, [req[c] EXCEPT !.phase = "waiting"])
     \/ req[c].phase = "leaving" /\ Become(c, [req[c] EXCEPT !.phase = "exiting"])
  /\ UNCHANGED <<late, free, begun, made, tables, jobs, answered, unrecorded, crashes>>

Connect(c) ==
  /\ req[c].phase = "waiting"
  /\ free > 0
  /\ free' = free - 1
  /\ Become(c, [req[c] EXCEPT !.held = @ + 1,
       !.phase = IF req[c].held + 1 < Wanted[req[c].kind]
                 THEN "entering" ELSE "working"])
  /\ UNCHANGED <<late, begun, made, tables, jobs, answered, unrecorded, crashes>>

\* Mutant: a route on the loop waits for a connection as long as it takes.
MutantPoolTimesOut(c) ==
  /\ req[c].phase = "waiting"
  /\ free = 0
  /\ Become(c, Raised(req[c]))
  /\ UNCHANGED <<late, free, begun, made, tables, jobs, answered, unrecorded, crashes>>

\* QueuePool gives up after its timeout.
PoolTimesOut(c) ==
  /\ req[c].phase \in {"waiting", "asking"}
  /\ free = 0
  /\ Become(c, Raised(req[c]))
  /\ UNCHANGED <<late, free, begun, made, tables, jobs, answered, unrecorded, crashes>>

\* What the transaction entered as the held-th registers when it commits.
Registers(r) == r.ok /\ r.kind = "upload" /\ r.held = 2 /\ r.doc = r.n
Attaches(r) == r.ok /\ r.held = 1 /\ r.row # "none"
Accounts(r) == r.ok /\ r.held = 1 /\ r.facts

\* Mutant: a transaction that is rolled back keeps its connection.
MutantFreed(r) == IF r.ok THEN 1 ELSE 0
Freed(r) == 1

\* The last dependency is left: its transaction commits, or is rolled back
\* when the route raised.  A row that is there already is left alone.
Exit(c) ==
  LET r == req[c] IN
  /\ r.phase = "exiting"
  /\ free' = free + Freed(r)
  /\ docs' = IF Registers(r) THEN [docs EXCEPT ![r.n].status = "uploaded"] ELSE docs
  /\ rows' = IF Attaches(r) /\ rows[r.chat] = NoRow
             THEN [rows EXCEPT ![r.chat] =
                     IF r.row = "READY" THEN [id |-> r.n, doc |-> r.doc, status |-> "READY"]
                     ELSE [id |-> r.n, doc |-> 0, status |-> "UPLOADED"]]
             ELSE rows
  /\ audit' = IF Accounts(r) THEN audit \cup {r.n} ELSE audit
  /\ Become(c, IF r.held > 1 THEN [r EXCEPT !.held = @ - 1, !.phase = "leaving"]
               ELSE IF late /\ r.ok THEN Idle
               ELSE [r EXCEPT !.held = 0, !.phase = "replying"])
  /\ UNCHANGED <<late, begun, made, jobs, answered, unrecorded, crashes>>

\* The response is sent and its background task is started: the request is
\* over, or waits for the task before it leaves its dependencies.
Reply(c) ==
  LET r == req[c]
      task == r.ok /\ r.row = "UPLOADED" IN
  /\ r.phase = "replying"
  /\ ~Stalled
  /\ answered' = IF r.ok /\ r.facts THEN answered \cup {r.n} ELSE answered
  /\ jobs' = IF task THEN [jobs EXCEPT ![r.n] =
                              [stage |-> "parse", doc |-> r.doc, seen |-> "absent"]]
             ELSE jobs
  /\ Become(c, IF r.held = 0 THEN Idle
               ELSE [r EXCEPT !.phase = IF task THEN "serving" ELSE "leaving"])
  /\ UNCHANGED <<late, free, begun, made, tables, unrecorded, crashes>>

Served(c) ==
  /\ req[c].phase = "serving"
  /\ jobs[req[c].n].stage = "none"
  /\ Become(c, [req[c] EXCEPT !.phase = "leaving"])
  /\ UNCHANGED <<late, free, begun, made, tables, jobs, answered, unrecorded, crashes>>
-----------------------------------------------------------------------------
(* Routes. *)

\* query: the route runs in a thread.
Query(c, q, permitted, costly) ==
  LET found == Ask(q, permitted, costly) IN
  /\ req[c].phase = "working" /\ req[c].kind = "query"
  /\ Become(c, IF found \in {"denied", "too_costly"} THEN Raised(req[c])
               ELSE Returned([req[c] EXCEPT !.facts = found = "facts"]))
  /\ UNCHANGED <<late, free, begun, made, tables, jobs, answered, unrecorded, crashes>>

Registered == {n \in Numbers : docs[n].status # "absent"}

\* Mutant: a document that is chunked counts as ready.
MutantReady(d) == docs[d].status \in {"chunk_ready", "indexed"}
Ready(d) == docs[d].status = "indexed"

\* Requests that have inserted the row of this chat and not yet committed it.
Inserted(k) ==
  {c \in Clients :
     /\ req[c].chat = k /\ req[c].row # "none" /\ req[c].held > 0
     /\ req[c].phase # "inserting" /\ (req[c].ok \/ req[c].phase # "replying")}

\* The document a file is found as: the newest one that is committed.
Newest ==
  {made[i] : i \in {i \in DOMAIN made :
     /\ made[i] \in Registered
     /\ \A j \in DOMAIN made : j > i => made[j] \notin Registered}}

\* upload_chat_attachment: the document of the file is taken, or a new one
\* made; a chat that has the file answers with its row.
Upload(c, doc) ==
  LET r == req[c]
      row == IF rows[r.chat] # NoRow THEN "none"
             ELSE IF doc # r.n /\ Ready(doc) THEN "READY" ELSE "UPLOADED"
      next == [r EXCEPT !.doc = doc, !.row = row]
  IN
  /\ r.phase = "working" /\ r.kind = "upload"
  /\ ~Stalled
  /\ doc \in (IF Newest = {} THEN {r.n} ELSE Newest)
  /\ made' = IF doc = r.n THEN Append(made, doc) ELSE made
  /\ Become(c, IF row # "none" /\ Inserted(r.chat) # {}
               THEN [next EXCEPT !.phase = "inserting"] ELSE Returned(next))
  /\ UNCHANGED <<late, free, begun, tables, jobs, answered, unrecorded, crashes>>

\* The scanner or the object store is down, or the uploader is refused.
UploadFails(c) ==
  /\ req[c].phase = "working" /\ req[c].kind = "upload"
  /\ ~Stalled
  /\ Become(c, Raised(req[c]))
  /\ UNCHANGED <<late, free, begun, made, tables, jobs, answered, unrecorded, crashes>>

\* The other transaction has ended; ON CONFLICT DO NOTHING tells nobody
\* whether a row was inserted.
InsertGoesOn(c) ==
  /\ req[c].phase = "inserting"
  /\ Inserted(req[c].chat) = {}
  /\ Become(c, Returned(req[c]))
  /\ UNCHANGED <<late, free, begun, made, tables, jobs, answered, unrecorded, crashes>>

\* statement_timeout
InsertTimesOut(c) ==
  /\ req[c].phase = "inserting"
  /\ Inserted(req[c].chat) # {}
  /\ Become(c, Raised([req[c] EXCEPT !.row = "none"]))
  /\ UNCHANGED <<late, free, begun, made, tables, jobs, answered, unrecorded, crashes>>

\* policy_query without a stream: an attachment has to be ready; the answer
\* is looked for on the loop, with connections of its own.
AskPolicy(c, attached) ==
  /\ req[c].phase = "working" /\ req[c].kind = "ask"
  /\ ~Stalled
  /\ Become(c, IF attached /\ rows[req[c].chat].status # "READY" THEN Raised(req[c])
               ELSE [req[c] EXCEPT !.phase = "asking"])
  /\ UNCHANGED <<late, free, begun, made, tables, jobs, answered, unrecorded, crashes>>

AskGoesOn(c) ==
  /\ req[c].phase = "asking"
  /\ free > 0
  /\ Become(c, Returned(req[c]))
  /\ UNCHANGED <<late, free, begun, made, tables, jobs, answered, unrecorded, crashes>>
-----------------------------------------------------------------------------
(* _process_chat_attachment *)

\* update_attachment touches the row the job was started for, if there is one.
Marked(n, s, d) ==
  [k \in Chats |->
     IF rows[k].id = n THEN [rows[k] EXCEPT !.status = s, !.doc = IF d = 0 THEN @ ELSE d]
     ELSE rows[k]]

Goes(n, stage) == jobs' = [jobs EXCEPT ![n].stage = stage]

Ends(n) == jobs' = [jobs EXCEPT ![n] = NoJob]

Turns(d, s) == docs' = [docs EXCEPT ![d].status = s]

JobUnchanged == UNCHANGED <<late, free, req, begun, made, audit, answered, unrecorded, crashes>>

\* A document that has a canonical artifact is not parsed again.
JobParse(n) ==
  LET d == jobs[n].doc IN
  /\ jobs[n].stage = "parse" /\ free > 0
  /\ rows' = Marked(n, "PARSING", 0)
  /\ CASE docs[d].artifact = "passed" -> Goes(n, "chunk") /\ UNCHANGED docs
       [] docs[d].artifact = "review" -> Goes(n, "review") /\ UNCHANGED docs
       [] docs[d].artifact = "none" /\ docs[d].status \in {"uploaded", "failed", "parsing"} ->
            Goes(n, "parsing") /\ Turns(d, "parsing")
       [] OTHER -> Goes(n, "fail") /\ UNCHANGED docs
  /\ JobUnchanged

\* The parser is done; a document that another job has moved on is refused.
JobParsed(n, result) ==
  LET d == jobs[n].doc IN
  /\ jobs[n].stage = "parsing" /\ free > 0
  /\ IF docs[d].status = "parsing"
     THEN /\ docs' = [docs EXCEPT ![d].artifact = result,
                        ![d].status = IF result = "passed" THEN "canonicalized" ELSE "review_required"]
          /\ Goes(n, IF result = "passed" THEN "chunk" ELSE "review")
     ELSE Goes(n, "fail") /\ UNCHANGED docs
  /\ UNCHANGED rows
  /\ JobUnchanged

JobChunk(n) ==
  LET d == jobs[n].doc IN
  /\ jobs[n].stage = "chunk" /\ free > 0
  /\ rows' = Marked(n, "CHUNKING", 0)
  /\ jobs' = IF docs[d].status \in {"canonicalized", "chunk_ready", "indexed"}
             THEN [jobs EXCEPT ![n].stage = "chunking", ![n].seen = docs[d].status]
             ELSE [jobs EXCEPT ![n].stage = "fail"]
  /\ UNCHANGED docs
  /\ JobUnchanged

\* The same text is cut into the same chunks: one that was indexed when the
\* job looked keeps its status.
JobChunked(n) ==
  LET d == jobs[n].doc IN
  /\ jobs[n].stage = "chunking" /\ free > 0
  /\ IF jobs[n].seen = "indexed" THEN UNCHANGED docs ELSE Turns(d, "chunk_ready")
  /\ Goes(n, "embed")
  /\ UNCHANGED rows
  /\ JobUnchanged

JobEmbed(n) ==
  /\ jobs[n].stage = "embed" /\ free > 0
  /\ rows' = Marked(n, "EMBEDDING", 0)
  /\ jobs' = [jobs EXCEPT ![n].stage = "embedding", ![n].seen = docs[jobs[n].doc].status]
  /\ UNCHANGED docs
  /\ JobUnchanged

Embedded(d) == [docs EXCEPT ![d].status = "indexed", ![d].embedded = TRUE]

JobEmbedded(n) ==
  /\ jobs[n].stage = "embedding" /\ free > 0
  /\ docs' = IF jobs[n].seen = "indexed" THEN [docs EXCEPT ![jobs[n].doc].embedded = TRUE]
             ELSE Embedded(jobs[n].doc)
  /\ Goes(n, "ready")
  /\ UNCHANGED rows
  /\ JobUnchanged

JobReady(n) ==
  /\ jobs[n].stage = "ready" /\ free > 0
  /\ rows' = Marked(n, "READY", jobs[n].doc)
  /\ Ends(n)
  /\ UNCHANGED docs
  /\ JobUnchanged

JobReview(n) ==
  /\ jobs[n].stage = "review" /\ free > 0
  /\ rows' = Marked(n, "REVIEW_REQUIRED", 0)
  /\ Ends(n)
  /\ UNCHANGED docs
  /\ JobUnchanged

\* The parser, the chunker or the model raised.
JobRaises(n) ==
  /\ jobs[n].stage \in {"parsing", "chunking", "embedding"}
  /\ docs' = IF jobs[n].stage = "parsing" /\ docs[jobs[n].doc].status = "parsing"
             THEN [docs EXCEPT ![jobs[n].doc].status = "failed"] ELSE docs
  /\ Goes(n, "fail")
  /\ UNCHANGED rows
  /\ JobUnchanged

\* No connection for the next transaction.
JobStarves(n) ==
  /\ jobs[n].stage \notin {"none", "fail"} /\ free = 0
  /\ Goes(n, "fail")
  /\ UNCHANGED <<docs, rows>>
  /\ JobUnchanged

\* Mutant: the job ends where it failed.
MutantJobFails(n) ==
  /\ jobs[n].stage = "fail" /\ free > 0
  /\ Ends(n)
  /\ UNCHANGED <<docs, rows>>
  /\ JobUnchanged

\* The handler of every exception.
JobFails(n) ==
  /\ jobs[n].stage = "fail" /\ free > 0
  /\ rows' = Marked(n, "FAILED", 0)
  /\ Ends(n)
  /\ UNCHANGED docs
  /\ JobUnchanged

\* The handler itself finds no connection: the exception ends the job.
JobUnrecorded(n) ==
  /\ jobs[n].stage = "fail" /\ free = 0
  /\ unrecorded' = unrecorded \cup {n}
  /\ Ends(n)
  /\ UNCHANGED <<late, free, req, begun, made, tables, answered, crashes>>

\* The process dies and is started again: transactions are rolled back, and
\* nothing looks for jobs that were under way.
Crash ==
  /\ crashes < MaxCrashes
  /\ crashes' = crashes + 1
  /\ free' = PoolSize
  /\ req' = [c \in Clients |-> Idle]
  /\ jobs' = [n \in Numbers |-> NoJob]
  /\ UNCHANGED <<late, begun, made, tables, answered, unrecorded>>
-----------------------------------------------------------------------------
GoesOn(c) ==
  \/ Dispatch(c) \/ Connect(c) \/ PoolTimesOut(c) \/ Exit(c) \/ Reply(c) \/ Served(c)
  \/ \E q \in Questions, permitted, costly \in BOOLEAN : Query(c, q, permitted, costly)
  \/ \E doc \in Numbers : Upload(c, doc)
  \/ UploadFails(c) \/ InsertGoesOn(c) \/ InsertTimesOut(c)
  \/ \E attached \in BOOLEAN : AskPolicy(c, attached)
  \/ AskGoesOn(c)

JobGoesOn(n) ==
  \/ JobParse(n) \/ (\E result \in {"passed", "review"} : JobParsed(n, result))
  \/ JobChunk(n) \/ JobChunked(n) \/ JobEmbed(n) \/ JobEmbedded(n) \/ JobReady(n)
  \/ JobReview(n) \/ JobRaises(n) \/ JobStarves(n) \/ JobFails(n) \/ JobUnrecorded(n)

Next ==
  \/ \E c \in Clients, k \in Chats : \E kind \in {"upload", "ask"} : Start(c, kind, k)
  \/ \E c \in Clients : Start(c, "query", Idle.chat)
  \/ \E c \in Clients : GoesOn(c)
  \/ \E n \in Numbers : JobGoesOn(n)
  \/ Crash

Spec == Init /\ [][Next]_vars

\* Threads run, the loop serves every request in turn, the waits for a
\* connection and for a row end by their timeouts.
FairSpec ==
  /\ Spec
  /\ \A c \in Clients : SF_vars(GoesOn(c))
  /\ \A n \in Numbers : WF_vars(JobGoesOn(n))
-----------------------------------------------------------------------------
(* Properties. *)

Phases ==
  {"idle", "entering", "waiting", "working", "inserting", "asking", "replying", "serving",
   "leaving", "exiting"}
Requests ==
  [phase : Phases, kind : {"query", "upload", "ask"}, n : 0..MaxStarts, held : 0..2,
   chat : Chats, ok : BOOLEAN, facts : BOOLEAN, doc : 0..MaxStarts,
   row : {"none", "UPLOADED", "READY"}]
Statuses ==
  {"absent", "uploaded", "parsing", "failed", "review_required", "canonicalized",
   "chunk_ready", "indexed"}
Documents ==
  [status : Statuses, artifact : {"none", "passed", "review"}, embedded : BOOLEAN]
Rows ==
  [id : 0..MaxStarts, doc : 0..MaxStarts,
   status : {"none", "UPLOADED", "PARSING", "CHUNKING", "EMBEDDING", "READY",
             "REVIEW_REQUIRED", "FAILED"}]
Jobs ==
  [stage : {"none", "parse", "parsing", "chunk", "chunking", "embed", "embedding", "ready",
            "review", "fail"},
   doc : 0..MaxStarts, seen : Statuses]

\* Every variable keeps its type (that free stays in 0..PoolSize is part of
\* PoolAccounted).
TypeOK ==
  /\ late \in BOOLEAN
  /\ free \in Nat
  /\ req \in [Clients -> Requests]
  /\ begun \in 0..MaxStarts
  /\ made \in Seq(Numbers)
  /\ docs \in [Numbers -> Documents]
  /\ rows \in [Chats -> Rows]
  /\ jobs \in [Numbers -> Jobs]
  /\ audit \subseteq Numbers /\ answered \subseteq Numbers /\ unrecorded \subseteq Numbers
  /\ crashes \in Nat

\* The connections in the hands of requests: of each, its first and its second.
InHands == {h \in Clients \X {1, 2} : h[2] <= req[h[1]].held}

\* However requests fail, wait and time out, a connection is in the pool or
\* in the hands of exactly one request.
PoolAccounted == free + Cardinality(InHands) = PoolSize

\* An attachment that is READY has a document whose embeddings are committed,
\* with any number of jobs on the same document and whoever made it.
ReadyIsEmbedded ==
  \A k \in Chats : rows[k].status = "READY" => rows[k].doc # 0 /\ docs[rows[k].doc].embedded

\* Facts are sent only if their audit event is committed; where dependencies
\* are left late it follows unless the process dies.
AnswersAudited ==
  \A n \in answered :
    \/ n \in audit
    \/ late /\ (crashes > 0 \/ \E c \in Clients : req[c].n = n)

\* What the two above rest on.  A request holds what its phase says, and
\* what it has found out it has found out in its route;
Holding ==
  \A c \in Clients :
    LET r == req[c] IN
    /\ r.phase # "idle" => r.n # 0
    /\ r.phase \in {"entering", "waiting"} => r.held < Wanted[r.kind]
    /\ r.phase \in {"working", "inserting", "asking", "leaving", "exiting", "serving"} =>
         r.held # 0
    /\ r.phase = "replying" => late \/ r.held = 0
    /\ r.facts => r.phase \in {"replying", "leaving", "exiting"} /\ r.row = "none"
    /\ r.phase \in {"entering", "waiting", "working"} => r.row = "none"
    /\ r.row # "none" => r.doc # 0

\* what is indexed, about to be READY or found to be READY is embedded;
ReadyAhead ==
  /\ \A n \in Numbers :
       /\ docs[n].status = "indexed" => docs[n].embedded
       /\ jobs[n].stage # "none" => jobs[n].doc # 0
       /\ jobs[n].stage = "ready" => docs[jobs[n].doc].embedded
  /\ \A c \in Clients : req[c].row = "READY" => docs[req[c].doc].embedded

\* and the transaction of facts already sent is still there to be committed.
AuditAhead ==
  /\ \A c \in Clients :
       req[c].phase = "replying" /\ req[c].ok /\ req[c].facts /\ req[c].held = 0 =>
         req[c].n \in audit
  /\ \A n \in answered \ audit :
       late /\ (\/ crashes > 0
                \/ \E c \in Clients :
                     /\ req[c].n = n /\ req[c].ok /\ req[c].facts
                     /\ req[c].phase \in {"leaving", "exiting"})

Inductive == TypeOK /\ Holding /\ ReadyAhead /\ ReadyIsEmbedded /\ AuditAhead

\* Whoever holds connections and whoever waits for them, every request ends.
EveryRequestEnds == \A c \in Clients : req[c].phase # "idle" ~> req[c].phase = "idle"

\* Where dependencies are left early, the row of an attachment reaches a state
\* that is final, unless the process died or the pool was empty twice.
AttachmentSettles ==
  \A k \in Chats :
    rows[k].status \in {"UPLOADED", "PARSING", "CHUNKING", "EMBEDDING"}
      ~> \/ rows[k].status \in {"READY", "REVIEW_REQUIRED", "FAILED"}
         \/ late \/ crashes > 0 \/ rows[k].id \in unrecorded

\* Claimed by the docstring of _process_chat_attachment: the row is the
\* durable checkpoint of the job.
JobHasItsRow ==
  \A n \in Numbers : jobs[n].stage # "none" => \E k \in Chats : rows[k].id = n

\* The plans of StructuredQuery, looked at once.
PlansInside == begun = 0 => PlansStayInside
=============================================================================
