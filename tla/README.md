# A verification project for AI-Powered-PMS

The program is an on-premise assistant for property management of Defence
land: staff upload documents, the documents are parsed, chunked and embedded
into a search index, an assistant answers questions over the index, and lease
cases travel from a Data Entry Operator to a Nodal Officer and an HOD. Around
this there are an effective-dated rule engine, a catalogue of read-only
questions, demand forecasts, a graph of verified relations and local logins.
Everything persistent lives in PostgreSQL, with row level security; the API is
one FastAPI process, the command line tools are others.

This directory holds TLA+ modules for the parts whose behaviour over time is
hard to get right, the TLC configurations that check them on small instances,
and TLAPS proofs for every value of the constants. `PROJECT.json` is the index
of all of it: which definition stands for which lines, which run checks which
property, which deliberate mistake ("mutant") each property catches.

Contents: [1 The system](#1-the-system) -
[2 Modules and code](#2-modules-and-code) -
[3 Runs](#3-runs) - [4 Fairness](#4-fairness) - [5 Proofs](#5-proofs) -
[6 What the checks found](#6-what-the-checks-found) -
[7 What is not modelled](#7-what-is-not-modelled) - [8 Plan](#8-plan)

To check a module: `tlc -config CaseOffice.cfg MCCaseWorkflow`; to check the
proofs: `tlapm CaseWorkflow_proof.tla`.

---

## 1 The system

### 1.1 How it runs

* A request of the API is **one transaction**, READ COMMITTED, opened by a
  FastAPI dependency and committed when the dependency exits
  (`apps/api/src/pms_api/app.py`, `PostgresServiceProvider`,
  `PostgresChatServiceProvider`). The subject, roles and scope of the caller
  are set as transaction-local settings; row level security reads them. Plain
  `def` routes run on a thread pool, `async def` routes on the event loop.
* A **pipeline command** (script or background job) is a chain of short
  transactions with the slow work between them ("keep database transactions
  short", `parsing_service.py:3`).
* Nothing takes explicit locks except a few `SELECT ... FOR UPDATE`, one
  advisory lock and one in-process set; what excludes concurrent writers is
  mostly a unique key or the row lock of an UPDATE. Most of the properties
  below are about what these accidental locks do and do not give.

### 1.2 Inventory

| Component | State | Operations | What is hard | What makes it correct |
|---|---|---|---|---|
| **Case workflow** `case_workflow/service.py`, `repository.py` | case row (state, owner, creator, participants), transitions, decisions, tasks, thread counter, messages, rolling summaries | create, add_message, submit_to_no, return_to_do, verify, submit_to_hod, return_to_no, approve, reject, escalate | every guard is evaluated on a row read without a lock; two tabs, two roles of one person, rollbacks | only the assignee acts; maker is not checker; one history; the capsule of a handoff is the case as it stands |
| **Context capsules** `context_engineering/engine.py` | `context_capsule` rows of the case | build one from the snapshot of a transaction, in every handoff | the snapshot is read while others write | part of the case workflow |
| **Staff directory** `staff_directory.py` | admin_users | recipients, require_recipient | - | part of the case workflow |
| **Document registry, parsing, index** `ingestion/*`, `retrieval/service.py`, `repository.py` | versions, status, stored objects, canonical documents, chunk rows (active or not), embeddings, checkpoints | upload, parse (forced or not), chunk, embed, deactivate, the resume loop of the indexing script | several transactions per command, check-then-update, crashes between transactions, several workers | registry consistent; one active chunk per position; what is searchable is the current document, whole and embedded; repetition settles |
| **Parser adapters, quality gate, chunker** `parsing.py`, `parser_adapters.py`, `chunking.py` | outputs of one run | verify, run a chain of adapters with retries, normalise their reports, gate, cut into parents and children | external parsers lose, nest and misplace text; the gate counts; limits are counted in parts, and parts before they are decoded | no chunk exceeds its limit, and only a part that grew in decoding is refused; numbers and formulas of the page reach the index unless a split may lose them; a proviso stays with its clause |
| **Assistant request and streaming** `app.py:946-1213, 1890-1964` | in-process lock per subject, advisory lock, request transaction, running query thread, messages | ask (JSON), ask (stream), replay, disconnect, failure, handoff of the chat meanwhile | event loop against thread pool, cancellation that does not stop the thread, idempotency keys | generations of a subject do not overlap; answers follow their questions; locks are released |
| **Chat workspace** `chat_repository.py` | chats, participants, messages, citations, memory, attachments, handoff events | create, update, archive, append, share, handoff | message numbers under a row lock; owner changes while a request runs | sequence without gap; a chain of owners |
| **Request transactions, pool, attachments** `database.py`, `app.py:559-700, 858-943, 2063-2152` | connection pool, open transactions, `chat_attachment` rows, background jobs | enter and leave dependencies, upload, background ingestion, ask about an attachment | one connection per dependency; the loop is needed to leave one; a job runs after the response, maybe before the commit of its row, and is never taken up again | connections are accounted for; a READY attachment is embedded; every request ends; an attachment settles |
| **Hybrid retrieval** `rag.py`, `query.py`, `reranking.py`, `embedding.py` | cache of query vectors | two searches, fusion, reranking, definitions, translations, parents, context budget | separate transactions while workers rechunk; one cache for all scopes | sources are of one cutting, readable, in force; the cache is honest; no better evidence is left out for worse |
| **Grounded generation** `generation.py` | none | prompt, call the model, repair and validate the draft, retry, compact answer | model output is arbitrary | no answer cites what was not retrieved |
| **Rule engine and rule book** `rule_engine/*`, tables of `pms_rules` | rules with a valid and a system period, reviews, stored calculations | draft, review, approve, supersede; calculate (cut a period at changes, resolve, amount, round), replay | a request reads the book, looks for an earlier result and inserts at three moments; two kinds of period; month arithmetic and rounding | each day counts once with the one rule in force; no rule without two reviews; a recorded bill stands |
| **Structured queries** `structured_query/*` | catalogue | refresh, route, compile, execute read-only | routing precedence; classes of columns from regular expressions | only catalogued plans run; facts are audited |
| **Forecasting** `forecasting/*` | snapshots, feature rows, training runs, predictions, model versions | build a snapshot, train, refresh, promote, explain | ids are hashes of content; overlapping transactions | a forecast can be computed again from its snapshot, as far ahead as both sides look; one champion, which earned it |
| **Verified graph** `graph/repository.py` | candidate and approved nodes and edges | add candidate, approve, traverse | - | see section 7 |
| **Local sessions, browser login** `local_auth.py`, `app.py`, `common/security.py` | sessions, cookies, the state of a login | login, authenticate, revoke; redirect, callback | several tabs share one jar of cookies; a callback waits for Keycloak before it answers; restarts; expiry | a token stands for its account exactly for its lifetime; only a callback sent for the last trip, still open, signs in, and only an account of that portal |
| **React page** `App.tsx`, `api/client.ts` | state hooks, functions under way | restore, login, demo, chats, cases, ask, stop, upload | replies that are late, lost or for a page that has gone on | one question at a time, and Stop knows it |
| **Operator scripts** `scripts/apply_phase*`, `provision_keycloak_pms_staff.py`, `index_text_rich_pdf_corpus.py`, `sql/extraction` | database revision, grants, views, realm, file of results | migrate, grant, verify; plan and call; index in bounded invocations | death between two commits; two runs at once; answers that are lost | PASS means installed; every revision has a way on; users get their role and password; the corpus is finished |
| **Demo routes, row policies, settings, preflight, logging** | none of their own | SELECTs, policies, start-up checks | - | guards of the modules above |

### 1.3 How they interact

```
 React page ─HTTP─> API process ── request transactions ──> PostgreSQL (RLS, unique keys, triggers)
   │ cookies          │  │            (pool)                   ^
   └ Keycloak         │  ├─ case routes ── CaseWorkflowService ┤ case_*, staff directory, capsules
                      │  ├─ chat routes ── chat repository ────┤ chat, messages, attachments
                      │  ├─ calculations ─ rule engine ────────┤ rules, reviews (read), results
                      │  ├─ query ──────── structured service ─┤ governed views (read), audit
                      │  ├─ policy_query ─ thread: RAG service ┤ chunks, embeddings (read), audit
                      │  └─ background job: attachment ─┐      │
 operator ── scripts ───────────────────────────────────┴─ DocumentService, parsing and
      │                                                    retrieval coordinators ── object store
      └──── phases, realm, corpus, forecasts
```

* The case workflow calls the staff directory before a handoff and rebuilds
  the capsule and the rolling summary in the transaction of every handoff.
* The attachment job, the upload route and the indexing script call the same
  three coordinators on the same tables, each in its own process or thread.
  All of them share `document_record.status`, the row the pipeline checks and
  overwrites without a lock.
* The assistant reads the index the pipeline writes; a document is searchable
  by the status and the active flag the pipeline keeps.
* Every route that uses a store holds a connection of one pool until its
  dependencies are left, and the threads it waits for take theirs from the
  same pool.
* The page keeps what it has read until it reads again; the server decides
  who a request is from the cookies of the moment it was sent.

---

## 2 Modules and code

| Module | What it is |
|---|---|
| `CaseWorkflow`, `CaseLifecycle` | the requests of the case routes, as transactions that overlap; the atomic life cycle they promise |
| `DocumentPipeline` | the commands on one document, as chains of transactions |
| `PdfParsing`, `Chunking`, `Extraction` | reports and the quality gate, units and groups, as functions; one run of the engine over one PDF |
| `ChatAssistant` | questions to the assistant in one chat, its locks, streams and retries, and the routes that write the row of the chat |
| `StructuredQuery`, `RequestPool` | router, catalogue and compiler as functions; requests, the pool they share, and attachment jobs |
| `Ordering`, `Retrieval`, `GroundedAnswer` | sorting; searches, fusion, choice of evidence and drafts as functions; `ask` as its transactions |
| `RuleEngine`, `RuleBook` | the calculation as a function, and the same rules read day by day; rules, reviews and the requests that calculate from them |
| `Forecasting` | snapshots, folds, models, runs, promotions |
| `SignIn`, `Workspace` | sessions, cookies and trips to Keycloak; the page of one tab over them |
| `PhaseRollout`, `StaffProvisioning`, `CorpusIndexing`, `Operations` | the operator's scripts, and the three side by side |
| `..._proof` | theorems and proofs about `CaseWorkflow`, `DocumentPipeline` (in general, and the index with one worker), `ChatAssistant`, `RuleEngine` and `RuleBook`, `StructuredQuery` and `RequestPool`, `Extraction` with its adapters, gate and chunker; `Staff_proof` about `Workspace` and about `Operations` and its parts; `Models_proof` about `Forecasting` and `GroundedAnswer`, which both rest on sorting |
| `MC...` | the instances for TLC |

`Mutant...` operators stand before the definitions they replace: each is a
plausible bug of that code (a guard dropped, a lock not taken, a row not
reset), and one property must catch it.

### 2.1 `CaseWorkflow`

| Code | Model |
|---|---|
| `case_record` columns | `state`, `creator`, `owner`, `participants` |
| `case_transition` rows | `transitions`, oldest first |
| open `case_task` rows | `openTasks`, a number per assignee |
| the latest `context_capsule` | `capsule` |
| `case_thread.next_sequence_number`, `case_message` | `nextSequence`, `messages` |
| what a request holds between its statements | `req[t]` |

A request is cut where other requests can tell the difference. It *reads* the
case and evaluates the guards of `service.py` (`Begin` and one operator per
operation). It *prepares*: later reads of the timeline, the `UPDATE` of the
thread counter or of open tasks, with their row locks, and the rows that row
level security accepts from the owner only (`Prepare`). It *inserts the
rolling summary* (`InsertSummary`): its version is `MAX + 1`, so a second
transaction blocks on the primary key; when the first commits the second fails
and rolls back, when the first rolls back the second goes on
(`SummaryReleased`). It *commits* (`CommitMessage`, `CommitHandoff`), is
*refused* (`Refuse`) or *dies* (`Crash`). Uncommitted writes are invisible to
READ COMMITTED readers, so they are all applied by the commit.

Abstractions. One case: cases share no row. Assignments mirror `owner`;
decisions follow from transitions; references, artifacts and the text of
summaries are data of the same transaction. Of a capsule the model keeps what the
snapshot of its transaction read: state, owner, open tasks and the number of the
latest message (`Snapshot`, `SaveCapsule`). The department, the
classification and the unit are equal for everybody, so `Visible` keeps the
participant clause of the policies. `Recipients` and `Delegates` are constants
because nothing in the workflow changes staff or delegations. The Auditor
role reads only.

`CaseLifecycle` is what the service's docstrings and guards promise: stage,
holder, maker, the set of people who verified, the Nodal Officer who last had
the case. Seven atomic actions. The refinement mapping reads `checkers` and
`nodal` off the list of transitions.

### 2.2 `DocumentPipeline`

| Code | Model |
|---|---|
| `document_version` | `versions`, `current` |
| `document_record.status` | `status` |
| `stored_object`: originals, raw outputs, canonical | `objects`, `raws`, `artifacts` |
| `document_chunk` (all, active), `chunk_embedding` | `chunks`, `active`, `embedded` |
| `index_checkpoint` | `checkpoints` |
| a running command | `work[w]` |

A command is a chain of transactions; each action is one of them, or one
transaction up to its check of the status: `transition_status` SELECTs the
status, checks the edge and UPDATEs without a condition, so the check
(`...Open`, `ParseClose`, `EmbedRun`) and the write (`...Mark`, `...Save`) are
two steps and `Edges` is evaluated in the first.

* *Upload*: `find_duplicate` answers a known checksum (a stutter);
  `UploadOpen` computes the next number and puts the object, `UploadSave`
  registers it or fails on one of the two unique keys (`UploadClash`). An
  object without a row may remain: the code deletes nothing here.
* *Parse*: without force, a canonical document of the current version ends
  the command. `ParseMark` writes `parsing` and fetches the file, the parser
  runs outside any transaction, `ParseClose` stores the raw output and the
  canonical one under the version that is current **now** (`ParseSave`). The
  key of a raw object is its checksum, so a raw text that comes back after
  another one cannot be stored again (`RawClash`): the transaction fails and
  the status stays `parsing`. Canonical JSON carries a time stamp and never
  collides.
* *Chunk*: reads the active rows (`ChunkRead`), INSERTs the rows whose key it
  did not see (`Fresh`) and deactivates the ones it saw and does not need
  (`Stale`). Uncommitted rows of other workers make it wait (`Waits`,
  `Holding`), committed ones make it fail (`KeyClash`): the primary key hashes
  version, position and text and covers inactive rows, the partial unique
  index covers active positions.
* *Embed*: plans the rows without an embedding, calls the model, stores and
  sets the status. *Deactivate*: sets all active rows inactive.
* `Crash` may hit any command between two steps; `ParseRaise` and `EmbedRaise`
  are the handled failures.

Abstractions. One document; one row per child chunk, with parent chunks, ACL
rows and audit events following. Two pairs of adjacent reads without a write
between them are merged (status with canonical document in `ChunkOpen`, plan
with rows in `EmbedOpen`). An embedding stored for a row deactivated meanwhile
is never searched and is dropped. The parsers are a choice among `Texts` with
a gate `Verdict`.

### 2.3 `ChatAssistant`

| Code | Model |
|---|---|
| `_active_query_locks` (app.py:441): the subjects whose lock is taken | `locks` |
| `chat_message` rows | `messages` |
| `chat.current_owner_subject`, `chat_handoff_event` | `owner`, `handoffs` |
| query threads whose request has gone | `orphans` |
| the request of a client: where it is, its uncommitted rows, its row lock | `req[t]` |

The API is one process, and where code runs decides what can overlap.
`policy_query` is `async`: from the acquisition of the two locks to the
release, everything but the query thread runs on the event loop, one piece
between two awaits at a time. Its database calls are synchronous. When
`append_message` waits for the row of the chat (`SELECT ... FOR UPDATE` in
`_next_sequence`), the loop waits with it: phases ending in `_wait`, and
`LoopFree`, which every other step on the loop needs. The other routes run on
worker threads and need the loop to be dispatched and to exit. A request's
transaction ends after its response, when its dependency exits: the loop hands
the exit to a worker thread (`Exit`), which commits or rolls back (`Commit`,
`Rollback`). Until then its rows are its own, its row lock and its advisory
lock are held.

* *Ask*: subject's lock, chat, advisory lock, in one turn of the loop; a
  refused request leaves nothing. `AskRaises`: the look-up raises outside the
  `try`, and nothing releases the lock. `AnswerJson` answers on the loop.
* *The stream*: refuse an attachment, replay a COMPLETED answer of the same
  key, or store the question and start the query thread (`StoreQuestion`);
  store the answer, or mark the row found under the key COMPLETED
  (`StoreAnswer`, `settles`); store a failure (`FailGeneration`); `EndStream`.
  Every append either finds a row under the key, inserts, or waits (`Store`);
  a wait ends when the row is free (`Granted`) or at the statement timeout
  (`TimedOut`), after which the transaction can only roll back.
* *The client goes away*: while the generator waits for the thread
  (`Disconnect`, stores CANCELLED) or while an event is sent (`Abandon`, stores
  nothing). The thread goes on as an orphan.
* *Beside it*: handoff reads the owner without a lock and compares it again
  under the row lock (`ReadForHandoff`, `LockRow`); rename and archive update
  the row. Both may time out.
* `Crash` restarts the process: locks, threads and open transactions are gone,
  committed rows stay.

Abstractions. One chat; what a message says is one of question, answer and the
failure sentence. The role table that says who may receive a chat is the
constant `Eligible`. A handoff row makes its receiver a participant, which is
all `Member` keeps of the policies. Citations, memory rows, attachments (but
for the refusal) and the links to a case are not told apart. A client is free to
send its key again: the browser makes a new one per submission, other clients of
the API need not (`tests/api/test_chat_workspace.py:258` retries under one).

### 2.4 `RuleEngine` and `RuleBook`

| Code | Model |
|---|---|
| `rule_definition`: status, system period, maker | `book` |
| its content: component, key, valid period, basis, rate, scale | the constant `Content` |
| `rule_approval` | `approvals` |
| `calculation_input` with `calculation_result` | `stored`, by request |
| what a request holds between its statements | `job[c]` |
| the clock of the database | `now` |

`RuleEngine` is `RuleCalculationEngine`: a period is cut at the dates of rules,
at changes and at April 1 (`Boundaries`, `Segments`), facts are carried from cut
to cut (`FactsFrom`), each component needs exactly one rule over the whole
segment (`Matches`, `Resolves`), and amounts are rounded by rule, by segment and
by bill (`Amount`, `CalculateSegment`, `Calculate`). `FactsOn`, `RulesOn` and
`ByDay` read the same input one day at a time, without segments; the properties
compare the two.

`RuleBook` is the rest. `Draft` dates the system period of a rule from its draft,
not from its approval; `Review` adds a row that is never changed; `Approve` passes
the trigger (`Reviewed`) and the exclusion constraint over both periods
(`Excluded`). A calculation is one READ COMMITTED transaction of three
statements: it loads the rules and computes (`Ask`, `Replay`), looks for an
earlier result of the same request (`Find`) and inserts its own (`Save`), where
the unique key makes the second of two equal requests fail. The book may change
in between. A replay is a stored request under another interpretation.

Abstractions. Dates are day numbers, with the days that open a month or a
financial year as constants; amounts are whole numbers of a unit finer than a
paisa, and rates are not negative; jurisdiction and applicability key are one
key. Nothing in the code closes the system period of a rule, but the tables
provide for it: `Supersede` stands for an operator's UPDATE, and `Tick` for the
clock; both are marked external. `Old` rules were approved before the behaviour
begins. The content of a rule never changes (an UPDATE of an approved rule by
hand is outside the model). Bills as documents (`evidence.py`) are renderings of
a result.

### 2.5 `RequestPool` and `StructuredQuery`

| Code | Model |
|---|---|
| `QueuePool` (`db_pool_size` + `db_max_overflow`) | `free` |
| the request of a client: dependencies entered, what its route found | `req[c]` |
| `document_record` of the file, with its canonical document and embeddings | `docs[n]` |
| `chat_attachment` of the file | `rows[k]`, per chat |
| `_process_chat_attachment` under way | `jobs[n]` |
| ALLOWED audit events; facts sent | `audit`, `answered` |

A provider dependency of a route is a generator around a transaction. It is
entered and left in a thread, and the event loop has to hand it there, so a
request alternates between the loop (`Dispatch`) and threads (`Connect`,
`Exit`). A structured query and an upload hold two connections, a question
one, and a question takes more in its thread (`AskGoesOn`). An `async def`
route that waits for the database stops the loop (`Stalled`): the INSERT of an
attachment whose unique key another transaction has inserted
(`InsertGoesOn`, `InsertTimesOut`), and a question answered without a stream.
`pyproject.toml` admits releases of FastAPI that leave dependencies before the
response and its background tasks and releases that leave them after both:
`late` is chosen once, and every property holds for either. The job
(`JobParse` to `JobReady`) is the same three coordinators as in
`DocumentPipeline`, seen from the row of the attachment; every uploaded file
is the same file, so that jobs meet on its document. `Crash` rolls everything
back and forgets jobs.

`StructuredQuery` has the precedence of engines (`Route`), the class of a
column by the expressions its name matches (`Class`), what a refresh of the
catalogue leaves queryable (`Refreshed`, with the CHECKs of the tables in
`Accepted` and `Allowed`) and the compiler of plans (`Compiled`), which refuses
a plan with `NoStatement`.

### 2.6 `Retrieval` and `GroundedAnswer`

| Code | Model |
|---|---|
| active chunks, status indexed | `active`, `indexed` |
| `OrderedDict` of query vectors | `cache`, oldest first |
| `HybridRagService.ask` under way | `req[c]` |
| audit events, delivered answers | `audit`, `answers` |

A chunk is a row of its document, parent, translation group, days in force and
token count; a question carries how well its words, its vector and the
cross-encoder match each chunk. `Retrieval` computes from them what the code
does: both searches under the row policies, reciprocal-rank fusion (with the
common denominator of the ranks, so that no fractions are needed), the
reranker and its threshold, exact definitions first, one language per
translation group, parents or hits into the context within both budgets,
repair and validation of a draft. `GroundedAnswer` runs `ask` as its steps: a
search in one transaction, the vector from the cache or the model (the clock is
read before the lock is taken: `ReadClock`, `LookUp`, `Store`), a second search, the parents in a third transaction, the
draft, the audit event before the answer. Workers rechunk, embed and deactivate
between any two.

### 2.7 `PdfParsing`, `Chunking` and `Extraction`

A PDF is pages of elements, an element a sequence of words that carry the
marks the gate's expressions find. What an external extractor reports is the
PDF, or the PDF with a flaw (`Report`): text lost, boxes lost, on a wrong page,
headings flattened, blurred characters, nested twice. The adapters translate a
report into blocks as their code does: ODL walks nested nodes and drops pages
beyond the count, Docling puts tables after all texts, PyMuPDF reads plain
text, PaddleOCR scores. `Issues` are the checks of the gate with their
severities, `Decision` its verdict. `Extraction` is the `ParsingEngine`: the
verifier, then each adapter of the chain with its retries, up to the first
output that passes. `Chunking` cuts what comes out: units that must not be
torn, windows of long ones, parents, children with an overlap.

The tokenizer of the embedding model is external. A word is some tokens to it
(`Pieces`), and `BgeM3Tokenizer.split` cuts between tokens, not words: a window
has the words that lie inside it and what its ends leave of two more. What the
tokens of a word are decoded to is a parameter (`Decoded`): the word, nothing,
a fragment, or another text with another count. So the parts of a split block
are counted a second time, by `_group_units`, and may be longer than the window
they were cut for; `Fit` does not look. That a word never shares a token with
its neighbour is the assumption of the model.

`DocumentPipeline`'s `Verdict` of a text is this gate seen from outside: "pass"
is an accepted output without an issue for a reviewer, "conditional" one with
`PROMPT_INJECTION_INDICATOR`, "fail" one with an error. (A decision
CONDITIONAL_PASS for `VERIFICATION_UNAVAILABLE` alone is canonicalised and
chunked like a pass.)

### 2.8 `Forecasting`

Every command is one transaction, in two steps: what it read when it began
(`...Start`) and its commit (`...Commit`) or `Abort`. A snapshot's rows have
ids hashed from their content and are inserted ON CONFLICT DO NOTHING
(`Stored`), so that a row stays with the snapshot that first had it. The rows a run stores and its
backtests look `Horizon` periods ahead (`forecast_default_horizon_months`), a
forecast on demand `OnDemandHorizon` (12, written into `training.py:164`).
Rolling origins, the seasonal baseline, absolute errors and the weighted error are
computed; the ETS challenger is a constant function of its input. A promotion
is the UPDATE of the old champion and of the new one under a partial unique
index (`Unique`).

### 2.9 `SignIn` and `Workspace`

`SignIn` has the local sessions of the server, which end by time, by sign-out
and with the process, the cookies all tabs share, the order in which a request
is looked up in them, and the trips to Keycloak with the state cookie of the
last. A callback is taken apart: it is sent and its state compared with the
cookie it brings (`ReturnFromKeycloak`), its code is exchanged and the roles are
compared with the portal (`ExchangeCode`), its answer sets and deletes cookies
(`CallbackAnswered`), or it fails; any other request may come in between. Other
tabs sign in and out at any time; the answers of their other requests arrive at
once. `Workspace` is `AppRuntime`: the
state hooks of the page, and the functions its buttons and effects start, each
as the list of requests it awaits (`Program`). A function runs from one await
to the next (`Arrives`, `AfterSuccess`, `AfterFailure`, `Finally`) with what it
captured when it began; the server takes a request when it is sent and the reply
may travel, fail or be lost. `Reload` drops every function; a stream's answer is in
its chat once its transaction has committed (`Commit`), after its last event.

### 2.10 `PhaseRollout`, `StaffProvisioning`, `CorpusIndexing` and `Operations`

`PhaseRollout` is `apply_phase06`, `07` and `09` to `12`: each script is a list of steps
(`Due`) with a commit of its own each: the child process of Alembic commits one
transaction per migration (`Migrate`) and may outlive a script that died; grants;
the refresh of the catalogue; the import of graph candidates; the verification.
The conditions of a verification are those of the script's reads (`Verified...`),
but `Open` and `Verify` take the reads of one connection for one moment, which
READ COMMITTED does not promise: what another terminal commits between two of
them is seen before or after both. Meanwhile the extract may
be rebuilt with `DROP SCHEMA ... CASCADE` and roles altered or dropped.
`StaffProvisioning` plans calls from what it read (`Calls`) and makes them one
by one; a call takes effect, fails, or takes effect with its answer lost, and
another administrator or an edit by hand may come in between. `ReadRealm` takes
the reads of profile, client, mappers and roles for one moment, `ReadUser` those of a user and its role
mappings; the run without `--provision-staff`, which only writes profile and
mappers, is left out.
`CorpusIndexing` is the invocation of the indexing script with its file of
results (a source that changed is recorded like one that is missing, and any
registered document may be named for a retry); `DocumentPipeline` has the same commands transaction by transaction.
`Operations` chooses one of the three per behaviour: they share no state.

---

## 3 Runs

All runs pass; sizes are distinct states.

| Run | Instance | What it shows | States |
|---|---|---|---|
| `case_office` | four sessions of three people: DO; one person with an NO and an HOD session; an Administrator who is also HOD; 4 handoffs, 2 messages | whatever overlaps or rolls back: the maker never checks, the capsule of a handoff is the case as it stands and nothing of a former owner comes in behind it, every request ends | 31,864 |
| `case_one_tab` | one session per person, two of them with two roles; 7 handoffs | the requests implement `CaseLifecycle`; the verifier never decides | 2,299 |
| `doc_one_worker` | one worker, all commands, 2 versions, 3 texts of which one cannot be chunked, 2 crashes or failures | the index is the current document, whole and embedded; repeating the script settles it | 490,697 |
| `doc_two_workers` | two workers, upload and deactivate allowed, no crash | registry consistent, positions unique | 1.57 M |
| `chat_office` | two clients of Ann, who ask under one key and hand the chat over, one of Bob, who asks without a key and renames; in the chat as a stream, outside as JSON; 3 messages, 1 handoff, one disconnect, crash or database error | generations stay apart, messages are numbered and answers follow questions, owners form a chain, every request ends | 95,402 |
| `requests` | two clients and three connections, two chats, one file, a structured question; 2 requests, 1 crash; dependencies left early or late | connections are accounted for, READY is embedded, facts are audited, plans stay inside the catalogue, every request ends, an attachment settles | 80,846 |
| `rule_book` | two clients; a daily and a monthly rent that overlap for a month and are drafted, reviewed and superseded meanwhile, a cess and a tax in force from the start; two bills over twelve days of three months; one tick | every day counts once with the rule and the facts of that day, totals agree, nothing is ambiguous, a recorded bill stands | 571,489 |
| `answers` | two scopes, two documents of which one is cut in two ways, two questions, five drafts; a cache of one entry that lives one tick; 2 changes | sources come from parents of one cutting and are readable, in force and audited; the cache is honest; evidence is chosen well | 455,070 |
| `forecasts` | two operators, two divisions over four months, one correction; 5 commands; stored one period ahead, on demand two | forecasts can be computed again; the champion is one and earned it | 145,836 |
| `workspace` | one tab with an account, a demo identity, a chat, a case; 3 functions, 2 logins, 2 trips, 2 callbacks | one question at a time; a token is its account for its lifetime; only a callback sent for the last, still open trip signs in | 533,590 |
| `extractions` | 280 PDFs of up to three elements, three chains of adapters, one retry, seven reports; words of one to five tokens, some that decode to more or to other text | no chunk exceeds its limit, only a part that grew is refused, numbers and formulas reach the index where splitting does not lose them, provisos stay attached | 62,180 |
| `operations` | two terminals and 3 scripts with a rebuild or a change of a role; two administrators, 2 runs and 1 edit; two documents, one per invocation, 2 mishaps | PASS is installed, no revision without a way on, users exact and with passwords, the corpus finishes | 2.62 M |

*Bounds.* Seven handoffs let a case be returned twice by each officer, or be
returned, resubmitted and decided. Four handoffs are enough for a full path to
the HOD with a second request at every point. Two sessions of one person are
all that an interleaving of two stale reads needs; the fourth tab of
`case_office` is the Administrator, who passes every owner check. Two versions
let an upload overlap any other command; three texts, of which two share a
position, make chunks kept, replaced and brought back; two mishaps make a
repetition fail again. Three messages hold a question whose answer was lost,
then a question and its answer; a retry of an answered question is not counted.
One mishap is enough for each of them to meet every phase of the other
requests. Two clients and three connections are the smallest instance in which one upload
waits for the other's row on the event loop, and a question on the loop waits for
the connections of an upload that needs the loop to be left; two chats attach one
file, so two jobs meet on its document. The invariant of the proofs was also
checked with two connections and three requests. In `rule_book` one tick gives each rule
and each request a moment before and a moment after; `MaxSaved` counts requests
in flight, and two of them reach the race for one key and a replay of a stored
bill. Twelve days hold a period that begins in one month and ends in the next,
whole months, April 1 and a tax that begins inside a month. In `answers` a
cache of one entry is always full, one tick is the whole lifetime of an entry,
and the context has room for one parent with one hit or two small parents;
the two cuttings of a document share a parent and have one of their own each.
Five commands of `forecasts` are two snapshots, two runs and a promotion, in any
overlap. Three functions of the page are a stream and two that reset what it
has set. PDFs of one page cover every order of three kinds of element around the
limits of 9, 12 and 16 tokens with an overlap of 4; among the words are a rate of five
tokens, a number of three, tails of two, and words whose parts decode to more than
they were or to nothing; TLC reaches a document refused for a part that grew, a
number and a formula lost at a cut, and a number that two windows share; blank, scanned and second pages are separate files.
Three scripts are one that dies, one that finds what it left, and one that goes
on; two runs with one edit are a stale plan met by its rival and by hand.

*State reduction.* `VIEW Effects` of the document runs drops checkpoints, which
the code writes and never reads, from the states told apart. That is harmless
for `Settles`: every step of a command changes `work`, so no step becomes a
stutter, and no guard reads a checkpoint. `CONSTRAINT FewDetours` of `workspace`
keeps, besides one function of the page, at most three logins, trips, callbacks and
ticks, besides two or three of them one, and follows a third function only beside a question: without one,
three functions show nothing about `OneQuestion` that two do not, and the other
properties are about sessions and trips. Symmetry (workers, clients, files) is used where only invariants
are checked.

*Deadlock.* Every run but `extractions` ends when its bounds are used up or
everybody is content, so deadlock is not an error there; `extractions` checks
it (a run ends in `Done`). That a wait never lasts is `EveryRequestEnds`,
`Settles`, `AttachmentSettles` and `CorpusFinishes`.

---

## 4 Fairness

* `CaseWorkflow!FairSpec`: strong fairness of `Continue(t)`, per session. The
  server drives a request that has begun, and PostgreSQL grants a row lock to
  its waiters in the order they queued. Strong, because a waiter is disabled
  and enabled again as other requests come and go. No fairness for starting a
  request or for crashing.
* `DocumentPipeline!FairSpec`: weak fairness of `Step(w)`, a process goes on
  with the command it runs; strong fairness of opening the three stages without
  force, because the indexing script tries parse, chunk and embed in turn and
  its help asks for repetition ("Bound this invocation; repeat the same command
  to resume.", `scripts/index_text_rich_pdf_corpus.py`). No fairness for forced
  parses, uploads or deactivations. `Settles` therefore has the exception
  `Stranded`, the two states that only another forced parse leaves: a forced
  reparse that died or failed beside the old canonical document, and a text
  whose chunks were deactivated before.
* `ChatAssistant!FairSpec`: strong fairness of `Continue(t)`, per client. asyncio
  takes its ready callbacks in turn; a step on the loop is disabled while the
  loop waits and enabled again, hence strong. The query thread answers or raises
  because the model server is called with a timeout
  (`llm_request_timeout_seconds`), statements have one, worker threads run. No
  fairness for asking, disconnecting, crashing or the end of orphaned threads.
* `RequestPool!FairSpec`: strong fairness of `GoesOn(c)`, per client, for the
  same reasons; the waits for a connection and for a row have timeouts
  (the default `pool_timeout` of `QueuePool`, `statement_timeout`). Weak fairness of `JobGoesOn(n)`: a
  background task runs in a thread, and each of its steps is enabled whatever
  the pool has, with a connection or with the failure to get one. No fairness
  for starting requests or crashes.
* `Operations!OperationsSpec`: weak fairness of the corpus alone: an invocation
  goes on with its document, and the command is repeated while documents are
  left, as its help asks. No fairness for retries, mishaps or the other scripts.
* `RuleBook`, `GroundedAnswer`, `Forecasting`, `Workspace`, `Extraction` state no
  fairness and claim no liveness.

---

## 5 Proofs

TLAPS checks the theorems below for every number of people, sessions, workers,
clients, files and texts and every bound, from the assumptions of the modules:
`ConstantsAssumption` (typing of the constants; the chunks of one text have
different positions), `CalendarAssumption` (a financial year opens with a month),
`RulesAssumption` (a valid period is not empty, as its CHECK says, dates and
amounts are numbers, requests are what the API accepts, and the rules approved
before the start exclude each other), `PoolAssumption` (there is a connection and
a chat; bounds are natural), `MatchesAreSets` and `RowsAreLimited` (a column name
matches some of the six classes; the row limit is positive), `SignInAssumption`
(tenants have accounts and a session lasts some time), `StaffAssumption` (the
staff and the mappers are finite lists, roles are the portal's),
`ForecastBounds`, `RetrievalBounds` and `CacheBounds` (what `settings.py` validates;
there are finitely many chunks, with token counts), `ParentsExist` (a child and its parent are cut
from one document), `QuestionsAssumption` and `DraftsAssumption` (scores are
numbers, a draft has its four fields), `ChunkingsAssumption` (a document is
cut into its own chunks), `ParsingBounds` (a proviso is a clause to the gate's
expressions, a NUL is nothing else), `ChunkingBounds` (overlap < target <=
maximum <= parent maximum, as `settings.py` validates), `TokenizerBounds` (a word is some
tokens, and any run of them decodes to words), `EngineBounds` (chains of
the four adapters, none empty) and `PdfsAssumption` (a PDF is pages of elements). TLC evaluates the assumptions in every run that
extends their module.

| Theorem | States |
|---|---|
| `CaseWorkflow_proof!InductiveInvariant`, `TypeCorrect` | `Spec => []Inductive`, `[]TypeOK` |
| `OneWriterWhoOwns` | `[]WriterStillOwns` |
| `NumbersAreDense` | `[]MessagesDense` |
| `HandoversAreWhole` | `[]HandoverIsWhole` |
| `MakerIsNotChecker` | `[]MakerNeverChecks` |
| `ImplementsLifecycle` | `Spec => LifecycleSpec`, when each subject has one session and nobody is Administrator |
| `HistoryIsLegal` | `[](LegalHistory /\ VerifierNeverDecides)`, same assumption |
| `DocumentPipeline_proof!InvariantHolds`, `TypeCorrect` | `Spec => []Inductive`, `[]TypeOK` |
| `RegistryConsistent` | `[]RegisteredVersions` |
| `PositionsUnique` | `[]OneActivePerPosition` |
| `DeactivatedStayOut` | `Spec => ChunksNeverRevive` |
| `DocumentPipeline_proof!IndexStaysCurrent` | `Spec => []IndexIsCurrent`, when there is one worker |
| `IndexStaysEmbedded` | `Spec => []IndexedIsEmbedded`, same assumption |
| `ChatAssistant_proof!InvariantHolds`, `TypeCorrect` | `Spec => []Inductive`, `[]TypeOK` |
| `NoOverlap` | `[]GenerationsApart` |
| `MessagesInOrder` | `[]AnswersInOrder` |
| `ChainOfOwners` | `[]OwnerChain` |
| `LocksFollowRequests` | `[]LocksHeldByRequests` |
| `RequestPool_proof!InvariantHolds`, `TypeCorrect` | `Spec => []Inductive`, `[]TypeOK` |
| `PoolNeverLeaks` | `[]PoolAccounted` |
| `PlansGoverned` | `[]PlansInside` |
| `ReadyEmbedded` | `[]ReadyIsEmbedded` |
| `Audited` | `[]AnswersAudited` |
| `Staff_proof!InvariantHolds` | `Spec => []Inductive`, of `Workspace` |
| `OneAtATime` | `[]OneQuestion` |
| `Sessions` | `[]SessionsExact` |
| `LastTrip` | `Spec => LastTripOnly` |
| `Models_proof!InvariantHolds` | `Spec => []Inductive`, of `Forecasting` |
| `Reproducible` | `[]ForecastReproducible` |
| `OneChampion` | `[]ChampionEarned` |
| `AskInvariantHolds` | `AskSpec => []AskInductive`, of `GroundedAnswer` |
| `VectorsAreOwnAndFresh` | `[]CacheHonest` |
| `AnswersStayGrounded` | `[]AnswersGrounded` |
| `EvidenceIsBest` | `[]BestEvidence` |
| `Staff_proof!PassInstalls` | `OperationsSpec => []PassedIsInstalled` |
| `NoneStranded` | `[]NoDeadEnd` |
| `AppliedHolds` | `[]AppliedIsExact` |
| `PasswordsCome` | `[]PasswordsFollow` |
| `Extraction_proof!LimitsHold` | `Spec => []WithinLimits` |
| `EvidenceIndexed` | `[]EvidenceReachesTheIndex` |
| `ProvisosAttached` | `[]ProvisoStaysAttached` |
| `RuleBook_proof!SegmentsPartition` | every day of a period lies in exactly one segment |
| `InvariantHolds`, `TypeCorrect` | `Spec => []IInv`, `[]TypeOK` |
| `RulesExclude` | `[]OneRuleInForce` |
| `ApprovalsIndependent` | `[]IndependentApproval` |
| `Unambiguous` | `[]NeverAmbiguous` |
| `RecordedBillsStand` | `[]RecordedStands` |
| `FactsCarried` | the facts of a segment are those its first day has been told |
| `CalendarFollowed` | `[]FollowsCalendar` |
| `TotalsAlwaysAgree` | `[]TotalsAgree` |

`WriterStillOwns`, `MessagesDense` of the case, `LegalHistory`,
`ChunksNeverRevive`, `LocksHeldByRequests`, `OneRuleInForce` and
`IndependentApproval` are not repeated in a run: they are parts of, or follow
from, the invariants that the proofs show inductive.

**The case.** `WriterStillOwns` (one writer, who still owns the case) is not inductive: a waiting request that
gets the summary key must still act for the owner. `WritersOwn` says so of
waiting requests too; it is preserved because a commit, the only step that
changes the owner, ends every waiting request. `ThreadHeld` (the one request
with a number holds the next one) makes `MessagesDense` inductive;
`TasksClaimed` keeps task counts natural.
A handoff writes its capsule last, and dense numbers make its latest message cover
every message there is; a later message is committed by the one who still owns the
case, which is `HandoverIsWhole`. `RequestsWellFormed` remembers, in
the request, the guard on which the maker rule rests, so that a stale state
does not matter to it. For the refinement, with one session per subject, the
state a request has read is still the state when it commits (`Fresh`): the owner cannot have
changed without this session's own commit. Then a commit is a step of
`CaseLifecycle` and every other step a stutter.

**The document.** A step either leaves the registry and the rows alone (the
"bystander" lemmas), or writes rows. For those, `WritersApart` says of a worker
between its statements and its commit that its new rows are new, that their
positions are free among the rows that stay, and that no other worker waits on
or holds them; it is the row locks and the unique keys, written as an
invariant. `HoldersApart` shows the relation symmetric, and the four steps that
write rows keep it. `OneActivePerPosition` and `ChunksNeverRevive` follow:
what a commit makes active was in no row before.

**The chat.** Every action but `Commit` and `Crash` gives one client another
request record and leaves the chat alone. `Legal` says what such a step must
respect, `LegalStep` shows that it is enough, and the lemmas of the actions show
each of them legal. The invariant is about what each open transaction sees, its
own rows included: `SeenInOrder` (numbers 1..n, each answer after its question),
`RolesOfRows`, `GeneratingAsked` (a generating request has stored or found its
question). Two facts keep it when *another* request commits: rows are held only
under the row lock (`RowLockedOnce`) and only by the one request that asks in
the chat (`GenerationsApart`, the advisory lock), so a commit that changes
messages meets no other transaction with rows. A commit leaves exactly what its
transaction saw, one status apart (`CommitRows`). `OwnerHeld` is the comparison
under the row lock: it stays true until the handoff commits because nobody else
holds the row.

**The rule book.** `SegmentsPartition` takes the largest boundary up to a day and
the smallest after it: they exist because boundaries lie between the two ends of
the period, and nothing else is a segment around that day. `OneRuleInForce` is
inductive because superseding only shortens a system period and an approval
compares the new rule with every approved one. For `IndependentApproval` the
invariant adds `OneReview`, one row per rule and role: two approvals of a rule
are then its Finance and its Legal review. `NeverAmbiguous` is about rows a request
loaded some time ago, so the invariant says of them, not of the book, that they
exclude each other on the system periods they had when they were loaded; two
that match one segment would share its first day and the moment asked for.
`RecordedStands` needs a second invariant, `RecordedInv`, of results on their way
and stored: each component of each segment was decided by a row that is still
approved and still on record at the moment asked for (`Decided`). A step keeps it
because the book only grows (`BookGrows`): no rule leaves, and a system period is
closed only in the present, which is after that moment. That a draft of that time
approved since is no second rule is `OneRuleInForce` again.

**The pool.** A client's request is the unit: `Fits` says of one request record
what the invariant says of all of them, and `OneRequest` shows that a step
which gives one client a record that fits, and does not lose an audit event
that is owed, keeps the invariant. `Holding` ties the connections held to the
phase. `ReadyAhead` is why `ReadyIsEmbedded` is inductive: what is indexed has
its embeddings, so has the document of a job about to write READY, and so has
the document of an upload that found it indexed and is still to commit its row;
a second job that sends the document back to `chunk_ready` takes the status and
not the embeddings. `AuditAhead` says of facts already sent without their event
that their transaction is still to be left, so that `Exit` writes it, or that
the process died. Late and early release of dependencies are one proof: `late`
never changes. For the jobs, three conditions (`DocsKept`, `RowsKept`,
`JobsKept`) are enough, and each step of a job is shown to keep them.

**The index.** With one worker, what a command has read is still so when it
writes. `Carried` says what that is, by phase: a chunking holds the text of the
canonical document of the current version and the rows it would replace, and
keeps the status only where it rewrites nothing or the status is `chunk_ready`
already; an embedding holds every active chunk that has no vector; a parse has
the status `parsing` until it saves. Then `ChunkWrites` is set algebra: the rows
replaced are those outside the new cut, the rows added those missing from it.
The invariant is inductive only relative to that of the pipeline, and it needs
the assumption `OneWorker`: two workers break it, as section 6 says of a parse
that closes while a version is uploaded.

**The page.** `SessionsKnown` is the two directions of one sentence: each session
is a login that is not over, and each login that is neither over nor expired has
its session. Purging needs the second, revoking the first. `TripKnown`: the
cookie of a trip is that of the last one, still open, because leaving replaces
it and an answer deletes it, so that a callback sent late for an earlier trip
finds another state. What a callback was when it was sent stays with it
(`callbacks`), and `ExchangeCode` is its only way to an answer; of a trip begun
while the code of another is exchanged nothing is claimed, and section 6 says
what it loses.
`OneQuestion` is inductive with `TasksKnown` (a function has a number no other
had): only `SubmitQuestion` starts a question and only with `asking` free, only
the end of that question frees it, and signing out, which clears the page, keeps
it; loading the tab drops the function and the reference together.

**The forecasts.** The one fact on which both theorems rest is `Stays`: once the
rows that a snapshot's hash names are in the store (`Settled`), the rows stored
under it never change, whoever else builds. Not all of them need be under it (a
row of an earlier snapshot stays there, which is why `SnapshotWhole` is false);
what a run is trained on is what *is* under it. So a run trained again selects
the same version, a command that read the rows long ago still has the right
ones, and predictions of a version are stored together or not at all (`Kept`).
What is stored is said as far as `Horizon`, what is asked for as far as
`OnDemandHorizon`; what is said of a period does not depend on how far the
forecast goes on (`SaidAhead`), so that the two agree as far as both go, and no
further is claimed.
`RankedByTime` shows that ORDER BY created_at loses no snapshot: commands begin
at different moments, so ranks are an injection into as many numbers, hence onto
them. How models forecast is a parameter; how WAPE adds up is not looked into.

**Connections.** `PoolAccounted` counts: the connections in the pool and in the
hands of requests are as many as there ever were. What a client holds is a set
of numbered places in its hands (`InHands`), so that the count is a cardinality
and a step is a subset taken or returned (`Accounted`); a client without a
request holds none. `PlansInside` needs no history: `AllowedInside` follows a
column from its profile to the plan, for any names, and the runs of the pool only
carry its result.

**The bills.** The library's induction is out of reach, so what a recursive
function computes is shown by the smallest counterexample: `FactsCarried` writes
down the facts of every day (`FactsOn`, a maximum over the changes told so far),
shows that they solve the equation by which the engine carries facts from one
segment to the next, and that an equation over a finite set of days has one
solution. `CalendarFollowed` then needs only that segments partition the period
and that the rules of a segment's first day are those of all its days. The total
is a fold over sets (`Sums`): two of them agree because each element contributes
a multiple of a paisa (`Whole`), which rounding keeps; the condition on
`quantum` in `TotalsAgree` is where that fails.

**The scripts.** `ScriptHolds` says what a script past each step of its phase has
done that nobody has undone; `quiet` says nobody has: a rebuild of the extract or
a change of the role by hand ends it. No step takes a revision back (`Grows`),
which is all `NoDeadEnd` needs. For the staff script the invariant is about what
is *missing*: whatever the realm lacks is still among the calls of the plan
(`Goals`), also while a second administrator works through an older plan; roles
to remove are exact only without edits by hand (`StaleGoal`). A user without a
password has the call pending, or its run was lost (`PasswordsPending`), because
`post_user` is planned once per user and before the password.

**Grounded answers.** `SortsCompletely` is the fact about ORDER BY and sorted():
under a strict total order on a finite set the numbers of predecessors are an
injection into as many places, hence onto them, so each element is listed once.
From it follows that what a search, the fusion, the reranker and the choice of
translations hand on are chunks that the statements of the searches could see
(`EvidenceFrom`), and from `StepsExist` that the context, built one candidate
at a time, consists of them and of parents of one reading (`Entries`). A request
carries that as an existential: *some* set of parents was read at one moment and
was of one cutting (`ReadAtOnce`); what workers do afterwards cannot change it.
For the cache, popping keeps one entry per key (`Popped`, for `RemoveAt`), adding
keeps the bound by dropping the first, and what is served was made under the key
it is found by, earlier than its expiry.

The proof attempt corrected the property. That all chunks of an answer are of one
cutting is false: the id of a chunk hashes its version, position and text
(`chunking.py`), so two cuttings may share a parent, and a hit of the older one
is answered with it. TLC showed it once the instance had such cuttings; what
holds, and is proved, is that the parents are of one.

**The best evidence.** `BestEvidence` is about two lists, and its proof is about
what makes them. Shares of reciprocal ranks are whole numbers because the common
denominator is a multiple of every divisor (`DenominatorDivides`); they fall
strictly with the rank (`SharesFall`), so that two hits with no worse ranks and
no better score are one hit: ids never break a tie between hits of which one is
better. Preference between translations is total (`DeduplicatedFrom`). For the
context, `BuiltFrom` says of the first n candidates what is claimed of all:
`BuiltOn` is the step, with the reason for each refusal tied to the place of the
context at which it was given (`RefusedAt`), so that what is added later cannot
undo it (`CoveredKept`), and `TokensAdded` is the sum of a longer context. The
inductive invariant (`AllEvidence`) carries only the length of the two searches
and, once built, these facts.

**What becomes of a PDF.** The inductive invariant (`IInv`) says of a result only
where it comes from: some output whose blocks are numbered apart (`PagesApart`),
which passed the gate, was made canonical and cut (`Stems`). All that is claimed
of the chunks is then a fact about functions, for texts, units and groups of any
number, by induction on the place reached in a sequence (`StepByStep`).

* *Limits.* A unit that was not split fits, because `Fit` counts it; a part of one
  that was split has been cut from few enough tokens, but is counted only after
  it was decoded, and may have grown (`Grown`, `AllMade`). A group stays within
  its maximum because what it keeps of the one before is shortened until the new
  unit fits (`ShortenedFits`, `NextFits`), which ends, at worst with nothing, if
  the unit alone fits. So `_group_units` refuses (`chunking.py:222`) only where a
  unit is too long alone (`TooLong`), hence only for a part that has grown
  (`LongHasGrown`), and what it accepts is never refused at lines 104 and 123.
* *Nothing lost but by a split.* Windows begin less than a window apart, since the
  overlap, also where `Fit` cuts it down for long headings, is smaller than the
  window (`OverlapSmaller`); so a word of at most one token more than the overlap
  lies whole in one of them (`SplitCovers`), and if its tokens decode to it, it is
  in a part (`FitCovers`). All other words of a split block may be lost
  (`MayBeLost`); `Lost` follows them through the units that are joined and split
  later (`PartsAttach`, `UnitRead`). Every unit is in a group (`GroupsCover`),
  every block with text is in a unit (`UnitsCover`), so every other word of the
  body reaches a child (`ChunksCover`). The gate compared the
  verifier's numbers and formulas with the blocks (`GateHolds`), and making an
  output canonical takes nothing from them but NULs (`CanonicalApart`), which are
  neither.
* *Provisos.* A unit that has a block opening with a proviso has the block before
  it (`Attached`, kept by `UnitRead`), because a unit with two blocks is never
  torn, and a child cites all blocks of its units. That a child citing *this*
  block must be made of *that* unit needs that no two blocks of a document are
  equal: `OpenDataLoaderApart`, `DoclingApart`, `PyMuPDFApart` and
  `PaddleOCRApart` show it of each adapter, for every flaw of a report.

The model's `Having` and the readers of blocks and units are recursive functions
rather than the library's `SelectSeq` and `FoldLeft`, so that the prover can
follow them.

**Only model-checked.** Liveness
(`EveryRequestEnds`, `Settles`, `AttachmentSettles`, `CorpusFinishes`) rests on
fairness and ENABLED, which are beyond the prover.

---

## 6 What the checks found

These are disagreements between the code and what its documents or comments
say. Each was found by TLC with the property named, which the module still
states and no run of the project repeats.

1. **A person who verifies in one session and decides in another**
   (`VerifierNeverDecides` in the office of `case_office`), because the timeline
   is read before anything is locked. `case_workflow/service.py:322`: "maker or
   verifier cannot approve their own case".
2. **A second tab records a transition from a state the case has left**
   (`LegalHistory`, two tabs per officer). `transition` writes `from_state` as
   the request read it and updates the row by its key only; when the first of
   two requests of the current owner leaves the owner unchanged (`verify`), both
   commit. `service.py:39`: "Requested state change is not valid from the
   current state."
3. **A parse that closes while a version is uploaded** (`StatusEdges`, two
   workers) moves the new version from `uploaded` to `canonicalized` with the
   text of the old one. `ingestion/service.py:367`: "Apply an explicit Phase 06
   state transition and audit it."
4. **A retry turns a failure into the answer** (`CompletedIsAnswer`). After a
   failed or cancelled attempt the assistant's row under the key holds "The
   assistant could not complete this request."; a retry generates an answer,
   finds that row, marks it COMPLETED and drops the answer (`app.py:1115`).
   `app.py:954`: "Stream a validated RAG answer and persist one idempotent final
   message."
5. **Two generations of one subject after a disconnect** (`OneGeneration`). The
   cancellation releases the lock and the query thread cannot be stopped.
   `app.py:436`: "A request lock prevents two overlapping generations for one
   authenticated workspace."
6. **A job without its row** (`JobHasItsRow`). Where dependencies are left after
   background tasks, the job of an attachment starts before the row it works on
   is committed; its updates touch nothing, and the attachment stays UPLOADED.
7. **A definition behind other hits** (`DefinitionAhead`): fusion, reranking and
   translation choice may put a hit without matching words before an exact
   definition ("Keep an exact definition hit ahead of title/index matches").
8. **A snapshot without its rows** (`SnapshotWhole`). Rows are hashed without
   their snapshot and inserted ON CONFLICT DO NOTHING: the later of two snapshots
   that share rows lacks them, while its count and hash speak of them.
   (Predictions remain reproducible from what is stored.)
9. **An answer that vanishes** (`AnswerRemainsVisible`). The final event is sent
   before the transaction of the stream commits; the page then reads the chat
   again and may find it without the answer it has just shown.

Seen while modelling, in the models' states though no property states them:

* *Cases and chats.* A case reaches `closed` by no operation although the
  capsule tells the owner of a decided case to close it; an escalated case has
  no operation; a refusal's audit event is rolled back with the refusal. A
  database error in the look-up of the chat leaves the subject's lock taken
  until the process restarts; the event loop waits for a row whose holder needs
  the loop to commit, and only the statement timeout frees it. The page can
  never remove an attachment (it sends no body, and no DELETE is granted).
* *Sign-in.* The answer of a callback deletes `pms_oauth_state` whichever trip it
  stands for (`app.py:1551`): where a second tab leaves for Keycloak while the
  code of the first is exchanged, the first still signs in, and the second,
  now the last, comes back without its cookie and is refused.
* *Forecasts.* `forecast --compare-precomputed` forecasts 12 periods ahead
  (`training.py:164`) and compares that with rows stored for
  `forecast_default_horizon_months`, which may be 1 to 60 (`settings.py:85`): for
  every value but 12 the number of rows differs and the command raises
  (`cli.py:193`). The hashes that name a version and a run leave the horizon out,
  so that after a change of the setting the version that is there is found.
* *Chunks.* A document may be refused at `chunking.py:222` although every block
  was cut to its limit, because a part, decoded and counted again, has grown
  (`embedding.py:119`). With `chunk_overlap_tokens` = 0 (`settings.py:196`), or an
  overlap for which long headings leave no room (`chunking.py:181`), a number of
  several tokens may be cut in two and reach no chunk whole after the gate has
  found it; so may what decoding normalises.
* *Documents.* Older versions' chunks stay active after a new version is
  indexed; a deactivated document with the same text can never be chunked again;
  provisional indexing makes every embedding roll back; an attachment job that
  dies is never taken up. A nested ODL node repeats its text, so a clause that
  is lost elsewhere is not missed by a count; the text of a heading over nothing
  reaches no chunk; blocks of a page beyond the count are dropped.
* *Answers.* An answer may rest on a hit that was deactivated while the request
  ran, when the new cutting kept its parent.
* *Rules.* A calculation that asked for review, or used rules superseded since,
  answers the same request under the current interpretation for ever; a rule
  whose scale is finer than a paisa makes the total of a bill differ from the sum
  of its segments; the dates of a rule that no required component uses cut a
  monthly rate into parts of a month, which sends the bill to review; one person
  may give both reviews of a rule.
* *The page.* A late reply writes into the page after a sign-out; the demo
  identity in the page and the one in the cookie may differ; creating a chat
  during a stream shows the page as free while it is not; a retry of a question
  makes a new key; the poll of an upload overwrites the chat that is open.
* *Operators.* Phase 07 and 06, run again at their target, verify and print
  PASS without granting ("already_applied=true"); 07, 09 and 10 grant before
  they look whether the role is elevated. The rebuild of the extract drops the
  governed views and, past revision 0007, script 09 refuses to make them again.
  A run that loses the answer between creating a user and its password leaves a
  user without one, and the next run reports PASS unless told to reset. The
  indexing script ends at the same document every time if that document raises
  outside the classes it catches; `--retry-conditional` never indexes a document
  that needs review; two invocations overwrite each other's file of results.

The hazards in `PROJECT.json` name the lines.

---

## 7 What is not modelled

* **Verified graph** (`graph/repository.py`): no route of the API calls it, and
  under the policies of its tables an UPDATE sees only rows that are verified
  already, so that its one change of state, an approval, changes nothing.
* **Settings, preflight, logging**: start-up checks with no behaviour over time;
  the bounds `settings.py` validates are ASSUMEs of the modules that use them.
* **Partly modelled.** Staff and row policies are constants and guards: nothing
  in the program changes them at run time. Of the chat workspace, creation,
  listing and memory rows are left out. Demo routes are read-only SELECTs; their
  cookie is in `SignIn`. Of migrations, a revision and its grants count, not the
  DDL. The filters of the extract are data.
* **External.** Keycloak, the object store, the malware scanner, PDF extractors,
  embedding and language models, numerical fits: a module takes what they answer
  as a choice, or as a constant function.
* Scripts that only read (`validate_*`, profiles, reports), rendering of the
  page and the forms of its case pages, `evidence.py` of the rule engine, which
  lists candidates and keeps nothing.

---

## 8 Plan

Done: every component above but those of section 7, with proofs about all of
them. Every safety property of the runs is proved, four of them for
one session per subject or one worker; what is left is refinement:

1. `CorpusIndexing` as a refinement of `DocumentPipeline`'s commands of one
   worker, document by document.
2. The abstract promise of an attachment (UPLOADED, at work, settled) and the
   refinement that shows `RequestPool` implements it for early release.
