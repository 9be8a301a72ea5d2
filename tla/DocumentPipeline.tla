-------------------------- MODULE DocumentPipeline --------------------------
(***************************************************************************)
(* One document of the registry on its way into the search index: upload   *)
(* of versions, parsing, chunking, embedding and deactivation, as run by   *)
(* DocumentService, DocumentParsingCoordinator and RetrievalCoordinator.   *)
(*                                                                         *)
(* The coordinators "keep database transactions short": a command is a     *)
(* chain of READ COMMITTED transactions with the parser or the embedding   *)
(* model running between them, and what it read in one of them decides     *)
(* what it writes in a later one.  No command locks the document: each     *)
(* step below is one transaction, or the part of one up to the check of    *)
(* the status, which DocumentService.transition_status reads first and     *)
(* overwrites later.                                                       *)
(***************************************************************************)
EXTENDS Naturals, Sequences, FiniteSets

CONSTANTS
  Workers,      \* processes that run commands
  Commands,     \* optional commands in use, beside parse, chunk and embed
  Contents,     \* original files, told apart by checksum
  FirstContent, \* the file the document was created with
  Texts,        \* what parsers may extract, told apart by checksum
  Verdict,      \* the quality gate's decision on a text
  Children,     \* child chunks
  ChildrenOf,   \* the chunks StructureAwareChunker cuts a text into
  Ordinal,      \* the position of a child chunk in its text
  NoText,
  FailedStatus, \* pdf_human_review_on_critical_failure: the status without canonical
  Provisional,  \* pdf_provisional_indexing_enabled with pdf_evidence_mode to match
  MaxVersions,  \* bound on versions
  MaxMishaps    \* bound on crashes and on failures of the parser and the model

ASSUME ConstantsAssumption ==
  /\ Commands \subseteq {"force", "deactivate", "upload"}
  /\ FirstContent \in Contents
  /\ NoText \notin Texts
  /\ Verdict \in [Texts -> {"pass", "conditional", "review", "fail"}]
  /\ ChildrenOf \in [Texts -> SUBSET Children]
  /\ Ordinal \in [Children -> Nat]
  /\ \A t \in Texts : \A c, d \in ChildrenOf[t] :
       Ordinal[c] = Ordinal[d] => c = d
  /\ FailedStatus \in {"review_required", "quality_failed"}
  /\ Provisional \in BOOLEAN
  /\ MaxVersions \in Nat \ {0}
  /\ MaxMishaps \in Nat

VARIABLES
  versions,    \* document_version: the content of each version number
  current,     \* document_record.current_version
  status,      \* document_record.status
  raws,        \* per version, the raw parser outputs stored, latest last
  artifacts,   \* per version, the latest canonical document
  chunks,      \* document_chunk, inactive rows included
  active,      \* document_chunk rows with active = true
  embedded,    \* chunks with an active chunk_embedding row
  checkpoints, \* index_checkpoint, per version and stage
  objects,     \* original objects in the object store
  mishaps,     \* crashes and failures so far
  work         \* the command each worker is running

registry == <<versions, current, raws, artifacts, objects>>
index == <<chunks, active, embedded>>
vars == <<versions, current, status, raws, artifacts, chunks, active, embedded,
          checkpoints, objects, mishaps, work>>

Numbers == 1..MaxVersions
Stages == {"chunk", "embed"}
Row == [source : Numbers, child : Children]

Statuses ==
  {"uploaded", "parsing", "parsed", "quality_failed", "review_required",
   "canonicalized", "chunk_ready", "indexed", "provisionally_indexed",
   "deactivated", "failed"}

\* The state machine of transition_status: where each status may go.
Edges == [s \in Statuses |->
  CASE s \in {"uploaded", "failed", "quality_failed", "review_required",
              "deactivated"} -> {"parsing"}
    [] s = "canonicalized" ->
         {"parsing", "review_required", "chunk_ready", "deactivated"}
    [] s = "chunk_ready" ->
         {"parsing", "review_required", "indexed", "deactivated"}
    [] s \in {"indexed", "provisionally_indexed"} ->
         {"parsing", "chunk_ready", "deactivated"}
    [] s = "parsing" -> {"parsed", "quality_failed", "review_required", "failed"}
    [] s = "parsed" -> {"canonicalized", "review_required"}]

\* A canonical document carries the version it was parsed from.
Artifact == [source : Numbers, text : Texts]
NoArtifact == [source |-> 0, text |-> NoText]

Keep == "keep"

Phases ==
  {"idle", "parse_mark", "parse_run", "parse_save",
   "chunk_start", "chunk_read", "chunk_write", "chunk_save", "move",
   "embed_start", "embed_run", "embed_save",
   "deactivate_write", "deactivate_save", "upload_save", "fail_checkpoint"}

\* seen: the status read by the first transaction; version: the current
\* version it read; source, text: the parse or the canonical in hand; rows:
\* the chunk rows it read; at: the version the raw output is stored under;
\* new: the raw output is not the latest one; move: the status a pending
\* UPDATE writes, or Keep.
NoWork ==
  [phase |-> "idle", seen |-> "uploaded", version |-> 0, source |-> 0,
   text |-> NoText, content |-> FirstContent, rows |-> {}, at |-> 0,
   new |-> FALSE, stage |-> "chunk", move |-> Keep]

Init ==
  /\ versions = <<FirstContent>>
  /\ current = 1
  /\ status = "uploaded"
  /\ raws = [v \in Numbers |-> << >>]
  /\ artifacts = [v \in Numbers |-> NoArtifact]
  /\ chunks = {}
  /\ active = {}
  /\ embedded = {}
  /\ checkpoints \in [Numbers \X Stages -> {"none"}]
  /\ objects = {<<1, FirstContent>>}
  /\ mishaps = 0
  /\ work = [w \in Workers |-> NoWork]

-----------------------------------------------------------------------------
(* Helpers.                                                                *)

Become(w, r) == work' = [work EXCEPT ![w] = r]

Done(w) == Become(w, NoWork)

RowsOf(v, t) == {[source |-> v, child |-> c] : c \in ChildrenOf[t]}

SameKey(a, b) == a.source = b.source /\ Ordinal[a.child] = Ordinal[b.child]

\* Mutant: a status may not be written over itself.
MutantMayMove(to) == to \in Edges[status]

\* transition_status accepts the move from the status it has just read.
MayMove(to) == status = to \/ to \in Edges[status]

\* ... and leaves the row alone when there is nothing to change.
MoveTo(to) == IF status = to THEN Keep ELSE to

\* The UPDATE of the status, unconditional.
Moved(w) == IF work[w].move = Keep THEN status ELSE work[w].move

\* canonical documents that StructureAwareChunker.chunk accepts
Chunkable(t) ==
  /\ \/ Verdict[t] = "pass"
     \/ Verdict[t] = "conditional" /\ Provisional
  /\ ChildrenOf[t] # {}

-----------------------------------------------------------------------------
(* Parsing.                                                                *)

ParseOpen(w, force) ==
  /\ work[w].phase = "idle"
  /\ force => "force" \in Commands
  /\ force \/ artifacts[current] = NoArtifact
  /\ MayMove("parsing")
  /\ Become(w, [NoWork EXCEPT !.phase = "parse_mark", !.move = MoveTo("parsing")])
  /\ UNCHANGED <<registry, status, index, checkpoints, mishaps>>

\* The status is written and the original is fetched: the parser starts.
ParseMark(w) ==
  /\ work[w].phase = "parse_mark"
  /\ status' = Moved(w)
  /\ Become(w, [NoWork EXCEPT !.phase = "parse_run", !.source = current])
  /\ UNCHANGED <<registry, index, checkpoints, mishaps>>

\* The status the closing transaction moves to first.
FirstStop(t) ==
  IF t \in Texts /\ Verdict[t] # "fail" THEN "parsed" ELSE FailedStatus

FinalStop(t) ==
  IF FirstStop(t) # "parsed" THEN FailedStatus
  ELSE IF Verdict[t] = "pass" THEN "canonicalized" ELSE "review_required"

Latest(s) == IF s = << >> THEN NoText ELSE s[Len(s)]

\* A parser produced a text, or none produced anything (NoText); the status
\* is read and the move is allowed.
ParseClose(w, t) ==
  /\ work[w].phase = "parse_run"
  /\ MayMove(FirstStop(t))
  /\ Become(w, [work[w] EXCEPT
       !.phase = "parse_save", !.text = t, !.at = current,
       !.new = t \in Texts /\ t # Latest(raws[current]),
       !.move = IF status = FirstStop(t) THEN Keep ELSE FinalStop(t)])
  /\ UNCHANGED <<registry, status, index, checkpoints, mishaps>>

\* The parser raised: FAILED is written by a transaction of its own.
ParseRaise(w) ==
  /\ work[w].phase = "parse_run"
  /\ mishaps < MaxMishaps
  /\ mishaps' = mishaps + 1
  /\ IF MayMove("failed")
     THEN Become(w, [work[w] EXCEPT !.phase = "move", !.move = MoveTo("failed")])
     ELSE Done(w)
  /\ UNCHANGED <<registry, status, index, checkpoints>>

\* The move is not allowed: the transaction rolls back.
ParseRefused(w) ==
  /\ work[w].phase = "parse_run"
  /\ \E t \in Texts \cup {NoText} : ~MayMove(FirstStop(t))
  /\ Done(w)
  /\ UNCHANGED <<registry, status, index, checkpoints, mishaps>>

\* uq_stored_object_bucket_key: a raw output that is not the latest one has
\* the key of an earlier one.
RawClash(w) ==
  /\ work[w].new
  /\ \E i \in 1..Len(raws[work[w].at]) : raws[work[w].at][i] = work[w].text

\* store_derived looks the current version up again.
ParseSave(w) ==
  /\ work[w].phase = "parse_save"
  /\ IF RawClash(w)
     THEN UNCHANGED <<raws, artifacts, status>>
     ELSE /\ raws' = IF work[w].new
                     THEN [raws EXCEPT ![work[w].at] = Append(@, work[w].text)]
                     ELSE raws
          /\ artifacts' = IF FirstStop(work[w].text) = "parsed"
                          THEN [artifacts EXCEPT ![current] =
                                  [source |-> work[w].source,
                                   text |-> work[w].text]]
                          ELSE artifacts
          /\ status' = Moved(w)
  /\ Done(w)
  /\ UNCHANGED <<versions, current, objects, index, checkpoints, mishaps>>

-----------------------------------------------------------------------------
(* Chunking.                                                               *)

ChunkOpen(w) ==
  /\ work[w].phase = "idle"
  /\ status \in {"canonicalized", "chunk_ready", "indexed"}
  /\ artifacts[current] # NoArtifact
  /\ Chunkable(artifacts[current].text)
  /\ Become(w, [NoWork EXCEPT
       !.phase = "chunk_start", !.seen = status, !.version = current,
       !.source = artifacts[current].source, !.text = artifacts[current].text])
  /\ UNCHANGED <<registry, status, index, checkpoints, mishaps>>

\* ChunkingReviewRequired: the indexing script asks for a review instead.
ChunkRefuse(w) ==
  /\ work[w].phase = "idle"
  /\ status \in {"canonicalized", "chunk_ready", "indexed"}
  /\ artifacts[current] # NoArtifact
  /\ ~Chunkable(artifacts[current].text)
  /\ MayMove("review_required")
  /\ Become(w, [NoWork EXCEPT !.phase = "move", !.move = MoveTo("review_required")])
  /\ UNCHANGED <<registry, status, index, checkpoints, mishaps>>

Move(w) ==
  /\ work[w].phase = "move"
  /\ status' = Moved(w)
  /\ Done(w)
  /\ UNCHANGED <<registry, index, checkpoints, mishaps>>

ChunkStart(w) ==
  /\ work[w].phase = "chunk_start"
  /\ checkpoints' = [checkpoints EXCEPT ![<<work[w].version, "chunk">>] = "running"]
  /\ Become(w, [work[w] EXCEPT !.phase = "chunk_read"])
  /\ UNCHANGED <<registry, status, index, mishaps>>

Replaceable(v) == {r \in active : r.source = v}

ChunkRead(w) ==
  /\ work[w].phase = "chunk_read"
  /\ Become(w, [work[w] EXCEPT !.phase = "chunk_write",
                               !.rows = Replaceable(work[w].source)])
  /\ UNCHANGED <<registry, status, index, checkpoints, mishaps>>

Fresh(w) == RowsOf(work[w].source, work[w].text) \ work[w].rows

\* Mutant: chunks that are no longer cut stay active.
MutantStale(w) == {}

Stale(w) == work[w].rows \ RowsOf(work[w].source, work[w].text)

\* Rows a worker has inserted or updated and not yet committed.
Holding(w) ==
  CASE work[w].phase = "chunk_save" -> Fresh(w) \cup Stale(w)
    [] work[w].phase = "deactivate_save" -> work[w].rows
    [] OTHER -> {}

\* Mutant: nobody waits for an uncommitted row.
MutantWaits(w, rows) == FALSE

\* A write waits for uncommitted writes of the same row, or of the same key
\* of uq_document_chunk_active_ordinal.
Waits(w, rows) ==
  \E u \in Workers \ {w} :
    \E a \in rows, b \in Holding(u) : SameKey(a, b)

\* The primary key, which inactive rows keep, or the unique active ordinal.
KeyClash(w) ==
  \/ Fresh(w) \cap chunks # {}
  \/ \E a \in Fresh(w), b \in active \ Stale(w) : SameKey(a, b)

\* An indexed document whose chunks are unchanged keeps its status.
Rechunked(w) == work[w].seen # "indexed" \/ Fresh(w) # {} \/ Stale(w) # {}

\* The rows are written, the checkpoint is completed, the status is read.
ChunkWrite(w) ==
  /\ work[w].phase = "chunk_write"
  /\ ~Waits(w, Fresh(w) \cup Stale(w))
  /\ IF KeyClash(w) \/ (Rechunked(w) /\ ~MayMove("chunk_ready"))
     THEN Become(w, [work[w] EXCEPT !.phase = "fail_checkpoint"])
     ELSE Become(w, [work[w] EXCEPT !.phase = "chunk_save",
            !.move = IF Rechunked(w) THEN MoveTo("chunk_ready") ELSE Keep])
  /\ UNCHANGED <<registry, status, index, checkpoints, mishaps>>

\* An embedding that is stored for a chunk deactivated meanwhile has no
\* effect: nothing reactivates a chunk.
ChunkSave(w) ==
  /\ work[w].phase = "chunk_save"
  /\ chunks' = chunks \cup Fresh(w)
  /\ active' = (active \ Stale(w)) \cup Fresh(w)
  /\ embedded' = embedded \ Stale(w)
  /\ checkpoints' = [checkpoints EXCEPT ![<<work[w].version, "chunk">>] = "complete"]
  /\ status' = Moved(w)
  /\ Done(w)
  /\ UNCHANGED <<registry, mishaps>>

FailCheckpoint(w) ==
  /\ work[w].phase = "fail_checkpoint"
  /\ checkpoints' =
       [checkpoints EXCEPT ![<<work[w].version, work[w].stage>>] = "failed"]
  /\ Done(w)
  /\ UNCHANGED <<registry, status, index, mishaps>>

-----------------------------------------------------------------------------
(* Embedding.                                                              *)

\* Mutant: only the chunks of the current version are planned.
MutantPending == {r \in active \ embedded : r.source = current}

\* The plan takes the active chunks of every version.
Pending == active \ embedded

EmbedOpen(w) ==
  /\ work[w].phase = "idle"
  /\ status \in {"chunk_ready", "indexed"}
  /\ Become(w, [NoWork EXCEPT
       !.phase = "embed_start", !.seen = status, !.version = current,
       !.stage = "embed", !.rows = Pending])
  /\ UNCHANGED <<registry, status, index, checkpoints, mishaps>>

EmbedStart(w) ==
  /\ work[w].phase = "embed_start"
  /\ checkpoints' = [checkpoints EXCEPT ![<<work[w].version, "embed">>] = "running"]
  /\ Become(w, [work[w] EXCEPT !.phase = "embed_run"])
  /\ UNCHANGED <<registry, status, index, mishaps>>

IndexedStatus == IF Provisional THEN "provisionally_indexed" ELSE "indexed"

\* The model has answered; a document that was indexed keeps its status.
EmbedRun(w) ==
  /\ work[w].phase = "embed_run"
  /\ IF work[w].seen = "chunk_ready" /\ ~MayMove(IndexedStatus)
     THEN Become(w, [work[w] EXCEPT !.phase = "fail_checkpoint"])
     ELSE Become(w, [work[w] EXCEPT !.phase = "embed_save",
            !.move = IF work[w].seen = "chunk_ready"
                     THEN MoveTo(IndexedStatus) ELSE Keep])
  /\ UNCHANGED <<registry, status, index, checkpoints, mishaps>>

EmbedRaise(w) ==
  /\ work[w].phase = "embed_run"
  /\ mishaps < MaxMishaps
  /\ mishaps' = mishaps + 1
  /\ Become(w, [work[w] EXCEPT !.phase = "fail_checkpoint"])
  /\ UNCHANGED <<registry, status, index, checkpoints>>

EmbedSave(w) ==
  /\ work[w].phase = "embed_save"
  /\ embedded' = embedded \cup work[w].rows
  /\ checkpoints' = [checkpoints EXCEPT ![<<work[w].version, "embed">>] = "complete"]
  /\ status' = Moved(w)
  /\ Done(w)
  /\ UNCHANGED <<registry, chunks, active, mishaps>>

-----------------------------------------------------------------------------
(* Deactivation and upload of a new version.                               *)

DeactivateOpen(w) ==
  /\ work[w].phase = "idle"
  /\ "deactivate" \in Commands
  /\ status \in {"canonicalized", "chunk_ready", "indexed"}
  /\ Become(w, [NoWork EXCEPT !.phase = "deactivate_write", !.rows = active])
  /\ UNCHANGED <<registry, status, index, checkpoints, mishaps>>

DeactivateWrite(w) ==
  /\ work[w].phase = "deactivate_write"
  /\ ~Waits(w, work[w].rows)
  /\ IF MayMove("deactivated")
     THEN Become(w, [work[w] EXCEPT !.phase = "deactivate_save",
                                    !.move = MoveTo("deactivated")])
     ELSE Done(w)
  /\ UNCHANGED <<registry, status, index, checkpoints, mishaps>>

DeactivateSave(w) ==
  /\ work[w].phase = "deactivate_save"
  /\ active' = active \ work[w].rows
  /\ embedded' = embedded \ work[w].rows
  /\ status' = Moved(w)
  /\ Done(w)
  /\ UNCHANGED <<registry, chunks, checkpoints, mishaps>>

Registered(c) == \E n \in 1..Len(versions) : versions[n] = c

\* A file that is registered already is answered with its version.  The
\* object is put into the store before anything is registered.
UploadOpen(w, c) ==
  /\ work[w].phase = "idle"
  /\ "upload" \in Commands
  /\ Len(versions) < MaxVersions
  /\ ~Registered(c)
  /\ objects' = objects \cup {<<Len(versions) + 1, c>>}
  /\ Become(w, [NoWork EXCEPT !.phase = "upload_save", !.content = c,
                              !.version = Len(versions) + 1])
  /\ UNCHANGED <<versions, current, status, raws, artifacts, index, checkpoints,
                 mishaps>>

\* Mutant: the versions of a document have no unique constraints.
MutantUploadClash(w) == FALSE

\* uq_document_version_number, uq_document_version_checksum
UploadClash(w) ==
  work[w].version # Len(versions) + 1 \/ Registered(work[w].content)

UploadSave(w) ==
  /\ work[w].phase = "upload_save"
  /\ IF UploadClash(w)
     THEN UNCHANGED <<versions, current, status>>
     ELSE /\ versions' = Append(versions, work[w].content)
          /\ current' = work[w].version
          /\ status' = "uploaded"
  /\ Done(w)
  /\ UNCHANGED <<raws, artifacts, objects, index, checkpoints, mishaps>>

\* The process dies, or its connection to the database is lost.
Crash(w) ==
  /\ work[w].phase # "idle"
  /\ mishaps < MaxMishaps
  /\ mishaps' = mishaps + 1
  /\ Done(w)
  /\ UNCHANGED <<registry, status, index, checkpoints>>

-----------------------------------------------------------------------------
Command(w) ==
  \/ \E force \in BOOLEAN : ParseOpen(w, force)
  \/ ChunkOpen(w) \/ ChunkRefuse(w) \/ EmbedOpen(w) \/ DeactivateOpen(w)
  \/ \E c \in Contents : UploadOpen(w, c)

Step(w) ==
  \/ ParseMark(w) \/ (\E t \in Texts \cup {NoText} : ParseClose(w, t))
  \/ ParseRefused(w) \/ ParseSave(w) \/ Move(w)
  \/ ChunkStart(w) \/ ChunkRead(w) \/ ChunkWrite(w) \/ ChunkSave(w)
  \/ EmbedStart(w) \/ EmbedRun(w) \/ EmbedSave(w) \/ FailCheckpoint(w)
  \/ DeactivateWrite(w) \/ DeactivateSave(w) \/ UploadSave(w)

Mishap(w) == ParseRaise(w) \/ EmbedRaise(w) \/ Crash(w)

Next == \E w \in Workers : Command(w) \/ Step(w) \/ Mishap(w)

Spec == Init /\ [][Next]_vars

\* A process goes on with the command it runs.  The indexing script is to be
\* repeated until it has nothing left to do ("repeat the same command to
\* resume"): it tries to parse, to chunk and to embed in turn, and so takes
\* a stage that can be taken again and again.
FairSpec ==
  /\ Spec
  /\ \A w \in Workers :
       /\ WF_vars(Step(w))
       /\ SF_vars(ParseOpen(w, FALSE))
       /\ SF_vars(ChunkOpen(w))
       /\ SF_vars(ChunkRefuse(w))
       /\ SF_vars(EmbedOpen(w))

-----------------------------------------------------------------------------
(* Properties.                                                             *)

Work ==
  [phase : Phases, seen : Statuses, version : 0..MaxVersions,
   source : 0..MaxVersions, text : Texts \cup {NoText}, content : Contents,
   rows : SUBSET Row, at : 0..MaxVersions, new : BOOLEAN, stage : Stages,
   move : Statuses \cup {Keep}]

\* Every variable keeps its type; "parsed" is never committed.
TypeOK ==
  /\ versions \in Seq(Contents) /\ Len(versions) \in Numbers
  /\ current \in Numbers
  /\ status \in Statuses \ {"parsed"}
  /\ raws \in [Numbers -> Seq(Texts)]
  /\ artifacts \in [Numbers -> Artifact \cup {NoArtifact}]
  /\ chunks \subseteq Row /\ active \subseteq chunks /\ embedded \subseteq chunks
  /\ checkpoints \in [Numbers \X Stages -> {"none", "running", "complete", "failed"}]
  /\ objects \subseteq Numbers \X Contents
  /\ mishaps \in 0..MaxMishaps
  /\ work \in [Workers -> Work]

\* However uploads overlap and fail, the current version is the last one, no
\* file is registered twice and no version lacks its object.
RegisteredVersions ==
  /\ current = Len(versions)
  /\ \A m, n \in 1..Len(versions) : versions[m] = versions[n] => m = n
  /\ \A n \in 1..Len(versions) : <<n, versions[n]>> \in objects

\* No two active chunks of a version share a position, whoever replaces or
\* deactivates chunks at the same time.
OneActivePerPosition == \A a, b \in active : SameKey(a, b) => a = b

\* A chunk that was deactivated is never active again: a text that comes back
\* is refused by the primary key, its chunks are not revived.
ChunksNeverRevive == [][(chunks \ active) \cap active' = {}]_vars

\* Every status change is one the state machine allows, or the upload of a
\* new version; a parse passes through "parsed" on its way.  The code claims
\* it and two workers break it: the check and the UPDATE are two statements.
StatusEdges ==
  [][status' # status =>
       \/ status' \in Edges[status]
       \/ status = "parsing" /\ status' \in Edges["parsed"]
       \/ current' # current /\ status' = "uploaded"]_vars

\* A canonical document is stored under the version it was parsed from.
ArtifactOfItsVersion ==
  \A v \in Numbers : artifacts[v] # NoArtifact => artifacts[v].source = v

\* What may be searched is the latest canonical document of the current
\* version, parsed from its file and whole: after any sequence of reparses,
\* replacements, failures and new versions.
IndexIsCurrent ==
  /\ ArtifactOfItsVersion
  /\ status \in {"chunk_ready", "indexed"} =>
       {r \in active : r.source = current} = RowsOf(current, artifacts[current].text)

\* The chunks of an indexed document all have an embedding.
IndexedIsEmbedded == status = "indexed" => active \subseteq embedded

\* Where nothing but another forced parse takes the document on: an earlier
\* one died or failed, or brought back chunks that were replaced.
Stranded ==
  /\ artifacts[current] # NoArtifact
  /\ \/ status \in {"parsing", "failed"}
     \/ RowsOf(current, artifacts[current].text) \cap (chunks \ active) # {}

\* The script brings every document to the index or before a reviewer, in
\* spite of crashes and failures between any two transactions.
Settled == {"indexed", "review_required", "quality_failed", "deactivated"}
Settles == status \notin Settled ~> status \in Settled \/ Stranded

-----------------------------------------------------------------------------
(* The inductive invariant of the registry and of the chunk rows.          *)

\* What a command carries from one transaction to the next.
WellFormed(k) ==
  /\ k.move # "parsed"
  /\ k.phase \in {"parse_run", "parse_save"} => k.source \in Numbers
  /\ k.phase = "parse_save" /\ k.new => k.text \in Texts
  /\ k.phase \in {"chunk_start", "chunk_read", "chunk_write", "chunk_save"} =>
       k.source \in Numbers /\ k.text \in Texts
  /\ k.phase \in {"embed_start", "embed_run", "embed_save"} => k.rows \subseteq chunks
  /\ k.phase = "upload_save" => k.version \in Numbers

CommandsWellFormed == \A w \in Workers : WellFormed(work[w])

\* A worker about to register a file has put its object into the store.
UploadsBacked ==
  \A w \in Workers : work[w].phase = "upload_save" =>
    <<work[w].version, work[w].content>> \in objects

\* What the row locks and the unique keys leave to a worker that has written
\* its rows: they are new, their positions are free, and no other worker has
\* written there.
WritersApart ==
  \A w \in Workers : work[w].phase = "chunk_save" =>
    /\ Fresh(w) \cap chunks = {}
    /\ \A a \in Fresh(w), b \in active \ Stale(w) : ~SameKey(a, b)
    /\ ~Waits(w, Fresh(w) \cup Stale(w))

\* A worker that has deactivated its rows keeps the others away from them.
DeactivatorsApart ==
  \A w \in Workers : work[w].phase = "deactivate_save" =>
    ~Waits(w, work[w].rows)

Inductive ==
  /\ TypeOK /\ CommandsWellFormed /\ RegisteredVersions /\ UploadsBacked
  /\ WritersApart /\ DeactivatorsApart /\ OneActivePerPosition
=============================================================================
