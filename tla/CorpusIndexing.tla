--------------------------- MODULE CorpusIndexing ---------------------------
(***************************************************************************)
(* index_text_rich_pdf_corpus.py: a bounded number of documents per        *)
(* invocation goes through upload, parsing, chunking and embedding, and a  *)
(* file remembers the outcome of each, so that the same command, repeated, *)
(* goes on where the last one stopped or died.                             *)
(*                                                                         *)
(* A document is what the registry and the index have of one checksum of   *)
(* the inventory.  One invocation runs at a time: two would overwrite each *)
(* other's file.  DocumentPipeline has what commands of several processes  *)
(* do to one document.                                                     *)
(***************************************************************************)
EXTENDS Naturals, Sequences, FiniteSets, SequencesExt

CONSTANTS
  Candidates,   \* the inventory's checksums, in its order
  MaxDocuments, \* --max-documents
  MaxRetries,   \* bound on invocations with a retry option
  MaxMishaps    \* bound on crashes, errors and changes of the source files

VARIABLES
  document,   \* the registry's status and canonical document of each checksum
  recorded,   \* the file of results
  invocation, \* the one that runs
  retries, mishaps

corpus == <<document, recorded, invocation, retries, mishaps>>

Checksums == Range(Candidates)

\* Whether the quality gate let the parse through, and what chunking finds.
Canonicals == {"none", "pass", "empty", "conditional"}

Outcomes == {"source_missing", "existing_review_required", "already_indexed",
             "review_required", "indexed", "failed"}

\* provisional: pdf_provisional_indexing_enabled with pdf_evidence_mode to match
NoInvocation ==
  [at |-> "idle", queue |-> << >>, named |-> {}, conditional |-> FALSE,
   provisional |-> FALSE, prior |-> [i \in Checksums |-> "absent"], outcome |-> "failed"]

CorpusInit ==
  /\ document = [i \in Checksums |-> [status |-> "none", canonical |-> "none"]]
  /\ recorded = [i \in Checksums |-> "absent"]
  /\ invocation = NoInvocation
  /\ retries = 0
  /\ mishaps = 0
-----------------------------------------------------------------------------
(* main                                                                    *)

Under == Head(invocation.queue)

InReview == {"review_required", "existing_review_required"}

\* What is left, given the results loaded and the options.  The record of a
\* source that was missing has no document id to be named by.
Remaining(prior, named, failed, conditional) ==
  SelectSeq(Candidates, LAMBDA i :
    \/ prior[i] = "absent"
    \/ i \in named /\ prior[i] # "source_missing"
    \/ failed /\ prior[i] = "failed"
    \/ conditional /\ prior[i] \in InReview)

FirstOf(s) == SubSeq(s, 1, IF Len(s) < MaxDocuments THEN Len(s) ELSE MaxDocuments)

\* Mutant: the bound is applied before what is done is left out.
MutantSelected(named, failed, conditional) ==
  SelectSeq(FirstOf(Candidates),
            LAMBDA i : i \in Range(Remaining(recorded, named, failed, conditional)))
Selected(named, failed, conditional) ==
  FirstOf(Remaining(recorded, named, failed, conditional))

Invoke(named, failed, conditional) ==
  /\ invocation.at = "idle"
  /\ Selected(named, failed, conditional) # << >>
  /\ \E provisional \in BOOLEAN : invocation' = [NoInvocation EXCEPT
       !.at = "upload", !.queue = Selected(named, failed, conditional),
       !.named = named, !.conditional = conditional, !.provisional = provisional,
       !.prior = recorded]
  /\ UNCHANGED <<document, recorded, mishaps>>

Repeat == Invoke({}, FALSE, FALSE) /\ UNCHANGED retries

\* --retry-review-document-id takes the id of any registered document.
Retry ==
  /\ retries < MaxRetries
  /\ retries' = retries + 1
  /\ \E failed, conditional \in BOOLEAN,
        named \in SUBSET {i \in Checksums : document[i].status # "none"} :
       Invoke(named, failed, conditional)

\* A record is made of the outcome, and the file is replaced.
Record ==
  /\ invocation.at = "record"
  /\ LET results == [invocation.prior EXCEPT ![Under] = invocation.outcome]
         rest    == Tail(invocation.queue)
     IN /\ recorded' = results
        /\ invocation' = IF rest = << >> THEN NoInvocation
                         ELSE [invocation EXCEPT !.at = "upload", !.queue = rest,
                                                 !.prior = results, !.outcome = "failed"]
  /\ UNCHANGED <<document, retries, mishaps>>
-----------------------------------------------------------------------------
(* _process_one                                                            *)

Returns(outcome) == invocation' = [invocation EXCEPT !.at = "record", !.outcome = outcome]

Moves(status) == document' = [document EXCEPT ![Under].status = status]

\* The source has gone (source_missing) or changed (source_checksum_mismatch):
\* what the options ask of a result does not tell them apart.
SourceMissing ==
  /\ invocation.at = "upload" /\ mishaps < MaxMishaps
  /\ mishaps' = mishaps + 1
  /\ Returns("source_missing")
  /\ UNCHANGED <<document, recorded, retries>>

Upload ==
  LET d == document[Under]
      asked == Under \in invocation.named
  IN /\ invocation.at = "upload"
     /\ CASE d.status = "review_required" /\ ~asked /\ ~invocation.conditional ->
               Returns("existing_review_required") /\ UNCHANGED document
          [] d.status = "indexed" /\ ~asked ->
               Returns("already_indexed") /\ UNCHANGED document
          [] OTHER ->
               /\ invocation' = [invocation EXCEPT !.at = "parse"]
               /\ IF d.status = "none" THEN Moves("uploaded") ELSE UNCHANGED document
     /\ UNCHANGED <<recorded, retries, mishaps>>

\* Whether the document goes on to be chunked.
Judged(canonical) ==
  IF canonical = "none" \/ (canonical = "conditional" /\ ~invocation.provisional)
  THEN Returns("review_required")
  ELSE invocation' = [invocation EXCEPT !.at = "chunk"]

\* parse: a canonical document there is answers for itself; else the parser
\* starts.
Parse ==
  /\ invocation.at = "parse"
  /\ IF Under \notin invocation.named /\ document[Under].canonical # "none"
     THEN Judged(document[Under].canonical) /\ UNCHANGED document
     ELSE Moves("parsing") /\ invocation' = [invocation EXCEPT !.at = "parsing"]
  /\ UNCHANGED <<recorded, retries, mishaps>>

\* What is in need of review keeps its evidence, as a canonical document or as
\* raw output only, beside which an earlier canonical document may remain.
Parsed ==
  /\ invocation.at = "parsing"
  /\ \E c \in Canonicals, s \in {"canonicalized", "review_required", "quality_failed"} :
       /\ s = "canonicalized" <=> c \in {"pass", "empty"}
       /\ s = "quality_failed" => c = "none"
       /\ document' = [document EXCEPT ![Under] =
            [status    |-> s, canonical |-> IF c = "none" THEN @.canonical ELSE c]]
       /\ Judged(c)
  /\ UNCHANGED <<recorded, retries, mishaps>>

\* RetrievalCoordinator.chunk looks at the status first: what is in review is
\* not chunked, a conditional pass that is to be indexed provisionally no more
\* than the rest.  Text without chunks is sent to review.
Chunk ==
  LET d == document[Under]
  IN /\ invocation.at = "chunk"
     /\ CASE d.status \notin {"canonicalized", "chunk_ready", "indexed"} ->
               Returns("failed") /\ UNCHANGED document
          [] OTHER ->
               IF d.canonical = "empty"
               THEN Moves("review_required") /\ Returns("review_required")
               ELSE Moves("chunk_ready") /\ invocation' = [invocation EXCEPT !.at = "embed"]
     /\ UNCHANGED <<recorded, retries, mishaps>>

\* From chunk_ready the registry has no edge to provisionally_indexed.
Embed ==
  /\ invocation.at = "embed"
  /\ IF invocation.provisional
     THEN Returns("failed") /\ UNCHANGED document
     ELSE Moves("indexed") /\ Returns("indexed")
  /\ UNCHANGED <<recorded, retries, mishaps>>

\* DocumentServiceError, RuntimeError and ValueError become an outcome; an
\* error of the parser, not one of the store, is written to the status before.
Caught ==
  /\ invocation.at \in {"upload", "parse", "parsing", "chunk", "embed"}
  /\ mishaps < MaxMishaps
  /\ mishaps' = mishaps + 1
  /\ \/ invocation.at = "parsing" /\ Moves("failed")
     \/ UNCHANGED document
  /\ Returns("failed")
  /\ UNCHANGED <<recorded, retries>>

\* Every other error ends the invocation, as does a crash.
InvocationDies ==
  /\ invocation.at # "idle"
  /\ mishaps < MaxMishaps
  /\ mishaps' = mishaps + 1
  /\ invocation' = NoInvocation
  /\ UNCHANGED <<document, recorded, retries>>

CorpusStep ==
  Record \/ Upload \/ Parse \/ Parsed \/ Chunk \/ Embed

CorpusNext ==
  CorpusStep \/ Repeat \/ Retry \/ SourceMissing \/ Caught \/ InvocationDies
=============================================================================
