----------------------------- MODULE Extraction -----------------------------
(***************************************************************************)
(* One run of the ParsingEngine over one PDF: the verifier, then the       *)
(* adapters of the chain in turn, each with its retries, until an output   *)
(* passes the quality gate; and what the chunker then makes of it.  An     *)
(* adapter may be disabled or not installed, fail for good, fail for now,  *)
(* or report the PDF whole or with a flaw.                                 *)
(***************************************************************************)
EXTENDS Chunking

CONSTANTS
  Chains,      \* adapters in order: the default one, and those of evaluations
  MaxRetries,  \* pdf_max_retries
  Pdfs,        \* the PDFs to choose from
  Flaws,       \* how a report of an extractor may differ from the PDF
  FailedStatus \* final status without an accepted output

ASSUME EngineBounds ==
  /\ Chains \subseteq Seq(Parsers) \ {<<>>}
  /\ MaxRetries \in 0..2

\* What a reader sees on a page; a heading has its level, 1 to 6.
PageElement ==
  [kind : STRING, level : {None} \cup 1..6, text : Seq(DOMAIN Marks),
   grid : Seq(Seq(BOOLEAN))]

ASSUME PdfsAssumption ==
  Pdfs \subseteq [pages : Seq(Seq(PageElement)), scanned : BOOLEAN]

VARIABLES
  pdf,     \* the file
  chain,   \* the adapters of this engine
  seen,    \* VerificationEvidence, or NoVerification
  stage,   \* what the run does next
  index,   \* the adapter in use
  attempt, \* the attempt of that adapter
  outputs, \* raw outputs, each with the issues the gate found
  result   \* status, canonical document and chunks

vars == <<pdf, chain, seen, stage, index, attempt, outputs, result>>

NoResult == [status |-> "none", canonical |-> <<>>, issues |-> {}, cut |-> NoChunks]

Init ==
  /\ pdf \in Pdfs
  /\ chain \in Chains
  /\ seen = NoVerification
  /\ stage = "verify"
  /\ index = 1 /\ attempt = 1
  /\ outputs = <<>>
  /\ result = NoResult

\* PyMuPDF or pdfplumber may be missing or fail.
Verify ==
  /\ stage = "verify"
  /\ seen' \in {Verified(pdf), NoVerification}
  /\ stage' = "parse"
  /\ UNCHANGED <<pdf, chain, index, attempt, outputs, result>>

NextAdapter ==
  IF index < Len(chain)
  THEN /\ index' = index + 1 /\ attempt' = 1
       /\ UNCHANGED <<stage, result>>
  ELSE /\ stage' = "done"
       /\ result' = [NoResult EXCEPT !.status = FailedStatus]
       /\ UNCHANGED <<index, attempt>>

\* ParserUnavailable, or a ParserError that no retry helps.
GiveUp ==
  /\ stage = "parse"
  /\ NextAdapter
  /\ UNCHANGED <<pdf, chain, seen, outputs>>

TransientError ==
  /\ stage = "parse"
  /\ chain[index] # "pymupdf"
  /\ IF attempt <= MaxRetries
     THEN attempt' = attempt + 1 /\ UNCHANGED <<stage, index, result>>
     ELSE NextAdapter
  /\ UNCHANGED <<pdf, chain, seen, outputs>>

\* An output is kept whether it passes or not; the first that passes ends
\* the run and is cut into chunks.
Parse(flaw) ==
  /\ stage = "parse"
  /\ Applicable(pdf, flaw)
  /\ LET output == Parsed(chain[index], pdf, flaw)
         issues == Issues(output, seen)
     IN  /\ outputs' = Append(outputs, [output |-> output, issues |-> issues])
         /\ IF Passed(issues)
            THEN /\ result' = [status |-> IF ReviewRequired(issues)
                                          THEN "review_required" ELSE "canonicalized",
                               canonical |-> Canonical(output), issues |-> issues,
                               cut |-> Chunk(Canonical(output), issues)]
                 /\ stage' = "done"
                 /\ UNCHANGED <<index, attempt>>
            ELSE NextAdapter
  /\ UNCHANGED <<pdf, chain, seen>>

Done == stage = "done" /\ UNCHANGED vars

Next == Verify \/ GiveUp \/ TransientError \/ (\E f \in Flaws : Parse(f)) \/ Done

Spec == Init /\ [][Next]_vars
-----------------------------------------------------------------------------
(* Properties.                                                             *)

Children ==
  Having(result.cut.chunks, LAMBDA c : c.kind = "child")

\* A part of a block that was split, longer than the limit all the same: its
\* tokens were counted before they were decoded.
Grown(unit) ==
  /\ Count(UnitText(unit)) > Maximum
  /\ Len(unit.blocks) = 1 /\ unit.kind \notin {"table", "formula"}
  /\ Count(FlattenSeq(unit.path) \o unit.blocks[1].text) > Maximum

\* The limits that _build_chunk's callers assert: no chunk is too long for
\* the embedding model; and _group_units refuses a document for nothing but
\* a part that has grown in decoding, whatever headings, overlaps and
\* provisos do to the counts.
WithinLimits ==
  /\ result.cut.answer = "torn" =>
       \E u \in ToSet(SemanticUnits(result.canonical).units) : Grown(u)
  /\ \A i \in DOMAIN result.cut.chunks :
       Count(result.cut.chunks[i].text)
         <= (IF result.cut.chunks[i].kind = "child" THEN Maximum ELSE ParentMaximum)

Body ==
  Having(FlattenSeq(result.canonical),
         LAMBDA b : b.kind # "heading" /\ b.text # <<>>)

Headings == Having(FlattenSeq(result.canonical), LAMBDA b : b.kind = "heading")

\* A word that splitting its block may lose: decoding does not give it back,
\* or it has more tokens than one window shares with the next and one more.
MayBeLost(unit, block, t) ==
  /\ t \in ToSet(block.text)
  /\ Count(FlattenSeq(unit.path) \o block.text) > Maximum
  /\ ~ /\ Pieces[t] \in 1..(WindowOverlap(unit.path) + 1)
       /\ Decoded[t][<<1, Pieces[t]>>] = <<t>>

\* What the verifier has read on the pages and the gate compares, numbers
\* and formulas, can be found: through parser, gate, windows, overlaps and
\* groups each of these words reaches a chunk that is embedded, or stood in
\* a heading alone, or in a block that was split and is of those it may
\* lose.  (A heading over no text is in no chunk.)
EvidenceReachesTheIndex ==
  result.cut.answer = "chunked" =>
    \A mark \in {"number", "formula"} :
      \A t \in ToSet(Marked(seen.text, mark)) :
        \/ \E i \in DOMAIN Children : t \in ToSet(Children[i].text)
        \/ /\ t \in ToSet(TextOf(Headings))
           /\ t \notin ToSet(TextOf(Body))
        \/ \E u \in ToSet(SemanticUnits(result.canonical).units) :
             \E b \in ToSet(u.blocks) : MayBeLost(u, b, t)

\* A child that cites a proviso cites the block before it as well: a proviso
\* is never found without what it qualifies.
ProvisoStaysAttached ==
  \A i \in 2..Len(Body) : OpensWithProviso(Body[i].text) =>
    \A c \in DOMAIN Children :
      Body[i] \in Children[c].blocks => Body[i - 1] \in Children[c].blocks
=============================================================================
