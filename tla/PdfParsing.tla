----------------------------- MODULE PdfParsing -----------------------------
(***************************************************************************)
(* What the adapters make of a PDF and what the quality gate says of it.   *)
(*                                                                         *)
(* A PDF is a sequence of pages, a page a sequence of elements as a reader *)
(* sees them.  Text is a sequence of tokens; a token carries the marks the *)
(* regular expressions of the gate find in it.  The extractors are         *)
(* external: Report gives what they may report of a PDF, whole or with one *)
(* of the flaws the gate is there for, and the adapters translate that     *)
(* into blocks.                                                            *)
(***************************************************************************)
EXTENDS Integers, FiniteSets, SequencesExt

CONSTANTS
  Marks,        \* token -> the marks found in it
  BlankPercent, \* pdf_max_unexpected_blank_page_ratio, in percent
  OcrPercent    \* ocr_confidence_review_threshold, in percent

None == -1

MarkNames ==
  {"number", "clause", "formula", "devanagari", "replacement", "injection", "proviso",
   "nul"}

ASSUME ParsingBounds ==
  /\ Marks \in [DOMAIN Marks -> SUBSET MarkNames]
  /\ \A t \in DOMAIN Marks : /\ "proviso" \in Marks[t] => "clause" \in Marks[t]
                             /\ "nul" \in Marks[t] => Marks[t] = {"nul"}
  /\ BlankPercent \in 0..100 /\ OcrPercent \in 0..100

\* What stands at the places S, in the order of the sequence.
Only(seq, S) ==
  LET kept[n \in 0..Len(seq)] ==
        IF n = 0 THEN <<>>
        ELSE IF n \in S THEN Append(kept[n - 1], seq[n]) ELSE kept[n - 1]
  IN  kept[Len(seq)]

\* SelectSeq, in terms a proof can follow.
Having(seq, Test(_)) == Only(seq, {i \in DOMAIN seq : Test(seq[i])})

Marked(text, mark) == Having(text, LAMBDA t : mark \in Marks[t])
-----------------------------------------------------------------------------
(* What the extractors report.                                             *)

\* An element on a page: its grid tells which cells of a table candidate are
\* filled; a large font makes PyMuPDF take it for a heading.
Nodes(pdf) ==
  FlattenSeq([p \in DOMAIN pdf.pages |->
    [i \in DOMAIN pdf.pages[p] |->
       [kind |-> pdf.pages[p][i].kind, level |-> pdf.pages[p][i].level,
        text |-> pdf.pages[p][i].text, page |-> p, boxed |-> TRUE,
        sized |-> pdf.pages[p][i].kind = "table", score |-> None, kids |-> <<>>]]])

Flawed(nodes, flaw) ==
  LET last == Len(nodes)
  IN  CASE flaw = "lost"      -> Front(nodes)
        [] flaw = "unboxed"   -> [nodes EXCEPT ![1].boxed = FALSE]
        [] flaw = "misplaced" -> [nodes EXCEPT ![last].page = @ + 1]
        [] flaw = "flat"      -> [i \in DOMAIN nodes |->
                                    [nodes[i] EXCEPT !.level = None, !.sized = FALSE]]
        [] flaw = "blurred"   -> [i \in DOMAIN nodes |->
                                    [nodes[i] EXCEPT !.score = OcrPercent - (i % 2)]]
        [] flaw = "nested"    ->
             <<[nodes[1] EXCEPT !.kind = "other", !.text = <<>>,
                                !.kids = SubSeq(nodes, 1, 2)]>>
               \o SubSeq(nodes, 3, last)
        [] OTHER -> nodes

Report(pdf, flaw) == [count |-> Len(pdf.pages), nodes |-> Flawed(Nodes(pdf), flaw)]

\* Flaws that change a report of this PDF.
Applicable(pdf, flaw) ==
  LET size == Len(FlattenSeq(pdf.pages))
  IN  /\ flaw # "whole" => size > 0
      /\ flaw = "nested" => size > 1
-----------------------------------------------------------------------------
(* The adapters.                                                           *)

Block(id, node, kind, text) ==
  [id |-> id, kind |-> kind, text |-> text, page |-> node.page, boxed |-> node.boxed,
   level |-> IF kind = "heading" THEN node.level ELSE None,
   sized |-> kind = "table" /\ node.sized, score |-> node.score]

\* Pages 1..count, each with the blocks of its number: a block of another
\* page falls out.  The blocks of a page keep their order, which is their
\* reading order.
Output(parser, count, blocks) ==
  [parser |-> parser, count |-> count,
   pages |-> [p \in 1..count |-> Having(blocks, LAMBDA b : b.page = p)]]

\* Every node of the tree is visited, the children of a node after it.
Walk(nodes) == FlattenSeq([i \in DOMAIN nodes |-> <<nodes[i]>> \o nodes[i].kids])

\* A node without text of its own has the text of its children.
NodeText(node) ==
  IF node.text # <<>> THEN node.text
  ELSE FlattenSeq([i \in DOMAIN node.kids |-> node.kids[i].text])

OpenDataLoader(report) ==
  LET read == Having(Walk(report.nodes),
                     LAMBDA n : NodeText(n) # <<>> \/ n.kind \in {"image", "table"})
  IN  Output("opendataloader", report.count,
             [i \in DOMAIN read |-> Block(i, read[i], read[i].kind, NodeText(read[i]))])

\* Docling reports texts and tables apart; the tables come last.
Docling(report) ==
  LET nodes == Walk(report.nodes)
      texts == Having(nodes, LAMBDA n : n.kind # "table" /\ NodeText(n) # <<>>)
      read == texts \o Having(nodes, LAMBDA n : n.kind = "table")
      reach == {report.count} \cup {read[i].page : i \in DOMAIN read}
  IN  Output("docling", CHOOSE n \in reach : \A m \in reach : m <= n,
             [i \in DOMAIN read |-> Block(i, read[i], read[i].kind, NodeText(read[i]))])

\* PyMuPDF sees digital text only, knows headings by their size alone and
\* makes no tables.
PyMuPDF(pdf) ==
  LET nodes == IF pdf.scanned THEN <<>>
               ELSE Having(Report(pdf, "whole").nodes, LAMBDA n : n.text # <<>>)
      kind(n) == IF n.kind = "heading" THEN "heading" ELSE "paragraph"
  IN  Output("pymupdf", Len(pdf.pages),
             [i \in DOMAIN nodes |->
                Block(i, [nodes[i] EXCEPT !.level = 1], kind(nodes[i]), nodes[i].text)])

\* PaddleOCR reads lines from the image of each page, with a confidence.
PaddleOCR(report) ==
  LET read == Having(report.nodes, LAMBDA n : n.text # <<>> /\ n.page <= report.count)
  IN  Output("paddleocr", report.count,
             [i \in DOMAIN read |->
                Block(i, [read[i] EXCEPT !.score = IF @ = None THEN 100 ELSE @],
                      "paragraph", read[i].text)])

Parsers == {"opendataloader", "docling", "pymupdf", "paddleocr"}

Parsed(parser, pdf, flaw) ==
  CASE parser = "opendataloader" -> OpenDataLoader(Report(pdf, flaw))
    [] parser = "docling" -> Docling(Report(pdf, flaw))
    [] parser = "pymupdf" -> PyMuPDF(pdf)
    [] parser = "paddleocr" -> PaddleOCR(Report(pdf, flaw))

\* The canonical document: the same blocks, without NUL characters.
Canonical(output) ==
  [p \in DOMAIN output.pages |->
     [i \in DOMAIN output.pages[p] |->
        [output.pages[p][i] EXCEPT !.text = Having(@, LAMBDA t : "nul" \notin Marks[t])]]]
-----------------------------------------------------------------------------
(* The independent verifier.                                               *)

BlocksOf(output) == FlattenSeq(output.pages)

TextOf(blocks) == FlattenSeq([i \in DOMAIN blocks |-> blocks[i].text])

\* A table candidate of pdfplumber counts when it is dense: two columns and
\* two rows with two filled cells each, and six cells of ten filled.
StructuredTable(grid) ==
  LET rows == DOMAIN grid
      width == IF grid = <<>> THEN 0 ELSE Len(grid[1])
      filled(cells) == Cardinality({c \in cells : grid[c[1]][c[2]]})
  IN  /\ Cardinality(rows) >= 2 /\ width >= 2
      /\ 10 * filled(rows \X (1..width)) >= 6 * Cardinality(rows) * width
      /\ Cardinality({c \in 1..width : filled(rows \X {c}) >= 2}) >= 2
      /\ Cardinality({r \in rows : filled({r} \X (1..width)) >= 2}) >= 2

Verified(pdf) ==
  [count |-> Len(pdf.pages), text |-> TextOf(BlocksOf(PyMuPDF(pdf))),
   tables |-> IF pdf.scanned THEN 0
              ELSE Len(Having(FlattenSeq(pdf.pages),
                              LAMBDA e : StructuredTable(e.grid)))]

NoVerification == [count |-> None, text |-> <<>>, tables |-> 0]
-----------------------------------------------------------------------------
(* The quality gate.                                                       *)

Severity(code) ==
  CASE code \in {"VERIFICATION_UNAVAILABLE", "PROMPT_INJECTION_INDICATOR"} -> "warning"
    [] code \in {"UNEXPECTED_BLANK_PAGES", "INVALID_TABLE_STRUCTURE",
                 "TABLE_COUNT_MISMATCH", "HEADING_HIERARCHY_INVALID",
                 "LOW_OCR_CONFIDENCE"} -> "error"
    [] OTHER -> "critical"

BlankPages(output) ==
  Cardinality({p \in DOMAIN output.pages : TextOf(output.pages[p]) = <<>>})

Tables(blocks) == Having(blocks, LAMBDA b : b.kind = "table")

\* A level is missing, or deeper by more than one than the one before it.
HierarchyError(headings) ==
  \E i \in DOMAIN headings :
    \/ headings[i].level = None
    \/ i > 1 /\ headings[i - 1].level # None
             /\ headings[i].level > headings[i - 1].level + 1

Scores(blocks) == Having([i \in DOMAIN blocks |-> blocks[i].score],
                         LAMBDA s : s # None)

LowConfidence(blocks) ==
  FoldLeft(LAMBDA sum, s : sum + s, 0, Scores(blocks))
    < OcrPercent * Len(Scores(blocks))

Missing(seen, text, mark) ==
  ToSet(Marked(seen, mark)) \ ToSet(Marked(text, mark)) # {}

\* The parsers build one page per number, so that neither the number of the
\* pages nor their order nor the reading order can be wrong here.
Issues(output, seen) ==
  LET blocks == BlocksOf(output)
      text == TextOf(blocks)
      verified == seen # NoVerification
      Raised(code) ==
        CASE code = "NO_PAGES" -> output.count = 0
          [] code = "VERIFIED_PAGE_COUNT_MISMATCH" -> verified /\ seen.count # output.count
          [] code = "UNEXPECTED_BLANK_PAGES" ->
               \/ output.count = 0
               \/ 100 * BlankPages(output) > BlankPercent * output.count
          [] code = "MISSING_CITATION_BBOX" ->
               blocks = <<>> \/ \E i \in DOMAIN blocks : ~blocks[i].boxed
          [] code = "INVALID_TABLE_STRUCTURE" ->
               \E i \in DOMAIN blocks : blocks[i].kind = "table" /\ ~blocks[i].sized
          [] code = "TABLE_COUNT_MISMATCH" ->
               seen.tables > 0 /\ seen.tables # Len(Tables(blocks))
          [] code = "HEADING_HIERARCHY_INVALID" ->
               HierarchyError(Having(blocks, LAMBDA b : b.kind = "heading"))
          [] code = "VERIFICATION_UNAVAILABLE" -> ~verified
          [] code = "NUMERIC_TOKEN_MISMATCH" -> Missing(seen.text, text, "number")
          [] code = "CLAUSE_BOUNDARY_MISMATCH" ->
               Len(Marked(seen.text, "clause")) > Len(Marked(text, "clause"))
          [] code = "FORMULA_SYMBOL_MISMATCH" -> Missing(seen.text, text, "formula")
          [] code = "LOW_OCR_CONFIDENCE" -> LowConfidence(blocks)
          [] code = "DEVANAGARI_INTEGRITY_FAILURE" ->
               Marked(text, "devanagari") # <<>> /\ Marked(text, "replacement") # <<>>
          [] code = "PROMPT_INJECTION_INDICATOR" -> Marked(text, "injection") # <<>>
  IN  {code \in {"NO_PAGES", "VERIFIED_PAGE_COUNT_MISMATCH", "UNEXPECTED_BLANK_PAGES",
                 "MISSING_CITATION_BBOX", "INVALID_TABLE_STRUCTURE",
                 "TABLE_COUNT_MISMATCH", "HEADING_HIERARCHY_INVALID",
                 "VERIFICATION_UNAVAILABLE", "NUMERIC_TOKEN_MISMATCH",
                 "CLAUSE_BOUNDARY_MISMATCH", "FORMULA_SYMBOL_MISMATCH",
                 "LOW_OCR_CONFIDENCE", "DEVANAGARI_INTEGRITY_FAILURE",
                 "PROMPT_INJECTION_INDICATOR"} : Raised(code)}

Passed(issues) == \A code \in issues : Severity(code) = "warning"

ReviewRequired(issues) ==
  \E code \in issues :
    \/ Severity(code) = "critical"
    \/ code \in {"LOW_OCR_CONFIDENCE", "PROMPT_INJECTION_INDICATOR"}

Decision(issues) ==
  IF ~Passed(issues) THEN "HARD_FAIL" ELSE IF issues # {} THEN "CONDITIONAL_PASS" ELSE "PASS"
=============================================================================
