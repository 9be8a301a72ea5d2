------------------------------ MODULE Chunking ------------------------------
(***************************************************************************)
(* How StructureAwareChunker cuts a canonical document: into units that    *)
(* must not be torn, the units into parents, the units of a parent into    *)
(* overlapping children.  Text is a sequence of words.  The tokenizer of   *)
(* the embedding model is external: each word is some tokens to it, none   *)
(* of which reaches into the next word, and it adds two special tokens     *)
(* whenever it counts.  It cuts between tokens, not between words, and     *)
(* what it decodes a cut to may be another text with another count.        *)
(***************************************************************************)
EXTENDS PdfParsing

CONSTANTS
  Target,      \* chunk_target_tokens
  Maximum,     \* chunk_max_tokens
  Overlap,     \* chunk_overlap_tokens
  ParentMaximum, \* parent_chunk_max_tokens
  Provisional, \* provisional indexing, with the evidence mode to match
  Pieces,      \* word -> the number of its tokens
  Decoded      \* word -> <<a, b>> -> the words its tokens a to b are decoded to

ASSUME ChunkingBounds ==
  /\ {Overlap, Target, Maximum, ParentMaximum} \subseteq Nat /\ Provisional \in BOOLEAN
  /\ Overlap < Target /\ Target <= Maximum /\ Maximum <= ParentMaximum

\* A word may be lost in decoding (an unknown token is), or another one may
\* come out (it is normalised).
ASSUME TokenizerBounds ==
  /\ Pieces \in [DOMAIN Marks -> Nat]
  /\ \A t \in DOMAIN Marks : \A a, b \in 1..Pieces[t] :
       Decoded[t][<<a, b>>] \in Seq(DOMAIN Marks)

\* How many tokens the first n words are.
Tokens(text) ==
  LET upto[n \in 0..Len(text)] == IF n = 0 THEN 0 ELSE upto[n - 1] + Pieces[text[n]]
  IN  upto

Count(text) == Tokens(text)[Len(text)] + 2

Least(a, b) == IF a < b THEN a ELSE b

\* What is left of the i-th word in the tokens start + 1 to start + maximum.
Left(text, i, start, maximum) ==
  LET before == Tokens(text)[i - 1]
      from == IF start > before THEN start - before + 1 ELSE 1
      to == Least(Pieces[text[i]], start + maximum - before)
  IN  IF from <= to THEN Decoded[text[i]][<<from, to>>] ELSE <<>>

\* The text of windows of at most maximum tokens, each starting maximum -
\* overlap after the one before it, while there is a token to start at.
Windows(text, maximum, step) ==
  [n \in 1..((Tokens(text)[Len(text)] - 1) \div step + 1) |->
     FlattenSeq([i \in DOMAIN text |-> Left(text, i, (n - 1) * step, maximum)])]

\* Mutant: the windows have one token less in common.
MutantSplit(text, maximum, overlap) == Windows(text, maximum, maximum - overlap + 1)

Split(text, maximum, overlap) == Windows(text, maximum, maximum - overlap)

UnitText(unit) == FlattenSeq(unit.path) \o unit.text

GroupText(units) ==
  IF units = <<>> THEN <<>>
  ELSE FlattenSeq(units[1].path) \o FlattenSeq([i \in DOMAIN units |-> units[i].text])
-----------------------------------------------------------------------------
\* What the headings leave of the limit, and of the overlap.
Available(path) == Maximum - Count(FlattenSeq(path))

WindowOverlap(path) ==
  Least(Overlap, IF Available(path) > 1 THEN Available(path) - 1 ELSE 0)

\* A unit that is too long is split, unless it is a table, a formula or a
\* clause with its provisos, or its headings leave no room: <<>>.  The parts
\* are not counted again here.
Fit(unit) ==
  LET parts == Split(unit.text, Available(unit.path), WindowOverlap(unit.path))
      whole == unit.kind \in {"table", "formula"} \/ Len(unit.blocks) > 1
  IN  IF Count(UnitText(unit)) <= Maximum THEN <<unit>>
      ELSE IF whole \/ Available(unit.path) <= 0 THEN <<>>
      ELSE [i \in DOMAIN parts |-> [unit EXCEPT !.text = parts[i]]]

OpensWithProviso(text) == "proviso" \in Marks[text[1]]

\* Mutant: a proviso stays with its clause on one page only.
MutantJoins(units, block) ==
  /\ units # <<>>
  /\ OpensWithProviso(block.text)
  /\ Last(Last(units).blocks).page = block.page

\* A proviso is joined to the unit before it.
Joins(units, block) == units # <<>> /\ OpensWithProviso(block.text)

Under(path, block) ==
  LET level == IF block.level = None THEN 1 ELSE block.level
  IN  Append(SubSeq(path, 1, Least(level - 1, Len(path))), block.text)

WithUnit(state, block) ==
  LET joined == Joins(state.units, block)
      prior == Last(state.units)
      unit == IF joined
              THEN [prior EXCEPT !.text = @ \o block.text,
                                 !.blocks = Append(@, block)]
              ELSE [text |-> block.text, kind |-> block.kind, path |-> state.path,
                    blocks |-> <<block>>]
      fitted == Fit(unit)
  IN  [state EXCEPT
         !.units = (IF joined THEN Front(@) ELSE @) \o fitted,
         !.refused = fitted = <<>>]

\* Headings are not units: they go into the path of what follows them.
WithBlock(state, block) ==
  IF state.refused \/ block.text = <<>> THEN state
  ELSE IF block.kind = "heading" THEN [state EXCEPT !.path = Under(@, block)]
  ELSE WithUnit(state, block)

SemanticUnits(canonical) ==
  LET blocks == FlattenSeq(canonical)
      read[n \in 0..Len(blocks)] ==
        IF n = 0 THEN [path |-> <<>>, units |-> <<>>, refused |-> FALSE]
        ELSE WithBlock(read[n - 1], blocks[n])
  IN  read[Len(blocks)]
-----------------------------------------------------------------------------
\* The longest end of a group that fits into the overlap.
OverlapUnits(units, overlap) ==
  LET fits == {n \in 1..Len(units) :
                 \A m \in n..Len(units) :
                   Count(GroupText(SubSeq(units, m, Len(units)))) <= overlap}
  IN  IF overlap = 0 \/ fits = {} THEN <<>>
      ELSE SubSeq(units, CHOOSE n \in fits : \A m \in fits : n <= m, Len(units))

\* Mutant: the overlap is kept even where the new unit does not fit any more.
MutantShortened(units, unit, maximum) == units

\* The overlap loses its first units until the new one fits.
Shortened(units, unit, maximum) ==
  LET fits == {n \in 1..Len(units) :
                 Count(GroupText(SubSeq(units, n, Len(units)) \o <<unit>>)) <= maximum}
  IN  IF fits = {} THEN <<>>
      ELSE SubSeq(units, CHOOSE n \in fits : \A m \in fits : n <= m, Len(units))

\* A group is closed at a new path and at the target.
WithNext(state, unit, maximum, target, overlap) ==
  LET current == state.current
      turned == current # <<>> /\ unit.path # Last(current).path
      full == Count(GroupText(Append(current, unit))) > target
      closed == current # <<>> /\ (turned \/ full)
      kept == IF ~closed THEN current ELSE IF turned THEN <<>>
              ELSE Shortened(OverlapUnits(current, overlap), unit, maximum)
  IN  [groups |-> IF closed THEN Append(state.groups, current) ELSE state.groups,
       current |-> Append(kept, unit),
       refused |-> state.refused
                     \/ Count(GroupText(Append(kept, unit))) > maximum]

Grouped(units, maximum, target, overlap) ==
  LET state[n \in 0..Len(units)] ==
        IF n = 0 THEN [groups |-> <<>>, current |-> <<>>, refused |-> FALSE]
        ELSE WithNext(state[n - 1], units[n], maximum, target, overlap)
  IN  state[Len(units)]

\* The group that is open at the end is closed.
Closed(last) ==
  [groups |-> IF last.current = <<>> THEN last.groups
              ELSE Append(last.groups, last.current),
   refused |-> last.refused]

GroupUnits(units, maximum, target, overlap) ==
  Closed(Grouped(units, maximum, target, overlap))

BuildChunk(kind, units, parent) ==
  [kind |-> kind, parent |-> parent, text |-> GroupText(units),
   blocks |-> UNION {ToSet(units[i].blocks) : i \in DOMAIN units}]

\* The chunker takes what passed the gate without a call for review, and
\* doubtful documents where provisional evidence is enabled.
Accepts(issues) ==
  /\ Passed(issues)
  /\ ReviewRequired(issues) =>
       Decision(issues) = "CONDITIONAL_PASS" /\ Provisional

NoChunks == [answer |-> "none", chunks |-> <<>>]

\* "review" stands for ChunkingReviewRequired, "torn" for the one that
\* _group_units raises, after the units were made.
Chunk(canonical, issues) ==
  LET read == SemanticUnits(canonical)
      parents == GroupUnits(read.units, ParentMaximum, ParentMaximum, 0)
      children == [p \in DOMAIN parents.groups |->
                     GroupUnits(parents.groups[p], Maximum, Target, Overlap)]
      chunks == FlattenSeq([p \in DOMAIN children |->
                  <<BuildChunk("parent", parents.groups[p], p)>>
                    \o [c \in DOMAIN children[p].groups |->
                          BuildChunk("child", children[p].groups[c], p)]])
  IN  IF ~Accepts(issues) \/ read.refused \/ read.units = <<>> THEN
        [NoChunks EXCEPT !.answer = "review"]
      ELSE IF parents.refused \/ \E p \in DOMAIN children : children[p].refused THEN
        [NoChunks EXCEPT !.answer = "torn"]
      ELSE [answer |-> "chunked", chunks |-> chunks]
=============================================================================
