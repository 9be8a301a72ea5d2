------------------------------ MODULE Retrieval ------------------------------
(***************************************************************************)
(* How a question becomes a list of evidence: the two searches, their      *)
(* fusion by reciprocal rank, the reranker, the order of definitions, the  *)
(* choice between translations, and the parents that fit into the context. *)
(*                                                                         *)
(* Texts and vectors are replaced by what the code computes from them: a   *)
(* question carries, for each chunk, how well the words and the vector of  *)
(* the chunk match it and what the cross-encoder makes of the pair.        *)
(***************************************************************************)
EXTENDS Ordering, SequencesExt

CONSTANTS
  Row,              \* chunk id -> [parent, doc, group, native, from, to, tokens, lang]
  None,             \* no parent, no translation group, no rank, no score
  RrfK,             \* rrf_k
  LexicalTop,       \* lexical_top_k
  DenseTop,         \* dense_top_k
  RerankInput,      \* rerank_input_top_k
  RerankOutput,     \* rerank_output_top_k
  MinScore,         \* retrieval_min_score, or None
  MaxChunks,        \* final_context_max_chunks
  MaxTokens         \* final_context_max_tokens

Chunk == DOMAIN Row

\* The bounds of the settings; ids are numbered in the order of the chunk_id.
ASSUME RetrievalBounds ==
  /\ IsFiniteSet(Chunk) /\ Chunk \subseteq Nat /\ None \notin Int
  /\ \A c \in Chunk : Row[c].tokens \in Nat
  /\ {RrfK, LexicalTop, DenseTop, RerankInput, RerankOutput, MaxChunks, MaxTokens}
       \subseteq Nat \ {0}
  /\ RerankOutput <= RerankInput /\ MaxChunks <= RerankOutput

\* parent_chunk_id: a child and its parent are cut from one document.
ASSUME ParentsExist ==
  \A c \in Chunk : Row[c].parent # None =>
    Row[c].parent \in Chunk /\ Row[Row[c].parent].doc = Row[c].doc
-----------------------------------------------------------------------------
\* The distinct dates of the text, the ISO ones before the others wherever
\* they stand; a repeated date keeps its first place.
Dates(q) ==
  FoldLeft(LAMBDA seen, d : IF d \in ToSet(seen) THEN seen ELSE Append(seen, d),
           <<>>, q.iso \o q.dmy)

AsOf(q, today) == IF Dates(q) = <<>> THEN today ELSE Last(Dates(q))

InForce(c, day) == Row[c].from <= day /\ (Row[c].to = None \/ Row[c].to > day)

LexicalSearch(q, visible) ==
  Top(Ranked({c \in visible : q.words[c] > 0},
             LAMBDA c, d : Smaller(<<-q.words[c], c>>, <<-q.words[d], d>>)),
      LexicalTop)

DenseSearch(q, visible) ==
  Top(Ranked(visible, LAMBDA c, d : Smaller(<<q.distance[c], c>>, <<q.distance[d], d>>)),
      DenseTop)
-----------------------------------------------------------------------------
RankIn(seq, c) ==
  IF \E i \in DOMAIN seq : seq[i] = c THEN CHOOSE i \in DOMAIN seq : seq[i] = c ELSE None

\* 1 / (k + rank) as a whole number of one common denominator.  A score is
\* the sum of at most two of them, which floats add in either order alike.
Denominator ==
  LET product[n \in 0..(LexicalTop + DenseTop)] == IF n = 0 THEN 1 ELSE product[n - 1] * (RrfK + n)
  IN product[IF LexicalTop > DenseTop THEN LexicalTop ELSE DenseTop]

Share(rank) == IF rank = None THEN 0 ELSE Denominator \div (RrfK + rank)

Fused(lexical, dense) ==
  LET hits == {[id |-> c, lexical |-> RankIn(lexical, c), dense |-> RankIn(dense, c),
                rrf |-> Share(RankIn(lexical, c)) + Share(RankIn(dense, c)), rerank |-> None] :
                 c \in ToSet(lexical) \cup ToSet(dense)}
  IN Top(Ranked(hits, LAMBDA x, y : Smaller(<<-x.rrf, x.id>>, <<-y.rrf, y.id>>)), RerankInput)

Score(x) == IF x.rerank # None THEN x.rerank ELSE x.rrf

InScoreOrder(S) ==
  Ranked(S, LAMBDA x, y : Smaller(<<-Score(x), -x.rrf, x.id>>, <<-Score(y), -y.rrf, y.id>>))

Reranked(q, fused) ==
  Top(InScoreOrder({[x EXCEPT !.rerank = q.relevance[x.id]] :
                      x \in ToSet(Top(fused, RerankInput))}),
      RerankOutput)

\* A question "what is <term>" is searched as "<term> defined".
DefinitionFirst(q, seq) ==
  IF ~q.definition THEN seq
  ELSE LET LexicalRank(x) == IF x.lexical = None THEN 1000000000 ELSE x.lexical
           Key(i) == <<LexicalRank(seq[i]), -Score(seq[i]), i>>
       IN [i \in DOMAIN seq |->
             seq[Ranked(DOMAIN seq, LAMBDA m, n : Smaller(Key(m), Key(n)))[i]]]

MutantDeduplicated(seq) == InScoreOrder(ToSet(seq))

\* Of the translations of one text the authoritative one speaks, then the
\* better scored, then the earlier; what is left is sorted by score again.
Deduplicated(seq) ==
  LET Preference(i) == <<IF Row[seq[i].id].native THEN 1 ELSE 0, Score(seq[i])>>
      group(i) == Row[seq[i].id].group
      Beats(i, j) == /\ group(i) = group(j)
                     /\ \/ Smaller(Preference(j), Preference(i))
                        \/ Preference(i) = Preference(j) /\ i < j
  IN InScoreOrder({seq[j] : j \in {n \in DOMAIN seq :
                     group(n) = None \/ \A i \in DOMAIN seq : ~Beats(i, n)}})

\* What is left of a list in the order of scores is in that order.
WellScored(seq) ==
  IF MinScore = None THEN seq
  ELSE InScoreOrder({x \in ToSet(seq) : x.rerank # None /\ x.rerank >= MinScore})

\* What the context is built from.  lexical_only asks no model.
Candidates(q, lexicalOnly, lexical, dense) ==
  LET fused == Fused(lexical, dense)
      best  == IF lexicalOnly THEN Top(fused, RerankOutput) ELSE Reranked(q, fused)
  IN WellScored(Deduplicated(DefinitionFirst(q, best)))
-----------------------------------------------------------------------------
TokensOf(context) ==
  LET sum[n \in 0..Len(context)] ==
        IF n = 0 THEN 0 ELSE sum[n - 1] + Row[context[n].chunk].tokens
  IN sum[Len(context)]

\* A hit brings its parent, or itself where the parent is too long for what
\* is left of the budget.
Brings(x, room) == IF Row[Row[x.id].parent].tokens <= room THEN Row[x.id].parent ELSE x.id

Taken(context, x, parents) ==
  LET parent == Row[x.id].parent
      room   == MaxTokens - TokensOf(context)
      source == Brings(x, room)
  IN IF \/ Len(context) = MaxChunks
        \/ parent \notin parents
        \/ \E e \in ToSet(context) : e.parent = parent
        \/ Row[source].tokens > room
     THEN context
     ELSE Append(context, [chunk |-> source, parent |-> parent, child |-> x.id])

\* One pass over the candidates.
BuildContext(candidates, parents) ==
  LET built[n \in 0..Len(candidates)] ==
        IF n = 0 THEN <<>> ELSE Taken(built[n - 1], candidates[n], parents)
  IN built[Len(candidates)]
-----------------------------------------------------------------------------
(* What a model may return, and what the code lets through.  A draft is    *)
(* [cited, marks, quotes, review]: ids are positions of the context, known *)
(* or not, quotes maps ids to "exact", "short" (and exact), "near"         *)
(* (four words in a row are the source's) or "free".                      *)

\* Markers are added for every declared citation that lacks one, never removed.
Marked(draft) == [draft EXCEPT !.marks = draft.marks \cup draft.cited]

\* A near quote becomes the source's excerpt; a free one becomes the start
\* of the supporting text when the source's language is not the answer's.
Repaired(draft, q, context) ==
  LET Mends(s, quote) ==
        /\ s \in DOMAIN context
        /\ \/ quote = "near"
           \/ /\ quote = "free" /\ Row[context[s].chunk].lang # q.lang
              /\ context[s].chunk = context[s].parent
  IN [draft EXCEPT !.quotes = [s \in DOMAIN draft.quotes |->
        IF Mends(s, draft.quotes[s]) THEN "exact" ELSE draft.quotes[s]]]

\* validate_draft: a draft that asks for review is not looked at.
ValidDraft(draft, context) ==
  \/ draft.review
  \/ /\ draft.cited # {} /\ draft.cited \subseteq DOMAIN context
     /\ draft.marks = draft.cited
     /\ DOMAIN draft.quotes = draft.cited
     /\ \A s \in draft.cited : draft.quotes[s] = "exact"

\* With a small llm_max_output_tokens the model sees the first evidence only
\* and the code cites it, quoting the start of the hit.
CompactDraft == [cited |-> {1}, marks |-> {1}, quotes |-> <<"exact">>, review |-> FALSE]

\* What a call of the local model ends with; an error is a draft for review.
Generated(draft, q, context) ==
  LET sent == Repaired(Marked(draft), q, context)
  IN IF ValidDraft(sent, context) THEN sent ELSE [sent EXCEPT !.review = TRUE]
=============================================================================
