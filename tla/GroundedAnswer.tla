--------------------------- MODULE GroundedAnswer ---------------------------
(***************************************************************************)
(* HybridRagService.ask as the steps it really takes: a search in one      *)
(* transaction, the vector of the question from a cache shared by all      *)
(* requests or from the model, a second search, the parents of the hits in *)
(* a third transaction, the draft of the language model, and the audit     *)
(* event that must be stored before anything is answered.  Between any two *)
(* of them the clock ticks and workers rechunk, embed and deactivate the   *)
(* documents the question is about.                                        *)
(***************************************************************************)
EXTENDS Retrieval

CONSTANTS
  Clients,          \* requests that may run at one time
  User,             \* client -> the authorization scope it asks with
  Queries,          \* questions
  Text,             \* question -> what the code makes of it, see Retrieval
  Reads,            \* scope -> documents its row level policies show
  Today,            \* the day of the calls
  Chunkings,        \* document -> the sets of chunks it may be cut into
  Drafts,           \* what the language model may return
  MaxEntries,       \* query_embedding_cache_max_entries
  Ttl,              \* query_embedding_cache_ttl_seconds
  MaxTime, MaxAsks, MaxChanges   \* bounds of the model, not of the code

ASSUME CacheBounds == {MaxEntries, Ttl} \subseteq Nat \ {0}

\* A chunk is found by its words, its vector and its pair with the question.
ASSUME QuestionsAssumption ==
  \A q \in Queries :
    {Text[q].words, Text[q].distance, Text[q].relevance} \subseteq [Chunk -> Int]

\* The cuttings of a version may share chunks: the id of one is made of its
\* place and its text.
ASSUME ChunkingsAssumption ==
  \A d \in DOMAIN Chunkings : Chunkings[d] \subseteq SUBSET {c \in Chunk : Row[c].doc = d}

ASSUME DraftsAssumption ==
  \A draft \in Drafts :
    /\ draft = [cited |-> draft.cited, marks |-> draft.marks,
                quotes |-> draft.quotes, review |-> draft.review]
    /\ draft.review \in BOOLEAN

VARIABLES
  now,              \* the monotonic clock
  active, indexed,  \* chunks that are active, documents whose status is indexed
  cache,            \* the OrderedDict: oldest entry first
  req,              \* client -> the request it has running
  audit, answers,   \* audit events stored, answers delivered
  asks, changes     \* counters of the bounds

asking == <<now, active, indexed, cache, req, audit, answers, asks, changes>>

Docs == DOMAIN Chunkings
ChunksOf(d) == {c \in Chunk : Row[c].doc = d}

Waiting == [phase |-> "idle"]

AskInit ==
  /\ now = 0
  /\ active \in {UNION {cut[d] : d \in Docs} :
                   cut \in {f \in [Docs -> UNION {Chunkings[d] : d \in Docs}] :
                              \A d \in Docs : f[d] \in Chunkings[d]}}
  /\ indexed = Docs
  /\ cache = <<>>
  /\ req = [c \in Clients |-> Waiting]
  /\ audit = {} /\ answers = {}
  /\ asks = 0 /\ changes = 0
-----------------------------------------------------------------------------
(* The rows the statements of one transaction see. *)

Readable(c, chunk, day) ==
  /\ chunk \in active
  /\ Row[chunk].doc \in indexed \cap Reads[User[c]]
  /\ InForce(chunk, day)

Query(c) == Text[req[c].query]
Day(c) == AsOf(Query(c), Today)

Children(c) ==
  {chunk \in Chunk : /\ Readable(c, chunk, Day(c))
                     /\ Row[chunk].parent # None
                     /\ Query(c).only = {} \/ Row[chunk].doc \in Query(c).only}

\* What a read without chunk.active and record.status would return.
MutantParents(c) ==
  {chunk \in Chunk : Row[chunk].doc \in Reads[User[c]] /\ InForce(chunk, Day(c))
                     /\ Row[chunk].parent = None}

Parents(c) == {chunk \in Chunk : Readable(c, chunk, Day(c)) /\ Row[chunk].parent = None}
-----------------------------------------------------------------------------
Goto(c, r) == req' = [req EXCEPT ![c] = r]

Ask(c, q, lexicalOnly) ==
  /\ req[c].phase = "idle" /\ asks < MaxAsks
  /\ asks' = asks + 1
  /\ Goto(c, [phase |-> "lexical", query |-> q, lexicalOnly |-> lexicalOnly])
  /\ UNCHANGED <<now, active, indexed, cache, audit, answers, changes>>

\* An empty result is searched for once more with the same words: in a
\* transaction of its own, which may find what was indexed meanwhile.
SearchLexical(c) ==
  /\ req[c].phase \in {"lexical", "lexical again"}
  /\ LET hits == LexicalSearch(Query(c), Children(c))
         r    == [phase |-> IF req[c].lexicalOnly THEN "context" ELSE "vector",
                  query |-> req[c].query, lexicalOnly |-> req[c].lexicalOnly,
                  lexical |-> hits, dense |-> <<>>]
     IN IF hits = <<>> /\ req[c].phase = "lexical"
        THEN Goto(c, [req[c] EXCEPT !.phase = "lexical again"])
        ELSE Goto(c, r)
  /\ UNCHANGED <<now, active, indexed, cache, audit, answers, asks, changes>>

\* The key holds the normalized question and the whole scope of the caller.
Key(c) == <<req[c].query, User[c]>>

MutantFresh(entry, at) == entry.expires >= at

Fresh(entry, at) == entry.expires > at

\* Where the cache has the key, and the cache once that entry is popped.
Found(key) == {i \in DOMAIN cache : cache[i].key = key}
Without(key) ==
  IF Found(key) = {} THEN cache ELSE RemoveAt(cache, CHOOSE i \in Found(key) : TRUE)

\* The clock is read before the lock of the cache is taken.
ReadClock(c) ==
  /\ req[c].phase = "vector"
  /\ Goto(c, [phase |-> "lookup", query |-> req[c].query, lexical |-> req[c].lexical,
              at |-> now])
  /\ UNCHANGED <<now, active, indexed, cache, audit, answers, asks, changes>>

LookUp(c) ==
  /\ req[c].phase = "lookup"
  /\ \/ \E i \in Found(Key(c)) :
          /\ Fresh(cache[i], req[c].at)
          /\ cache' = Append(Without(Key(c)), cache[i])
          /\ Goto(c, [phase |-> "dense", query |-> req[c].query, lexical |-> req[c].lexical,
                      from |-> cache[i].made, at |-> req[c].at])
     \/ /\ \A i \in Found(Key(c)) : ~Fresh(cache[i], req[c].at)
        /\ cache' = Without(Key(c))
        /\ Goto(c, [phase |-> "embed", query |-> req[c].query, lexical |-> req[c].lexical,
                    at |-> req[c].at])
  /\ UNCHANGED <<now, active, indexed, audit, answers, asks, changes>>

\* The model answers outside the lock; another request may have stored the
\* same key meanwhile.  The expiry counts from the moment the clock was read.
Store(c) ==
  /\ req[c].phase = "embed"
  /\ LET made  == [query |-> req[c].query, scope |-> User[c], at |-> req[c].at]
         all   == Append(Without(Key(c)),
                         [key |-> Key(c), expires |-> req[c].at + Ttl, made |-> made])
         extra == Len(all) - MaxEntries
     IN /\ cache' = IF extra > 0 THEN SubSeq(all, extra + 1, Len(all)) ELSE all
        /\ Goto(c, [phase |-> "dense", query |-> req[c].query, lexical |-> req[c].lexical,
                    from |-> made, at |-> req[c].at])
  /\ UNCHANGED <<now, active, indexed, audit, answers, asks, changes>>

SearchDense(c) ==
  /\ req[c].phase = "dense"
  /\ Goto(c, [phase |-> "context", query |-> req[c].query, lexicalOnly |-> FALSE,
              lexical |-> req[c].lexical, dense |-> DenseSearch(Query(c), Children(c))])
  /\ UNCHANGED <<now, active, indexed, cache, audit, answers, asks, changes>>

Evidence(c) == Candidates(Query(c), req[c].lexicalOnly, req[c].lexical, req[c].dense)

\* Without candidates no parents are read.
ReadParents(c) ==
  /\ req[c].phase = "context"
  /\ LET context == BuildContext(Evidence(c), Parents(c))
     IN Goto(c, IF context = <<>>
                THEN [phase |-> "audit", query |-> req[c].query, context |-> <<>>, cited |-> {}]
                ELSE [phase |-> "generate", query |-> req[c].query, context |-> context,
                      evidence |-> Evidence(c), parents |-> Parents(c)])
  /\ UNCHANGED <<now, active, indexed, cache, audit, answers, asks, changes>>

\* A draft that fails its validation, or that asks for review, becomes the
\* refusal; so does every error of the model or of the call.
Generate(c) ==
  /\ req[c].phase = "generate"
  /\ \E draft \in Drafts \cup {CompactDraft} :
       LET sent == Generated(draft, Query(c), req[c].context)
       IN Goto(c, [phase |-> "audit", query |-> req[c].query, context |-> req[c].context,
                   cited |-> IF sent.review THEN {} ELSE sent.cited])
  /\ UNCHANGED <<now, active, indexed, cache, audit, answers, asks, changes>>

Audited(c) ==
  [user |-> User[c], query |-> req[c].query,
   chunks |-> {e.chunk : e \in ToSet(req[c].context)},
   result |-> IF req[c].cited = {} THEN "REVIEW_REQUIRED" ELSE "ALLOWED"]

\* The event commits before the answer is returned.
Answer(c) ==
  /\ req[c].phase = "audit"
  /\ audit' = audit \cup {Audited(c)}
  /\ answers' = answers \cup
       {[user |-> User[c], query |-> req[c].query,
         sources |-> {req[c].context[s].chunk : s \in req[c].cited}]}
  /\ Goto(c, Waiting)
  /\ UNCHANGED <<now, active, indexed, cache, asks, changes>>

\* An error of the database, of the embedding model or of the reranker
\* reaches the caller as an exception: no answer, no audit event.
Fail(c) ==
  /\ req[c].phase \notin {"idle", "generate"}
  /\ Goto(c, Waiting)
  /\ UNCHANGED <<now, active, indexed, cache, audit, answers, asks, changes>>
-----------------------------------------------------------------------------
(* The workers that maintain the corpus (DocumentPipeline). *)

Tick ==
  /\ now < MaxTime
  /\ now' = now + 1
  /\ UNCHANGED <<active, indexed, cache, req, audit, answers, asks, changes>>

Change ==
  /\ changes < MaxChanges
  /\ changes' = changes + 1
  /\ UNCHANGED <<now, cache, req, audit, answers, asks>>

Rechunk(d) ==
  /\ Change
  /\ \E cut \in Chunkings[d] : active' = (active \ ChunksOf(d)) \cup cut
  /\ indexed' = indexed \ {d}

Embed(d) ==
  /\ Change
  /\ d \notin indexed /\ active \cap ChunksOf(d) # {}
  /\ indexed' = indexed \cup {d} /\ UNCHANGED active

Deactivate(d) ==
  /\ Change
  /\ active' = active \ ChunksOf(d)
  /\ indexed' = indexed \ {d}

AskNext ==
  \/ Tick
  \/ \E d \in Docs : Rechunk(d) \/ Embed(d) \/ Deactivate(d)
  \/ \E c \in Clients :
       \/ \E q \in Queries, lexicalOnly \in BOOLEAN : Ask(c, q, lexicalOnly)
       \/ SearchLexical(c) \/ ReadClock(c) \/ LookUp(c) \/ Store(c) \/ SearchDense(c)
       \/ ReadParents(c) \/ Generate(c) \/ Answer(c) \/ Fail(c)

AskSpec == AskInit /\ [][AskNext]_asking
-----------------------------------------------------------------------------
(* Whatever was replaced while a request ran, the parents its sources come *)
(* from are of one cutting of each document, and a source is its parent or *)
(* a hit cut from it; all are readable for the caller, in force on the day *)
(* of the question and of the documents it is about; and an answer that    *)
(* cites sources was audited with the context they come from.              *)
AnswersGrounded ==
  /\ \A c \in Clients : req[c].phase \in {"generate", "audit"} =>
       LET used == ToSet(req[c].context)
       IN /\ \A d \in Docs : \E cut \in Chunkings[d] :
               {e.parent : e \in used} \cap ChunksOf(d) \subseteq cut
          /\ \A e \in used :
               /\ e.chunk \in {e.parent, e.child} /\ Row[e.child].parent = e.parent
               /\ \A chunk \in {e.parent, e.child} :
                    /\ Row[chunk].doc \in Reads[User[c]]
                    /\ InForce(chunk, Day(c))
                    /\ Query(c).only = {} \/ Row[chunk].doc \in Query(c).only
          /\ req[c].phase = "audit" => req[c].cited \subseteq DOMAIN req[c].context
  /\ \A a \in answers : \E e \in audit :
       /\ e.user = a.user /\ e.query = a.query /\ a.sources \subseteq e.chunks
       /\ e.result = "ALLOWED" <=> a.sources # {}

(* The cache never grows past its bound, holds one entry per key, and the  *)
(* vector a request searches with was made for the same question in the    *)
(* same scope and, by the clock the request read before it had the lock,   *)
(* was younger than the time to live: entries made while it waited too.    *)
CacheHonest ==
  /\ Len(cache) <= MaxEntries
  /\ \A i, j \in DOMAIN cache : cache[i].key = cache[j].key => i = j
  /\ \A c \in Clients : req[c].phase = "dense" =>
       LET v == req[c].from IN
         /\ v.query = req[c].query /\ v.scope = User[c]
         /\ req[c].at - v.at < Ttl

(* No evidence is lost or put behind worse, however the fusion, the        *)
(* reranker, the translations and the two bounds of the context play       *)
(* together: what precedes other evidence in both searches is not fused    *)
(* behind it; no text speaks in two translations; the context holds each   *)
(* parent once, within its bounds and in the order of the evidence, and    *)
(* leaves a candidate out only when its parent cannot be read any more or  *)
(* is there already, or when behind what candidates before it brought the  *)
(* context is full or neither the parent nor the hit itself would fit.     *)
BestEvidence ==
  /\ \A c \in Clients : req[c].phase = "context" =>
       LET f == Fused(req[c].lexical, req[c].dense)
           NoWorse(r, s) == s = None \/ (r # None /\ r <= s)
       IN \A i, j \in DOMAIN f :
            NoWorse(f[i].lexical, f[j].lexical) /\ NoWorse(f[i].dense, f[j].dense) => i <= j
  /\ \A c \in Clients : req[c].phase = "generate" =>
       LET e   == req[c].evidence
           ctx == req[c].context
           Earlier(i, k) == \E j \in 1..(i - 1) : e[j].id = ctx[k].child
       IN /\ \A i, j \in DOMAIN e :
               i # j => Row[e[i].id].group = None \/ Row[e[i].id].group # Row[e[j].id].group
          /\ TokensOf(ctx) <= MaxTokens /\ Len(ctx) <= MaxChunks
          /\ \A i, j \in DOMAIN ctx : ctx[i].parent = ctx[j].parent => i = j
          /\ \A i \in DOMAIN e :
               LET parent == Row[e[i].id].parent
               IN \/ parent \notin req[c].parents
                  \/ \E x \in ToSet(ctx) : x.parent = parent
                  \/ \E n \in 0..Len(ctx) :
                       LET room == MaxTokens - TokensOf(SubSeq(ctx, 1, n))
                       IN /\ \A k \in DOMAIN ctx : k <= n <=> Earlier(i, k)
                          /\ \/ n = MaxChunks
                             \/ Row[parent].tokens > room /\ Row[e[i].id].tokens > room

(* "Keep an exact definition hit ahead of title/index matches": asked what *)
(* a term is, the evidence follows the rank of the words.                  *)
DefinitionAhead ==
  \A c \in Clients : req[c].phase = "generate" /\ Query(c).definition =>
    LET e == req[c].evidence
    IN \A i, j \in DOMAIN e : e[i].lexical # None /\ e[j].lexical = None => i < j
=============================================================================
