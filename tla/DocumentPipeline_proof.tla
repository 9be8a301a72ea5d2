----------------------- MODULE DocumentPipeline_proof -----------------------
(***************************************************************************)
(* Proofs about DocumentPipeline, for any workers, files, texts and        *)
(* bounds.  The inductive invariant is Inductive; its parts about the      *)
(* registry are disturbed by uploads only, its parts about chunk rows by   *)
(* the four steps that write rows.  The last part is about one worker.     *)
(***************************************************************************)
EXTENDS DocumentPipeline, TLAPS

-----------------------------------------------------------------------------
(* Types.                                                                  *)

\* The idle record is a record of the type of the commands.
LEMMA NoWorkTyped == NoWork \in Work
  BY ConstantsAssumption DEF NoWork, Work, Phases, Statuses, Stages, Keep

\* transition_status never moves a document to "parsed" and leaves it there.
LEMMA MoveTyped ==
  ASSUME NEW s \in Statuses \ {"parsed"}
  PROVE  MoveTo(s) \in (Statuses \ {"parsed"}) \cup {Keep}
  BY DEF MoveTo

LEMMA FinalStopTyped ==
  ASSUME NEW t
  PROVE  FinalStop(t) \in Statuses \ {"parsed"}
  BY ConstantsAssumption DEF FinalStop, FirstStop, Statuses

LEMMA MovedTyped ==
  ASSUME TypeOK, CommandsWellFormed, NEW w \in Workers
  PROVE  Moved(w) \in Statuses \ {"parsed"}
  BY DEF TypeOK, CommandsWellFormed, WellFormed, Moved, Work

\* A step that gives a worker a record of the right type and shape.
LEMMA RecordStep ==
  ASSUME TypeOK, CommandsWellFormed, NEW w \in Workers,
         NEW r \in Work, WellFormed(r), Become(w, r), chunks \subseteq chunks'
  PROVE  /\ work' \in [Workers -> Work]
         /\ CommandsWellFormed'
<1>1. work' = [work EXCEPT ![w] = r] /\ work \in [Workers -> Work]
  BY DEF Become, TypeOK
<1>2. work' \in [Workers -> Work]
  BY <1>1
<1>3. ASSUME NEW u \in Workers PROVE WellFormed(work[u])'
  <2>1. WellFormed(work[u]) /\ (work'[u] = work[u] \/ work'[u] = r)
    BY <1>1 DEF CommandsWellFormed
  <2>2. CASE work'[u] = work[u]
    BY <2>1, <2>2 DEF WellFormed, Work
  <2>3. CASE work'[u] = r
    BY <2>3 DEF WellFormed, Work
  <2> QED BY <2>1, <2>2, <2>3
<1> QED BY <1>2, <1>3 DEF CommandsWellFormed

\* A worker that ends its command.
LEMMA DoneStep ==
  ASSUME TypeOK, CommandsWellFormed, NEW w \in Workers,
         Done(w), chunks \subseteq chunks'
  PROVE  /\ work' \in [Workers -> Work]
         /\ CommandsWellFormed'
<1>1. WellFormed(NoWork)
  BY DEF WellFormed, NoWork, Keep
<1> QED BY <1>1, NoWorkTyped, RecordStep DEF Done

\* Opening a parse, a chunking, an embedding, a deactivation or an upload.
LEMMA CommandTyped ==
  ASSUME TypeOK, CommandsWellFormed, RegisteredVersions, NEW w \in Workers, Command(w)
  PROVE  TypeOK' /\ CommandsWellFormed'
<1> USE DEF registry, index
<1>1. ASSUME NEW force \in BOOLEAN, ParseOpen(w, force)
      PROVE  TypeOK' /\ CommandsWellFormed'
  <2> DEFINE r == [NoWork EXCEPT !.phase = "parse_mark", !.move = MoveTo("parsing")]
  <2>1. MoveTo("parsing") \in (Statuses \ {"parsed"}) \cup {Keep}
    BY <1>1, MoveTyped DEF Statuses
  <2>2. r \in Work
    BY <2>1, NoWorkTyped DEF Work, Phases, Stages, Keep
  <2>3. WellFormed(r)
    BY <2>1 DEF WellFormed, NoWork, Keep
  <2>4. Become(w, r) /\ UNCHANGED chunks
    BY <1>1 DEF ParseOpen
  <2>5. work' \in [Workers -> Work] /\ CommandsWellFormed'
    <3> HIDE DEF r
    <3> QED BY <2>2, <2>3, <2>4, RecordStep
  <2> QED BY <1>1, <2>5 DEF ParseOpen, TypeOK
<1>2. ASSUME ChunkOpen(w)
      PROVE  TypeOK' /\ CommandsWellFormed'
  <2> DEFINE r == [NoWork EXCEPT
       !.phase = "chunk_start", !.seen = status, !.version = current,
       !.source = artifacts[current].source, !.text = artifacts[current].text]
  <2>1. /\ status \in Statuses /\ current \in 0..MaxVersions
       /\ artifacts[current].source \in Numbers
       /\ artifacts[current].source \in 0..MaxVersions
       /\ artifacts[current].text \in Texts
    BY <1>2, ConstantsAssumption DEF ChunkOpen, Artifact, Numbers, TypeOK
  <2>2. r \in Work
    BY <2>1, NoWorkTyped DEF Work, Phases, Stages, Keep
  <2>3. WellFormed(r)
    BY <2>1 DEF WellFormed, NoWork, Keep
  <2>4. Become(w, r) /\ UNCHANGED chunks
    BY <1>2 DEF ChunkOpen
  <2>5. work' \in [Workers -> Work] /\ CommandsWellFormed'
    <3> HIDE DEF r
    <3> QED BY <2>2, <2>3, <2>4, RecordStep
  <2> QED BY <1>2, <2>5 DEF ChunkOpen, TypeOK
<1>3. ASSUME ChunkRefuse(w)
      PROVE  TypeOK' /\ CommandsWellFormed'
  <2> DEFINE r == [NoWork EXCEPT !.phase = "move", !.move = MoveTo("review_required")]
  <2>1. MoveTo("review_required") \in (Statuses \ {"parsed"}) \cup {Keep}
    BY <1>3, MoveTyped DEF Statuses
  <2>2. r \in Work
    BY <2>1, NoWorkTyped DEF Work, Phases, Stages, Keep
  <2>3. WellFormed(r)
    BY <2>1 DEF WellFormed, NoWork, Keep
  <2>4. Become(w, r) /\ UNCHANGED chunks
    BY <1>3 DEF ChunkRefuse
  <2>5. work' \in [Workers -> Work] /\ CommandsWellFormed'
    <3> HIDE DEF r
    <3> QED BY <2>2, <2>3, <2>4, RecordStep
  <2> QED BY <1>3, <2>5 DEF ChunkRefuse, TypeOK
<1>4. ASSUME EmbedOpen(w)
      PROVE  TypeOK' /\ CommandsWellFormed'
  <2> DEFINE r == [NoWork EXCEPT
       !.phase = "embed_start", !.seen = status, !.version = current,
       !.stage = "embed", !.rows = Pending]
  <2>1. /\ status \in Statuses /\ current \in 0..MaxVersions
       /\ Pending \subseteq Row /\ Pending \subseteq chunks
    BY <1>4, ConstantsAssumption DEF Pending, Numbers, TypeOK
  <2>2. r \in Work
    BY <2>1, NoWorkTyped DEF Work, Phases, Stages, Keep
  <2>3. WellFormed(r)
    BY <2>1 DEF WellFormed, NoWork, Keep
  <2>4. Become(w, r) /\ UNCHANGED chunks
    BY <1>4 DEF EmbedOpen
  <2>5. work' \in [Workers -> Work] /\ CommandsWellFormed'
    <3> HIDE DEF r
    <3> QED BY <2>2, <2>3, <2>4, RecordStep
  <2> QED BY <1>4, <2>5 DEF EmbedOpen, TypeOK
<1>5. ASSUME DeactivateOpen(w)
      PROVE  TypeOK' /\ CommandsWellFormed'
  <2> DEFINE r == [NoWork EXCEPT !.phase = "deactivate_write", !.rows = active]
  <2>1. active \subseteq Row
    BY <1>5, ConstantsAssumption DEF Numbers, TypeOK
  <2>2. r \in Work
    BY <2>1, NoWorkTyped DEF Work, Phases, Stages, Keep
  <2>3. WellFormed(r)
    BY <2>1 DEF WellFormed, NoWork, Keep
  <2>4. Become(w, r) /\ UNCHANGED chunks
    BY <1>5 DEF DeactivateOpen
  <2>5. work' \in [Workers -> Work] /\ CommandsWellFormed'
    <3> HIDE DEF r
    <3> QED BY <2>2, <2>3, <2>4, RecordStep
  <2> QED BY <1>5, <2>5 DEF DeactivateOpen, TypeOK
<1>6. ASSUME NEW c \in Contents, UploadOpen(w, c)
      PROVE  TypeOK' /\ CommandsWellFormed'
  <2> DEFINE r == [NoWork EXCEPT !.phase = "upload_save", !.content = c,
                       !.version = Len(versions) + 1]
  <2>1. Len(versions) + 1 \in Numbers /\ Len(versions) + 1 \in 0..MaxVersions
    BY <1>6, ConstantsAssumption DEF UploadOpen, Numbers, TypeOK
  <2>2. r \in Work
    BY <2>1, NoWorkTyped DEF Work, Phases, Stages, Keep
  <2>3. WellFormed(r)
    BY <2>1 DEF WellFormed, NoWork, Keep
  <2>4. Become(w, r) /\ UNCHANGED chunks
    BY <1>6 DEF UploadOpen
  <2>5. work' \in [Workers -> Work] /\ CommandsWellFormed'
    <3> HIDE DEF r
    <3> QED BY <2>2, <2>3, <2>4, RecordStep
  <2> QED BY <1>6, <2>5, <2>1 DEF UploadOpen, TypeOK
<1> QED BY <1>1, <1>2, <1>3, <1>4, <1>5, <1>6 DEF Command

\* The record of a parse that has an outcome.
LEMMA ClosedTyped ==
  ASSUME NEW k \in Work, k.source \in Numbers, NEW t \in Texts \cup {NoText},
         NEW v \in 0..MaxVersions, NEW n \in BOOLEAN, n => t \in Texts,
         NEW m \in (Statuses \ {"parsed"}) \cup {Keep}
  PROVE  LET r == [k EXCEPT !.phase = "parse_save", !.text = t, !.at = v,
                            !.new = n, !.move = m]
         IN  r \in Work /\ WellFormed(r)
<1> DEFINE r == [k EXCEPT !.phase = "parse_save", !.text = t, !.at = v,
                          !.new = n, !.move = m]
<1>1. r \in Work
  BY DEF Work, Phases
<1>2. /\ r.phase = "parse_save" /\ r.text = t /\ r.new = n /\ r.move = m
     /\ r.source = k.source
  BY DEF Work
<1>3. WellFormed(r)
  <2> HIDE DEF r
  <2> QED BY <1>2 DEF WellFormed, Keep
<1> QED BY <1>1, <1>3

\* The steps that follow within a command, and the ways it is cut short.
LEMMA StepTyped ==
  ASSUME TypeOK, CommandsWellFormed, RegisteredVersions, NEW w \in Workers,
         Step(w) \/ Mishap(w)
  PROVE  TypeOK' /\ CommandsWellFormed'
<1> USE DEF registry, index
<1>w. work[w] \in Work /\ WellFormed(work[w])
  BY DEF TypeOK, CommandsWellFormed
<1>m. Moved(w) \in Statuses \ {"parsed"}
  BY MovedTyped
<1>1. ASSUME ParseMark(w)
      PROVE  TypeOK' /\ CommandsWellFormed'
  <2> DEFINE r == [NoWork EXCEPT !.phase = "parse_run", !.source = current]
  <2>1. current \in Numbers /\ current \in 0..MaxVersions
    BY <1>1, ConstantsAssumption DEF Numbers, TypeOK
  <2>2. r \in Work
    BY <2>1, NoWorkTyped DEF Work, Phases, Stages, Keep
  <2>3. WellFormed(r)
    BY <2>1 DEF WellFormed, NoWork, Keep
  <2>4. Become(w, r) /\ UNCHANGED chunks
    BY <1>1 DEF ParseMark
  <2>5. work' \in [Workers -> Work] /\ CommandsWellFormed'
    <3> HIDE DEF r
    <3> QED BY <2>2, <2>3, <2>4, RecordStep
  <2> QED BY <1>1, <2>5, <1>m DEF ParseMark, TypeOK
<1>2. ASSUME NEW t \in Texts \cup {NoText}, ParseClose(w, t)
      PROVE  TypeOK' /\ CommandsWellFormed'
  <2> DEFINE r == [work[w] EXCEPT
       !.phase = "parse_save", !.text = t, !.at = current,
       !.new = t \in Texts /\ t # Latest(raws[current]),
       !.move = IF status = FirstStop(t) THEN Keep ELSE FinalStop(t)]
  <2>1. /\ current \in 0..MaxVersions /\ FinalStop(t) \in Statuses \ {"parsed"}
       /\ work[w].source \in Numbers
    BY <1>2, <1>w, FinalStopTyped, ConstantsAssumption DEF ParseClose, WellFormed, Numbers, TypeOK
  <2>m. (IF status = FirstStop(t) THEN Keep ELSE FinalStop(t))
          \in (Statuses \ {"parsed"}) \cup {Keep}
    BY <2>1
  <2>n. (t \in Texts /\ t # Latest(raws[current])) \in BOOLEAN
    OBVIOUS
  <2>2. r \in Work
    BY <2>1, <2>m, <2>n, <1>w, ClosedTyped
  <2>3. WellFormed(r)
    BY <2>1, <2>m, <2>n, <1>w, ClosedTyped
  <2>4. Become(w, r) /\ UNCHANGED chunks
    BY <1>2 DEF ParseClose
  <2>5. work' \in [Workers -> Work] /\ CommandsWellFormed'
    <3> HIDE DEF r
    <3> QED BY <2>2, <2>3, <2>4, RecordStep
  <2> QED BY <1>2, <2>5 DEF ParseClose, TypeOK
<1>3. ASSUME ParseRefused(w)
      PROVE  TypeOK' /\ CommandsWellFormed'
  <2>1. Done(w) /\ chunks \subseteq chunks'
    BY <1>3 DEF ParseRefused
  <2>2. work' \in [Workers -> Work] /\ CommandsWellFormed'
    BY <2>1, DoneStep
  <2> QED BY <1>3, <2>2, <1>m, <1>w, ConstantsAssumption DEF ParseRefused, TypeOK, WellFormed
<1>4. ASSUME ParseSave(w)
      PROVE  TypeOK' /\ CommandsWellFormed'
  <2>1. Done(w) /\ chunks \subseteq chunks'
    BY <1>4 DEF ParseSave
  <2>2. work' \in [Workers -> Work] /\ CommandsWellFormed'
    BY <2>1, DoneStep
  <2>3. raws' \in [Numbers -> Seq(Texts)]
    <3>1. CASE raws' = raws
      BY <3>1 DEF TypeOK
    <3>2. CASE work[w].new /\ raws' = [raws EXCEPT ![work[w].at] = Append(@, work[w].text)]
      <4>1. work[w].text \in Texts
        BY <1>4, <1>w, <3>2 DEF ParseSave, WellFormed
      <4>2. ASSUME work[w].at \in Numbers
            PROVE  Append(raws[work[w].at], work[w].text) \in Seq(Texts)
        BY <4>1, <4>2 DEF TypeOK
      <4> QED BY <3>2, <4>2 DEF TypeOK
    <3> QED BY <1>4, <3>1, <3>2 DEF ParseSave
  <2>4. artifacts' \in [Numbers -> Artifact \cup {NoArtifact}]
    <3>1. CASE artifacts' = artifacts
      BY <3>1 DEF TypeOK
    <3>2. CASE /\ FirstStop(work[w].text) = "parsed"
               /\ artifacts' = [artifacts EXCEPT ![current] =
                    [source |-> work[w].source, text |-> work[w].text]]
      <4>1. work[w].text \in Texts
        BY <3>2, ConstantsAssumption DEF FirstStop
      <4>2. [source |-> work[w].source, text |-> work[w].text] \in Artifact
        BY <1>4, <1>w, <4>1 DEF ParseSave, WellFormed, Artifact
      <4> QED BY <3>2, <4>2 DEF TypeOK
    <3> QED BY <1>4, <3>1, <3>2 DEF ParseSave
  <2>5. status' \in Statuses \ {"parsed"}
    BY <1>4, <1>m DEF ParseSave, TypeOK
  <2> QED BY <1>4, <2>2, <2>3, <2>4, <2>5 DEF ParseSave, TypeOK
<1>5. ASSUME Move(w)
      PROVE  TypeOK' /\ CommandsWellFormed'
  <2>1. Done(w) /\ chunks \subseteq chunks'
    BY <1>5 DEF Move
  <2>2. work' \in [Workers -> Work] /\ CommandsWellFormed'
    BY <2>1, DoneStep
  <2> QED BY <1>5, <2>2, <1>m, <1>w, ConstantsAssumption DEF Move, TypeOK, WellFormed
<1>6. ASSUME ChunkSave(w)
      PROVE  TypeOK' /\ CommandsWellFormed'
  <2>1. Done(w) /\ chunks \subseteq chunks'
    BY <1>6 DEF ChunkSave
  <2>2. work' \in [Workers -> Work] /\ CommandsWellFormed'
    BY <2>1, DoneStep
  <2>3. Fresh(w) \subseteq Row
    BY <1>6, <1>w, ConstantsAssumption DEF ChunkSave, WellFormed, Fresh, RowsOf, Row
  <2>4. /\ chunks' \subseteq Row /\ active' \subseteq chunks'
       /\ embedded' \subseteq chunks'
    BY <1>6, <2>3 DEF ChunkSave, TypeOK
  <2>5. checkpoints' \in [Numbers \X Stages -> {"none", "running", "complete", "failed"}]
    BY <1>6 DEF ChunkSave, TypeOK
  <2> QED BY <1>6, <2>2, <2>4, <2>5, <1>m DEF ChunkSave, TypeOK
<1>7. ASSUME FailCheckpoint(w)
      PROVE  TypeOK' /\ CommandsWellFormed'
  <2>1. Done(w) /\ chunks \subseteq chunks'
    BY <1>7 DEF FailCheckpoint
  <2>2. work' \in [Workers -> Work] /\ CommandsWellFormed'
    BY <2>1, DoneStep
  <2> QED BY <1>7, <2>2, <1>m, <1>w, ConstantsAssumption DEF FailCheckpoint, TypeOK, WellFormed
<1>8. ASSUME EmbedSave(w)
      PROVE  TypeOK' /\ CommandsWellFormed'
  <2>1. Done(w) /\ chunks \subseteq chunks'
    BY <1>8 DEF EmbedSave
  <2>2. work' \in [Workers -> Work] /\ CommandsWellFormed'
    BY <2>1, DoneStep
  <2> QED BY <1>8, <2>2, <1>m, <1>w, ConstantsAssumption DEF EmbedSave, TypeOK, WellFormed
<1>9. ASSUME DeactivateSave(w)
      PROVE  TypeOK' /\ CommandsWellFormed'
  <2>1. Done(w) /\ chunks \subseteq chunks'
    BY <1>9 DEF DeactivateSave
  <2>2. work' \in [Workers -> Work] /\ CommandsWellFormed'
    BY <2>1, DoneStep
  <2> QED BY <1>9, <2>2, <1>m, <1>w, ConstantsAssumption DEF DeactivateSave, TypeOK, WellFormed
<1>10. ASSUME UploadSave(w)
      PROVE  TypeOK' /\ CommandsWellFormed'
  <2>1. Done(w) /\ chunks \subseteq chunks'
    BY <1>10 DEF UploadSave
  <2>2. work' \in [Workers -> Work] /\ CommandsWellFormed'
    BY <2>1, DoneStep
  <2>3. /\ versions' \in Seq(Contents) /\ Len(versions') \in Numbers
       /\ current' \in Numbers
    <3>1. CASE UNCHANGED <<versions, current>>
      BY <3>1 DEF TypeOK
    <3>2. CASE /\ ~UploadClash(w)
               /\ versions' = Append(versions, work[w].content)
               /\ current' = work[w].version
      <4>1. /\ work[w].version = Len(versions) + 1
           /\ work[w].version \in Numbers /\ work[w].content \in Contents
        BY <1>10, <1>w, <3>2 DEF UploadSave, UploadClash, WellFormed, Work
      <4>2. versions' \in Seq(Contents) /\ Len(versions') = Len(versions) + 1
        BY <3>2, <4>1 DEF TypeOK
      <4> QED BY <3>2, <4>1, <4>2
    <3> QED BY <1>10, <3>1, <3>2 DEF UploadSave
  <2>4. status' \in Statuses \ {"parsed"}
    BY <1>10 DEF UploadSave, TypeOK, Statuses
  <2> QED BY <1>10, <2>2, <2>3, <2>4 DEF UploadSave, TypeOK
<1>11. ASSUME Crash(w)
      PROVE  TypeOK' /\ CommandsWellFormed'
  <2>1. Done(w) /\ chunks \subseteq chunks'
    BY <1>11 DEF Crash
  <2>2. work' \in [Workers -> Work] /\ CommandsWellFormed'
    BY <2>1, DoneStep
  <2> QED BY <1>11, <2>2, <1>m, <1>w, ConstantsAssumption DEF Crash, TypeOK, WellFormed
<1>12. ASSUME ChunkStart(w)
      PROVE  TypeOK' /\ CommandsWellFormed'
  <2> DEFINE r == [work[w] EXCEPT !.phase = "chunk_read"]
  <2>1. work[w] \in Work /\ WellFormed(work[w])
    BY <1>w
  <2>2. r \in Work
    BY <2>1, <1>w DEF Work, Phases, Stages, Keep
  <2>3. WellFormed(r)
    BY <1>12, <2>1 DEF ChunkStart, WellFormed, NoWork, Keep
  <2>4. Become(w, r) /\ UNCHANGED chunks
    BY <1>12 DEF ChunkStart
  <2>5. work' \in [Workers -> Work] /\ CommandsWellFormed'
    <3> HIDE DEF r
    <3> QED BY <2>2, <2>3, <2>4, RecordStep
  <2> QED BY <1>12, <2>5 DEF ChunkStart, TypeOK
<1>13. ASSUME ChunkRead(w)
      PROVE  TypeOK' /\ CommandsWellFormed'
  <2> DEFINE r == [work[w] EXCEPT !.phase = "chunk_write",
                             !.rows = Replaceable(work[w].source)]
  <2>1. Replaceable(work[w].source) \subseteq Row
    BY <1>13, ConstantsAssumption DEF Replaceable, TypeOK
  <2>2. r \in Work
    BY <2>1, <1>w DEF Work, Phases, Stages, Keep
  <2>3. WellFormed(r)
    BY <1>13, <1>w DEF ChunkRead, WellFormed, NoWork, Keep
  <2>4. Become(w, r) /\ UNCHANGED chunks
    BY <1>13 DEF ChunkRead
  <2>5. work' \in [Workers -> Work] /\ CommandsWellFormed'
    <3> HIDE DEF r
    <3> QED BY <2>2, <2>3, <2>4, RecordStep
  <2> QED BY <1>13, <2>5 DEF ChunkRead, TypeOK
<1>14. ASSUME EmbedStart(w)
      PROVE  TypeOK' /\ CommandsWellFormed'
  <2> DEFINE r == [work[w] EXCEPT !.phase = "embed_run"]
  <2>1. work[w] \in Work /\ WellFormed(work[w])
    BY <1>w
  <2>2. r \in Work
    BY <2>1, <1>w DEF Work, Phases, Stages, Keep
  <2>3. WellFormed(r)
    BY <1>14, <2>1 DEF EmbedStart, WellFormed, NoWork, Keep
  <2>4. Become(w, r) /\ UNCHANGED chunks
    BY <1>14 DEF EmbedStart
  <2>5. work' \in [Workers -> Work] /\ CommandsWellFormed'
    <3> HIDE DEF r
    <3> QED BY <2>2, <2>3, <2>4, RecordStep
  <2> QED BY <1>14, <2>5 DEF EmbedStart, TypeOK
<1>15. ASSUME ChunkWrite(w)
      PROVE  TypeOK' /\ CommandsWellFormed'
  <2>0. chunks \subseteq chunks'
    BY <1>15 DEF ChunkWrite
  <2>1. MoveTo("chunk_ready") \in (Statuses \ {"parsed"}) \cup {Keep}
    BY MoveTyped DEF Statuses
  <2>2. CASE Become(w, [work[w] EXCEPT !.phase = "fail_checkpoint"])
    <3> DEFINE r == [work[w] EXCEPT !.phase = "fail_checkpoint"]
    <3>1. work[w] \in Work /\ WellFormed(work[w])
      BY <1>w
    <3>2. r \in Work
      BY <3>1, <1>w DEF Work, Phases, Stages, Keep
    <3>3. WellFormed(r)
      BY <3>1 DEF WellFormed, NoWork, Keep
    <3>4. Become(w, r) /\ UNCHANGED chunks
      BY <1>15, <2>2 DEF ChunkWrite
    <3>5. work' \in [Workers -> Work] /\ CommandsWellFormed'
      <4> HIDE DEF r
      <4> QED BY <3>2, <3>3, <3>4, RecordStep
    <3> QED BY <1>15, <2>2, <3>5 DEF ChunkWrite, TypeOK
  <2>3. CASE Become(w, [work[w] EXCEPT !.phase = "chunk_save",
            !.move = IF Rechunked(w) THEN MoveTo("chunk_ready") ELSE Keep])
    <3> DEFINE r == [work[w] EXCEPT !.phase = "chunk_save",
              !.move = IF Rechunked(w) THEN MoveTo("chunk_ready") ELSE Keep]
    <3>1. MoveTo("chunk_ready") \in (Statuses \ {"parsed"}) \cup {Keep}
      BY <2>1
    <3>2. r \in Work
      BY <3>1, <1>w, <2>1 DEF Work, Phases, Stages, Keep
    <3>3. WellFormed(r)
      BY <1>15, <1>w, <3>1 DEF ChunkWrite, WellFormed, NoWork, Keep
    <3>4. Become(w, r) /\ UNCHANGED chunks
      BY <1>15, <2>3 DEF ChunkWrite
    <3>5. work' \in [Workers -> Work] /\ CommandsWellFormed'
      <4> HIDE DEF r
      <4> QED BY <3>2, <3>3, <3>4, RecordStep
    <3> QED BY <1>15, <2>3, <3>5 DEF ChunkWrite, TypeOK
  <2> QED BY <1>15, <2>2, <2>3 DEF ChunkWrite
<1>16. ASSUME EmbedRun(w)
      PROVE  TypeOK' /\ CommandsWellFormed'
  <2>0. chunks \subseteq chunks'
    BY <1>16 DEF EmbedRun
  <2>1. MoveTo(IndexedStatus) \in (Statuses \ {"parsed"}) \cup {Keep}
    BY MoveTyped DEF Statuses, IndexedStatus
  <2>2. CASE Become(w, [work[w] EXCEPT !.phase = "fail_checkpoint"])
    <3> DEFINE r == [work[w] EXCEPT !.phase = "fail_checkpoint"]
    <3>1. work[w] \in Work /\ WellFormed(work[w])
      BY <1>w
    <3>2. r \in Work
      BY <3>1, <1>w DEF Work, Phases, Stages, Keep
    <3>3. WellFormed(r)
      BY <3>1 DEF WellFormed, NoWork, Keep
    <3>4. Become(w, r) /\ UNCHANGED chunks
      BY <1>16, <2>2 DEF EmbedRun
    <3>5. work' \in [Workers -> Work] /\ CommandsWellFormed'
      <4> HIDE DEF r
      <4> QED BY <3>2, <3>3, <3>4, RecordStep
    <3> QED BY <1>16, <2>2, <3>5 DEF EmbedRun, TypeOK
  <2>3. CASE Become(w, [work[w] EXCEPT !.phase = "embed_save",
            !.move = IF work[w].seen = "chunk_ready"
                     THEN MoveTo(IndexedStatus) ELSE Keep])
    <3> DEFINE r == [work[w] EXCEPT !.phase = "embed_save",
              !.move = IF work[w].seen = "chunk_ready"
                       THEN MoveTo(IndexedStatus) ELSE Keep]
    <3>1. MoveTo(IndexedStatus) \in (Statuses \ {"parsed"}) \cup {Keep}
      BY <2>1
    <3>2. r \in Work
      BY <3>1, <1>w, <2>1 DEF Work, Phases, Stages, Keep
    <3>3. WellFormed(r)
      BY <1>16, <1>w, <3>1 DEF EmbedRun, WellFormed, NoWork, Keep
    <3>4. Become(w, r) /\ UNCHANGED chunks
      BY <1>16, <2>3 DEF EmbedRun
    <3>5. work' \in [Workers -> Work] /\ CommandsWellFormed'
      <4> HIDE DEF r
      <4> QED BY <3>2, <3>3, <3>4, RecordStep
    <3> QED BY <1>16, <2>3, <3>5 DEF EmbedRun, TypeOK
  <2> QED BY <1>16, <2>2, <2>3 DEF EmbedRun
<1>17. ASSUME DeactivateWrite(w)
      PROVE  TypeOK' /\ CommandsWellFormed'
  <2>0. chunks \subseteq chunks'
    BY <1>17 DEF DeactivateWrite
  <2>1. MoveTo("deactivated") \in (Statuses \ {"parsed"}) \cup {Keep}
    BY MoveTyped DEF Statuses
  <2>2. CASE Done(w)
    <3>1. work' \in [Workers -> Work] /\ CommandsWellFormed'
      BY <2>0, <2>2, DoneStep
    <3> QED BY <1>17, <3>1 DEF DeactivateWrite, TypeOK
  <2>3. CASE Become(w, [work[w] EXCEPT !.phase = "deactivate_save",
                                    !.move = MoveTo("deactivated")])
    <3> DEFINE r == [work[w] EXCEPT !.phase = "deactivate_save",
                                      !.move = MoveTo("deactivated")]
    <3>1. MoveTo("deactivated") \in (Statuses \ {"parsed"}) \cup {Keep}
      BY <2>1
    <3>2. r \in Work
      BY <3>1, <1>w, <2>1 DEF Work, Phases, Stages, Keep
    <3>3. WellFormed(r)
      BY <1>17, <1>w, <3>1 DEF DeactivateWrite, WellFormed, NoWork, Keep
    <3>4. Become(w, r) /\ UNCHANGED chunks
      BY <1>17, <2>3 DEF DeactivateWrite
    <3>5. work' \in [Workers -> Work] /\ CommandsWellFormed'
      <4> HIDE DEF r
      <4> QED BY <3>2, <3>3, <3>4, RecordStep
    <3> QED BY <1>17, <2>3, <3>5 DEF DeactivateWrite, TypeOK
  <2> QED BY <1>17, <2>2, <2>3 DEF DeactivateWrite
<1>18. ASSUME ParseRaise(w)
      PROVE  TypeOK' /\ CommandsWellFormed'
  <2>0. chunks \subseteq chunks'
    BY <1>18 DEF ParseRaise
  <2>1. MoveTo("failed") \in (Statuses \ {"parsed"}) \cup {Keep}
    BY MoveTyped DEF Statuses
  <2>2. CASE Done(w)
    <3>1. work' \in [Workers -> Work] /\ CommandsWellFormed'
      BY <2>0, <2>2, DoneStep
    <3> QED BY <1>18, <3>1, ConstantsAssumption DEF ParseRaise, TypeOK
  <2>3. CASE Become(w, [work[w] EXCEPT !.phase = "move", !.move = MoveTo("failed")])
    <3> DEFINE r == [work[w] EXCEPT !.phase = "move", !.move = MoveTo("failed")]
    <3>1. MoveTo("failed") \in (Statuses \ {"parsed"}) \cup {Keep}
      BY <2>1
    <3>2. r \in Work
      BY <3>1, <1>w, <2>1 DEF Work, Phases, Stages, Keep
    <3>3. WellFormed(r)
      BY <1>18, <1>w, <3>1 DEF ParseRaise, WellFormed, NoWork, Keep
    <3>4. Become(w, r) /\ UNCHANGED chunks
      BY <1>18, <2>3 DEF ParseRaise
    <3>5. work' \in [Workers -> Work] /\ CommandsWellFormed'
      <4> HIDE DEF r
      <4> QED BY <3>2, <3>3, <3>4, RecordStep
    <3> QED BY <1>18, <2>3, <3>5, ConstantsAssumption DEF ParseRaise, TypeOK
  <2> QED BY <1>18, <2>2, <2>3 DEF ParseRaise
<1>19. ASSUME EmbedRaise(w)
      PROVE  TypeOK' /\ CommandsWellFormed'
  <2> DEFINE r == [work[w] EXCEPT !.phase = "fail_checkpoint"]
  <2>1. work[w] \in Work /\ WellFormed(work[w])
    BY <1>w
  <2>2. r \in Work
    BY <2>1, <1>w DEF Work, Phases, Stages, Keep
  <2>3. WellFormed(r)
    BY <2>1 DEF WellFormed, NoWork, Keep
  <2>4. Become(w, r) /\ UNCHANGED chunks
    BY <1>19 DEF EmbedRaise
  <2>5. work' \in [Workers -> Work] /\ CommandsWellFormed'
    <3> HIDE DEF r
    <3> QED BY <2>2, <2>3, <2>4, RecordStep
  <2> QED BY <1>19, <2>5, ConstantsAssumption DEF EmbedRaise, TypeOK
<1> QED BY <1>1, <1>2, <1>3, <1>4, <1>5, <1>6, <1>7, <1>8, <1>9, <1>10, <1>11, <1>12, <1>13, <1>14, <1>15, <1>16, <1>17, <1>18, <1>19
       DEF Step, Mishap

-----------------------------------------------------------------------------
(* What each step leaves alone.                                            *)

\* No worker comes to one of these phases.
Quiet(phases) ==
  \A u \in Workers : work'[u] = work[u] \/ work'[u].phase \notin phases

\* A worker that changes its record, to one outside the phases.
LEMMA QuietStep ==
  ASSUME TypeOK, NEW w \in Workers, NEW r, Become(w, r),
         NEW phases, r.phase \notin phases
  PROVE  Quiet(phases)
  BY DEF Quiet, Become, TypeOK

LEMMA QuietDone ==
  ASSUME TypeOK, NEW w \in Workers, Done(w), NEW phases, "idle" \notin phases
  PROVE  Quiet(phases)
  BY DEF Quiet, Done, Become, TypeOK, NoWork

\* The steps that neither register a version nor write a chunk row.
Bystander(w) ==
  \/ \E force \in BOOLEAN : ParseOpen(w, force)
  \/ ChunkOpen(w) \/ ChunkRefuse(w) \/ EmbedOpen(w) \/ DeactivateOpen(w)
  \/ ParseMark(w) \/ (\E t \in Texts \cup {NoText} : ParseClose(w, t))
  \/ ParseRefused(w) \/ ParseSave(w) \/ Move(w)
  \/ ChunkStart(w) \/ ChunkRead(w)
  \/ EmbedStart(w) \/ EmbedRun(w) \/ EmbedSave(w) \/ FailCheckpoint(w)
  \/ Mishap(w)

LEMMA BystanderQuiet ==
  ASSUME TypeOK, NEW w \in Workers, Bystander(w)
  PROVE  /\ UNCHANGED <<versions, current, objects, chunks, active>>
         /\ Quiet({"upload_save", "chunk_save", "deactivate_save"})
<1> USE DEF registry, index
<1>w. work \in [Workers -> Work] /\ work[w] \in Work
  BY DEF TypeOK
<1>1. ASSUME NEW force \in BOOLEAN, ParseOpen(w, force)
      PROVE  /\ UNCHANGED <<versions, current, objects, chunks, active>>
             /\ Quiet({"upload_save", "chunk_save", "deactivate_save"})
  BY <1>1, <1>w DEF ParseOpen, Quiet, Become, Done, NoWork, Work
<1>2. ASSUME ChunkOpen(w)
      PROVE  /\ UNCHANGED <<versions, current, objects, chunks, active>>
             /\ Quiet({"upload_save", "chunk_save", "deactivate_save"})
  BY <1>2, <1>w DEF ChunkOpen, Quiet, Become, Done, NoWork, Work
<1>3. ASSUME ChunkRefuse(w)
      PROVE  /\ UNCHANGED <<versions, current, objects, chunks, active>>
             /\ Quiet({"upload_save", "chunk_save", "deactivate_save"})
  BY <1>3, <1>w DEF ChunkRefuse, Quiet, Become, Done, NoWork, Work
<1>4. ASSUME EmbedOpen(w)
      PROVE  /\ UNCHANGED <<versions, current, objects, chunks, active>>
             /\ Quiet({"upload_save", "chunk_save", "deactivate_save"})
  BY <1>4, <1>w DEF EmbedOpen, Quiet, Become, Done, NoWork, Work
<1>5. ASSUME DeactivateOpen(w)
      PROVE  /\ UNCHANGED <<versions, current, objects, chunks, active>>
             /\ Quiet({"upload_save", "chunk_save", "deactivate_save"})
  BY <1>5, <1>w DEF DeactivateOpen, Quiet, Become, Done, NoWork, Work
<1>6. ASSUME ParseMark(w)
      PROVE  /\ UNCHANGED <<versions, current, objects, chunks, active>>
             /\ Quiet({"upload_save", "chunk_save", "deactivate_save"})
  BY <1>6, <1>w DEF ParseMark, Quiet, Become, Done, NoWork, Work
<1>7. ASSUME NEW t \in Texts \cup {NoText}, ParseClose(w, t)
      PROVE  /\ UNCHANGED <<versions, current, objects, chunks, active>>
             /\ Quiet({"upload_save", "chunk_save", "deactivate_save"})
  BY <1>7, <1>w DEF ParseClose, Quiet, Become, Done, NoWork, Work
<1>8. ASSUME ParseRefused(w)
      PROVE  /\ UNCHANGED <<versions, current, objects, chunks, active>>
             /\ Quiet({"upload_save", "chunk_save", "deactivate_save"})
  BY <1>8, <1>w DEF ParseRefused, Quiet, Become, Done, NoWork, Work
<1>9. ASSUME ParseSave(w)
      PROVE  /\ UNCHANGED <<versions, current, objects, chunks, active>>
             /\ Quiet({"upload_save", "chunk_save", "deactivate_save"})
  BY <1>9, <1>w DEF ParseSave, Quiet, Become, Done, NoWork, Work
<1>10. ASSUME Move(w)
      PROVE  /\ UNCHANGED <<versions, current, objects, chunks, active>>
             /\ Quiet({"upload_save", "chunk_save", "deactivate_save"})
  BY <1>10, <1>w DEF Move, Quiet, Become, Done, NoWork, Work
<1>11. ASSUME ChunkStart(w)
      PROVE  /\ UNCHANGED <<versions, current, objects, chunks, active>>
             /\ Quiet({"upload_save", "chunk_save", "deactivate_save"})
  BY <1>11, <1>w DEF ChunkStart, Quiet, Become, Done, NoWork, Work
<1>12. ASSUME ChunkRead(w)
      PROVE  /\ UNCHANGED <<versions, current, objects, chunks, active>>
             /\ Quiet({"upload_save", "chunk_save", "deactivate_save"})
  BY <1>12, <1>w DEF ChunkRead, Quiet, Become, Done, NoWork, Work
<1>13. ASSUME EmbedStart(w)
      PROVE  /\ UNCHANGED <<versions, current, objects, chunks, active>>
             /\ Quiet({"upload_save", "chunk_save", "deactivate_save"})
  BY <1>13, <1>w DEF EmbedStart, Quiet, Become, Done, NoWork, Work
<1>14. ASSUME EmbedRun(w)
      PROVE  /\ UNCHANGED <<versions, current, objects, chunks, active>>
             /\ Quiet({"upload_save", "chunk_save", "deactivate_save"})
  <2>1. UNCHANGED <<versions, current, objects, chunks, active>>
    BY <1>14 DEF EmbedRun
  <2>2. CASE Become(w, [work[w] EXCEPT !.phase = "fail_checkpoint"])
    BY <1>w, <2>1, <2>2 DEF Become, Quiet, Work
  <2> DEFINE r == [work[w] EXCEPT !.phase = "embed_save",
                     !.move = IF work[w].seen = "chunk_ready"
                              THEN MoveTo(IndexedStatus) ELSE Keep]
  <2>3. r.phase = "embed_save"
    BY <1>w DEF Work
  <2>4. CASE Become(w, r)
    <3> HIDE DEF r
    <3> QED BY <2>1, <2>3, <2>4, QuietStep
  <2> QED BY <1>14, <2>2, <2>4 DEF EmbedRun
<1>15. ASSUME EmbedSave(w)
      PROVE  /\ UNCHANGED <<versions, current, objects, chunks, active>>
             /\ Quiet({"upload_save", "chunk_save", "deactivate_save"})
  BY <1>15, <1>w DEF EmbedSave, Quiet, Become, Done, NoWork, Work
<1>16. ASSUME FailCheckpoint(w)
      PROVE  /\ UNCHANGED <<versions, current, objects, chunks, active>>
             /\ Quiet({"upload_save", "chunk_save", "deactivate_save"})
  BY <1>16, <1>w DEF FailCheckpoint, Quiet, Become, Done, NoWork, Work
<1>17. ASSUME ParseRaise(w)
      PROVE  /\ UNCHANGED <<versions, current, objects, chunks, active>>
             /\ Quiet({"upload_save", "chunk_save", "deactivate_save"})
  <2>1. UNCHANGED <<versions, current, objects, chunks, active>>
    BY <1>17 DEF ParseRaise
  <2>2. CASE Done(w)
    BY <2>1, <2>2, QuietDone
  <2>3. CASE Become(w, [work[w] EXCEPT !.phase = "move", !.move = MoveTo("failed")])
    BY <1>w, <2>1, <2>3 DEF Become, Quiet, Work
  <2> QED BY <1>17, <2>2, <2>3 DEF ParseRaise
<1>18. ASSUME EmbedRaise(w)
      PROVE  /\ UNCHANGED <<versions, current, objects, chunks, active>>
             /\ Quiet({"upload_save", "chunk_save", "deactivate_save"})
  BY <1>18, <1>w DEF EmbedRaise, Quiet, Become, Done, NoWork, Work
<1>19. ASSUME Crash(w)
      PROVE  /\ UNCHANGED <<versions, current, objects, chunks, active>>
             /\ Quiet({"upload_save", "chunk_save", "deactivate_save"})
  BY <1>19, <1>w DEF Crash, Quiet, Become, Done, NoWork, Work
<1> QED BY <1>1, <1>2, <1>3, <1>4, <1>5, <1>6, <1>7, <1>8, <1>9, <1>10, <1>11, <1>12, <1>13, <1>14, <1>15, <1>16, <1>17, <1>18, <1>19 DEF Bystander, Mishap

\* A worker that writes chunk rows comes to save them or to record a failure,
\* with the rows it read and the text it holds.
LEMMA WritePhase ==
  ASSUME TypeOK, NEW w \in Workers, ChunkWrite(w)
  PROVE  /\ \A u \in Workers \ {w} : work'[u] = work[u]
         /\ work'[w].phase \in {"chunk_save", "fail_checkpoint"}
         /\ work'[w].source = work[w].source /\ work'[w].text = work[w].text
         /\ work'[w].rows = work[w].rows
<1>w. work \in [Workers -> Work] /\ work[w] \in Work
  BY DEF TypeOK
<1>1. CASE Become(w, [work[w] EXCEPT !.phase = "fail_checkpoint"])
  BY <1>1, <1>w DEF Become, Work
<1>2. CASE Become(w, [work[w] EXCEPT !.phase = "chunk_save",
             !.move = IF Rechunked(w) THEN MoveTo("chunk_ready") ELSE Keep])
  <2> DEFINE m == IF Rechunked(w) THEN MoveTo("chunk_ready") ELSE Keep
  <2>1. work' = [work EXCEPT ![w] = [work[w] EXCEPT !.phase = "chunk_save", !.move = m]]
    BY <1>2 DEF Become
  <2> HIDE DEF m
  <2> QED BY <1>w, <2>1 DEF Work
<1> QED BY <1>1, <1>2 DEF ChunkWrite

-----------------------------------------------------------------------------
(* The registry of versions.                                               *)

\* Only uploads change it.
LEMMA RegistryUnchanged ==
  ASSUME RegisteredVersions, UploadsBacked,
         UNCHANGED <<versions, current, objects>>, Quiet({"upload_save"})
  PROVE  RegisteredVersions' /\ UploadsBacked'
<1>1. RegisteredVersions'
  BY DEF RegisteredVersions
<1>2. UploadsBacked'
  BY DEF UploadsBacked, Quiet
<1> QED BY <1>1, <1>2

LEMMA RegistryKept ==
  ASSUME TypeOK, RegisteredVersions, UploadsBacked, NEW w \in Workers,
         Command(w) \/ Step(w) \/ Mishap(w)
  PROVE  RegisteredVersions' /\ UploadsBacked'
<1> USE DEF registry, index
<1>w. work \in [Workers -> Work] /\ work[w] \in Work
  BY DEF TypeOK
<1>1. CASE Bystander(w)
  <2>1. Quiet({"upload_save"})
    BY <1>1, BystanderQuiet DEF Quiet
  <2> QED BY <1>1, <2>1, BystanderQuiet, RegistryUnchanged
<1>2. CASE ChunkWrite(w) \/ ChunkSave(w) \/ DeactivateWrite(w) \/ DeactivateSave(w)
  <2>1. UNCHANGED <<versions, current, objects>>
    BY <1>2 DEF ChunkWrite, ChunkSave, DeactivateWrite, DeactivateSave
  <2>2. Quiet({"upload_save"})
    <3>1. CASE ChunkSave(w) \/ DeactivateSave(w)
      BY <3>1, QuietDone DEF ChunkSave, DeactivateSave
    <3>2. CASE DeactivateWrite(w)
      <4>1. CASE Done(w)
        BY <4>1, QuietDone
      <4>2. CASE Become(w, [work[w] EXCEPT !.phase = "deactivate_save",
                                           !.move = MoveTo("deactivated")])
        BY <1>w, <4>2 DEF Become, Quiet, Work
      <4> QED BY <3>2, <4>1, <4>2 DEF DeactivateWrite
    <3>3. CASE ChunkWrite(w)
      BY <3>3, WritePhase DEF Quiet
    <3> QED BY <1>2, <3>1, <3>2, <3>3
  <2> QED BY <2>1, <2>2, RegistryUnchanged
<1>3. ASSUME NEW c \in Contents, UploadOpen(w, c)
      PROVE  RegisteredVersions' /\ UploadsBacked'
  <2>1. RegisteredVersions'
    BY <1>3 DEF UploadOpen, RegisteredVersions
  <2>2. ASSUME NEW u \in Workers, work'[u].phase = "upload_save"
        PROVE  <<work'[u].version, work'[u].content>> \in objects'
    <3>1. CASE u = w
      BY <1>3, <1>w, <3>1 DEF UploadOpen, Become, NoWork
    <3>2. CASE u # w
      BY <1>3, <1>w, <2>2, <3>2 DEF UploadOpen, Become, UploadsBacked
    <3> QED BY <3>1, <3>2
  <2> QED BY <2>1, <2>2 DEF UploadsBacked
<1>4. CASE UploadSave(w)
  <2>1. Quiet({"upload_save"}) /\ UNCHANGED objects
    BY <1>4, QuietDone DEF UploadSave
  <2>2. UploadsBacked'
    BY <2>1 DEF UploadsBacked, Quiet
  <2>3. CASE UploadClash(w)
    BY <1>4, <2>1, <2>3, RegistryUnchanged DEF UploadSave
  <2>4. CASE ~UploadClash(w)
    <3>1. /\ versions' = Append(versions, work[w].content)
         /\ current' = Len(versions) + 1
         /\ <<Len(versions) + 1, work[w].content>> \in objects
         /\ \A n \in 1..Len(versions) : versions[n] # work[w].content
      BY <1>4, <2>4 DEF UploadSave, UploadClash, UploadsBacked, Registered
    <3>2. /\ versions \in Seq(Contents) /\ Len(versions) \in Nat
         /\ work[w].content \in Contents
      BY <1>w DEF TypeOK, Work
    <3>3. /\ Len(versions') = Len(versions) + 1
         /\ versions'[Len(versions) + 1] = work[w].content
         /\ \A n \in 1..Len(versions) : versions'[n] = versions[n]
      BY <3>1, <3>2
    <3>4. \A n \in 1..Len(versions') : n = Len(versions) + 1 \/ n \in 1..Len(versions)
      BY <3>2, <3>3
    <3>5. \A m, n \in 1..Len(versions') : versions'[m] = versions'[n] => m = n
      BY <3>1, <3>3, <3>4 DEF RegisteredVersions
    <3>6. \A n \in 1..Len(versions') : <<n, versions'[n]>> \in objects'
      BY <2>1, <3>1, <3>3, <3>4 DEF RegisteredVersions
    <3> QED BY <2>2, <3>1, <3>3, <3>5, <3>6 DEF RegisteredVersions
  <2> QED BY <2>3, <2>4
<1> QED BY <1>1, <1>2, <1>3, <1>4 DEF Command, Step, Bystander

-----------------------------------------------------------------------------
(* The chunk rows.  The locks of a worker that has written its rows are     *)
(* stated symmetrically: no two workers hold the same key.                  *)

HoldersApart ==
  \A u, v \in Workers : u # v =>
    \A a \in Holding(u), b \in Holding(v) : ~SameKey(a, b)

\* The rows a worker is about to commit are new and their positions free.
FreeRows ==
  \A w \in Workers : work[w].phase = "chunk_save" =>
    /\ Fresh(w) \cap chunks = {}
    /\ \A a \in Fresh(w), b \in active \ Stale(w) : ~SameKey(a, b)

LEMMA ApartFromParts ==
  ASSUME WritersApart, DeactivatorsApart
  PROVE  HoldersApart /\ FreeRows
<1>1. FreeRows
  BY DEF WritersApart, FreeRows
<1>2. ASSUME NEW u \in Workers, NEW v \in Workers, u # v,
             NEW a \in Holding(u), NEW b \in Holding(v)
      PROVE  ~SameKey(a, b)
  <2>1. CASE work[u].phase = "chunk_save"
    <3>1. ~Waits(u, Fresh(u) \cup Stale(u)) /\ a \in Fresh(u) \cup Stale(u)
      BY <2>1 DEF WritersApart, Holding
    <3> QED BY <1>2, <3>1 DEF Waits
  <2>2. CASE work[u].phase = "deactivate_save"
    <3>1. ~Waits(u, work[u].rows) /\ a \in work[u].rows
      BY <2>2 DEF DeactivatorsApart, Holding
    <3> QED BY <1>2, <3>1 DEF Waits
  <2>3. CASE work[u].phase \notin {"chunk_save", "deactivate_save"}
    BY <2>3 DEF Holding
  <2> QED BY <2>1, <2>2, <2>3
<1> QED BY <1>1, <1>2 DEF HoldersApart

LEMMA PartsFromApart ==
  ASSUME HoldersApart, FreeRows
  PROVE  WritersApart /\ DeactivatorsApart
<1>1. ASSUME NEW w \in Workers, work[w].phase = "chunk_save"
      PROVE  ~Waits(w, Fresh(w) \cup Stale(w))
  BY <1>1 DEF HoldersApart, Holding, Waits
<1>2. ASSUME NEW w \in Workers, work[w].phase = "deactivate_save"
      PROVE  ~Waits(w, work[w].rows)
  BY <1>2 DEF HoldersApart, Holding, Waits
<1> QED BY <1>1, <1>2 DEF WritersApart, DeactivatorsApart, FreeRows

\* What a worker whose record stays as it is holds.
LEMMA HoldingUnchanged ==
  ASSUME NEW u \in Workers, work'[u] = work[u]
  PROVE  Holding(u)' = Holding(u) /\ Fresh(u)' = Fresh(u) /\ Stale(u)' = Stale(u)
  BY DEF Holding, Fresh, Stale, RowsOf

\* Nobody comes to hold rows and none are written.
LEMMA RowsUnchanged ==
  ASSUME HoldersApart, FreeRows, OneActivePerPosition,
         UNCHANGED <<chunks, active>>, Quiet({"chunk_save", "deactivate_save"})
  PROVE  HoldersApart' /\ FreeRows' /\ OneActivePerPosition'
<1>1. ASSUME NEW u \in Workers
      PROVE  Holding(u)' \subseteq Holding(u)
  BY HoldingUnchanged DEF Quiet, Holding
<1>2. HoldersApart'
  BY <1>1 DEF HoldersApart, SameKey
<1>3. FreeRows'
  BY HoldingUnchanged DEF FreeRows, Quiet, SameKey
<1>4. OneActivePerPosition'
  BY DEF OneActivePerPosition, SameKey
<1> QED BY <1>2, <1>3, <1>4

\* Two chunks cut from one text do not share a position.
LEMMA FreshDistinct ==
  ASSUME NEW w \in Workers, work[w].text \in Texts,
         NEW a \in Fresh(w), NEW b \in Fresh(w), SameKey(a, b)
  PROVE  a = b
<1>1. PICK c \in ChildrenOf[work[w].text] : a = [source |-> work[w].source, child |-> c]
  BY DEF Fresh, RowsOf
<1>2. PICK d \in ChildrenOf[work[w].text] : b = [source |-> work[w].source, child |-> d]
  BY DEF Fresh, RowsOf
<1>3. Ordinal[c] = Ordinal[d]
  BY <1>1, <1>2 DEF SameKey
<1>4. c = d
  BY <1>3, ConstantsAssumption
<1> QED BY <1>1, <1>2, <1>4

\* A worker writes its chunk rows: it holds their keys from now on.
LEMMA ChunkWriteApart ==
  ASSUME TypeOK, HoldersApart, FreeRows, OneActivePerPosition,
         NEW w \in Workers, ChunkWrite(w)
  PROVE  HoldersApart' /\ FreeRows' /\ OneActivePerPosition'
<1> USE DEF registry, index
<1>0. UNCHANGED <<chunks, active>>
  BY DEF ChunkWrite
<1>1. CASE Become(w, [work[w] EXCEPT !.phase = "fail_checkpoint"])
  <2>1. Quiet({"chunk_save", "deactivate_save"})
    BY <1>1 DEF TypeOK, Become, Quiet, Work
  <2> QED BY <1>0, <2>1, RowsUnchanged
<1>2. CASE ~KeyClash(w)
  <2>1. /\ Fresh(w)' = Fresh(w) /\ Stale(w)' = Stale(w)
       /\ \A u \in Workers \ {w} : work'[u] = work[u]
    BY WritePhase DEF Fresh, Stale, RowsOf
  <2>2. Holding(w)' \subseteq Fresh(w) \cup Stale(w)
    BY <2>1, WritePhase DEF Holding
  <2>3. \A u \in Workers \ {w} : Holding(u)' = Holding(u)
    BY <2>1, HoldingUnchanged
  <2>4. \A u \in Workers \ {w} : \A a \in Fresh(w) \cup Stale(w), b \in Holding(u) :
          ~SameKey(a, b)
    BY DEF ChunkWrite, Waits
  <2>5. HoldersApart'
    <3> SUFFICES ASSUME NEW u \in Workers, NEW v \in Workers, u # v,
                        NEW a \in Holding(u)', NEW b \in Holding(v)'
                 PROVE  ~SameKey(a, b)
      BY DEF HoldersApart, SameKey
    <3>1. CASE u = w
      BY <2>2, <2>3, <2>4, <3>1
    <3>2. CASE v = w
      <4>1. ~SameKey(b, a)
        BY <2>2, <2>3, <2>4, <3>2
      <4> QED BY <4>1 DEF SameKey
    <3>3. CASE u # w /\ v # w
      BY <2>3, <3>3 DEF HoldersApart
    <3> QED BY <3>1, <3>2, <3>3
  <2>6. FreeRows'
    <3>1. ASSUME NEW u \in Workers \ {w}, work'[u].phase = "chunk_save"
          PROVE  /\ Fresh(u)' \cap chunks' = {}
                 /\ \A a \in Fresh(u)', b \in active' \ Stale(u)' : ~SameKey(a, b)
      BY <1>0, <2>1, <3>1, HoldingUnchanged DEF FreeRows
    <3>2. /\ Fresh(w)' \cap chunks' = {}
         /\ \A a \in Fresh(w)', b \in active' \ Stale(w)' : ~SameKey(a, b)
      BY <1>0, <1>2, <2>1 DEF KeyClash
    <3> QED BY <3>1, <3>2 DEF FreeRows, SameKey
  <2>7. OneActivePerPosition'
    BY <1>0 DEF OneActivePerPosition, SameKey
  <2> QED BY <2>5, <2>6, <2>7
<1> QED BY <1>1, <1>2 DEF ChunkWrite

\* A worker commits its chunk rows: their positions were free, and no other
\* worker waits to commit a row there.
LEMMA ChunkSaveApart ==
  ASSUME TypeOK, CommandsWellFormed, HoldersApart, FreeRows, OneActivePerPosition,
         NEW w \in Workers, ChunkSave(w)
  PROVE  HoldersApart' /\ FreeRows' /\ OneActivePerPosition'
<1>0. /\ chunks' = chunks \cup Fresh(w)
     /\ active' = (active \ Stale(w)) \cup Fresh(w)
     /\ work[w].phase = "chunk_save" /\ Done(w)
     /\ work[w].text \in Texts
  BY DEF ChunkSave, CommandsWellFormed, WellFormed
<1>1. /\ work'[w].phase = "idle"
     /\ \A u \in Workers \ {w} : work'[u] = work[u]
  BY <1>0 DEF Done, Become, NoWork, TypeOK
<1>2. Holding(w)' = {} /\ Holding(w) = Fresh(w) \cup Stale(w)
  BY <1>0, <1>1 DEF Holding
<1>3. HoldersApart'
  <2>1. \A u \in Workers : Holding(u)' \subseteq Holding(u)
    BY <1>1, <1>2, HoldingUnchanged
  <2> QED BY <2>1 DEF HoldersApart, SameKey
<1>4. FreeRows'
  <2> SUFFICES ASSUME NEW u \in Workers, work'[u].phase = "chunk_save"
               PROVE  /\ Fresh(u)' \cap chunks' = {}
                      /\ \A a \in Fresh(u)', b \in active' \ Stale(u)' : ~SameKey(a, b)
    BY DEF FreeRows, SameKey
  <2>1. u # w /\ work[u].phase = "chunk_save"
    BY <1>1
  <2>2. Fresh(u)' = Fresh(u) /\ Stale(u)' = Stale(u)
    BY <1>1, <2>1, HoldingUnchanged
  <2>3. \A a \in Fresh(u), b \in Fresh(w) : ~SameKey(a, b)
    BY <1>2, <2>1 DEF HoldersApart, Holding
  <2>4. Fresh(u) \cap Fresh(w) = {}
    BY <2>3 DEF SameKey
  <2> QED BY <1>0, <2>1, <2>2, <2>3, <2>4 DEF FreeRows
<1>5. OneActivePerPosition'
  <2> SUFFICES ASSUME NEW a \in active', NEW b \in active', SameKey(a, b)
               PROVE  a = b
    BY DEF OneActivePerPosition, SameKey
  <2>1. CASE a \in Fresh(w) /\ b \in Fresh(w)
    BY <1>0, <2>1, FreshDistinct
  <2>2. CASE a \in active \ Stale(w) /\ b \in active \ Stale(w)
    BY <2>2 DEF OneActivePerPosition
  <2>3. CASE a \in Fresh(w) /\ b \in active \ Stale(w)
    BY <1>0, <2>3 DEF FreeRows
  <2>4. CASE b \in Fresh(w) /\ a \in active \ Stale(w)
    <3>1. SameKey(b, a)
      BY DEF SameKey
    <3> QED BY <1>0, <2>4, <3>1 DEF FreeRows
  <2> QED BY <1>0, <2>1, <2>2, <2>3, <2>4
<1> QED BY <1>3, <1>4, <1>5

LEMMA DeactivateApart ==
  ASSUME TypeOK, HoldersApart, FreeRows, OneActivePerPosition,
         NEW w \in Workers, DeactivateWrite(w) \/ DeactivateSave(w)
  PROVE  HoldersApart' /\ FreeRows' /\ OneActivePerPosition'
<1> USE DEF registry, index
<1>1. CASE DeactivateSave(w)
  <2>1. /\ active' \subseteq active /\ UNCHANGED chunks
       /\ Quiet({"chunk_save", "deactivate_save"})
    BY <1>1, QuietDone DEF DeactivateSave
  <2>2. ASSUME NEW u \in Workers
        PROVE  Holding(u)' \subseteq Holding(u)
    BY <2>1, HoldingUnchanged DEF Quiet, Holding
  <2>3. HoldersApart'
    BY <2>2 DEF HoldersApart, SameKey
  <2>4. FreeRows'
    BY <2>1, HoldingUnchanged DEF FreeRows, Quiet, SameKey
  <2>5. OneActivePerPosition'
    BY <2>1 DEF OneActivePerPosition, SameKey
  <2> QED BY <2>3, <2>4, <2>5
<1>2. CASE DeactivateWrite(w) /\ Done(w)
  <2>1. Quiet({"chunk_save", "deactivate_save"}) /\ UNCHANGED <<chunks, active>>
    BY <1>2, QuietDone DEF DeactivateWrite
  <2> QED BY <2>1, RowsUnchanged
<1>3. CASE DeactivateWrite(w) /\ Become(w, [work[w] EXCEPT
             !.phase = "deactivate_save", !.move = MoveTo("deactivated")])
  <2>0. UNCHANGED <<chunks, active>>
    BY <1>3 DEF DeactivateWrite
  <2>1. /\ work'[w].phase = "deactivate_save" /\ work'[w].rows = work[w].rows
       /\ \A u \in Workers \ {w} : work'[u] = work[u]
    BY <1>3 DEF Become, TypeOK, Work
  <2>2. Holding(w)' = work[w].rows
    BY <2>1 DEF Holding
  <2>3. \A u \in Workers \ {w} : Holding(u)' = Holding(u)
    BY <2>1, HoldingUnchanged
  <2>4. \A u \in Workers \ {w} : \A a \in work[w].rows, b \in Holding(u) : ~SameKey(a, b)
    BY <1>3 DEF DeactivateWrite, Waits
  <2>5. HoldersApart'
    <3> SUFFICES ASSUME NEW u \in Workers, NEW v \in Workers, u # v,
                        NEW a \in Holding(u)', NEW b \in Holding(v)'
                 PROVE  ~SameKey(a, b)
      BY DEF HoldersApart, SameKey
    <3>1. CASE u = w
      BY <2>2, <2>3, <2>4, <3>1
    <3>2. CASE v = w
      <4>1. ~SameKey(b, a)
        BY <2>2, <2>3, <2>4, <3>2
      <4> QED BY <4>1 DEF SameKey
    <3>3. CASE u # w /\ v # w
      BY <2>3, <3>3 DEF HoldersApart
    <3> QED BY <3>1, <3>2, <3>3
  <2>6. Quiet({"chunk_save"})
    BY <2>1 DEF Quiet
  <2>7. FreeRows'
    BY <2>0, <2>6, HoldingUnchanged DEF FreeRows, Quiet, SameKey
  <2>8. OneActivePerPosition'
    BY <2>0 DEF OneActivePerPosition, SameKey
  <2> QED BY <2>5, <2>7, <2>8
<1> QED BY <1>1, <1>2, <1>3 DEF DeactivateWrite

LEMMA RowsKept ==
  ASSUME TypeOK, CommandsWellFormed, HoldersApart, FreeRows, OneActivePerPosition,
         NEW w \in Workers, Command(w) \/ Step(w) \/ Mishap(w)
  PROVE  HoldersApart' /\ FreeRows' /\ OneActivePerPosition'
<1> USE DEF registry, index
<1>1. CASE Bystander(w)
  <2>1. Quiet({"chunk_save", "deactivate_save"})
    BY <1>1, BystanderQuiet DEF Quiet
  <2> QED BY <1>1, <2>1, BystanderQuiet, RowsUnchanged
<1>2. ASSUME NEW c \in Contents, UploadOpen(w, c)
      PROVE  HoldersApart' /\ FreeRows' /\ OneActivePerPosition'
  <2>1. UNCHANGED <<chunks, active>> /\ Quiet({"chunk_save", "deactivate_save"})
    BY <1>2 DEF UploadOpen, Quiet, Become, NoWork, TypeOK
  <2> QED BY <2>1, RowsUnchanged
<1>3. CASE UploadSave(w)
  <2>1. UNCHANGED <<chunks, active>> /\ Quiet({"chunk_save", "deactivate_save"})
    BY <1>3, QuietDone DEF UploadSave
  <2> QED BY <2>1, RowsUnchanged
<1>4. CASE ChunkWrite(w)
  BY <1>4, ChunkWriteApart
<1>5. CASE ChunkSave(w)
  BY <1>5, ChunkSaveApart
<1>6. CASE DeactivateWrite(w) \/ DeactivateSave(w)
  BY <1>6, DeactivateApart
<1> QED BY <1>1, <1>2, <1>3, <1>4, <1>5, <1>6 DEF Command, Step, Bystander

-----------------------------------------------------------------------------
(* The invariant, and what follows from it.                                *)

LEMMA InitInductive == Init => Inductive
<1> SUFFICES ASSUME Init PROVE Inductive
  OBVIOUS
<1>1. TypeOK
  <2>1. versions \in Seq(Contents) /\ Len(versions) = 1 /\ versions[1] = FirstContent
    BY ConstantsAssumption DEF Init
  <2>2. 1 \in Numbers
    BY ConstantsAssumption DEF Numbers
  <2>3. objects \subseteq Numbers \X Contents
    BY <2>2, ConstantsAssumption DEF Init
  <2>4. work \in [Workers -> Work]
    BY NoWorkTyped DEF Init
  <2>5. raws \in [Numbers -> Seq(Texts)]
    BY DEF Init
  <2> QED BY <2>1, <2>2, <2>3, <2>4, <2>5, ConstantsAssumption
          DEF Init, TypeOK, Statuses, NoArtifact
<1>2. CommandsWellFormed
  BY DEF Init, CommandsWellFormed, WellFormed, NoWork, Keep
<1>3. RegisteredVersions
  BY DEF Init, RegisteredVersions
<1>4. UploadsBacked /\ WritersApart /\ DeactivatorsApart
  BY DEF Init, UploadsBacked, WritersApart, DeactivatorsApart, NoWork
<1>5. OneActivePerPosition
  BY DEF Init, OneActivePerPosition
<1> QED BY <1>1, <1>2, <1>3, <1>4, <1>5 DEF Inductive

LEMMA NextInductive == Inductive /\ [Next]_vars => Inductive'
<1> SUFFICES ASSUME Inductive, [Next]_vars PROVE Inductive'
  OBVIOUS
<1>1. CASE UNCHANGED vars
  BY <1>1 DEF vars, Inductive, TypeOK, CommandsWellFormed, WellFormed,
    RegisteredVersions, UploadsBacked, WritersApart, DeactivatorsApart,
    OneActivePerPosition, Waits, Holding, Fresh, Stale, RowsOf, SameKey
<1>2. ASSUME NEW w \in Workers, Command(w) \/ Step(w) \/ Mishap(w)
      PROVE  Inductive'
  <2>1. HoldersApart /\ FreeRows
    BY ApartFromParts DEF Inductive
  <2>2. TypeOK' /\ CommandsWellFormed'
    BY <1>2, CommandTyped, StepTyped DEF Inductive
  <2>3. RegisteredVersions' /\ UploadsBacked'
    BY <1>2, RegistryKept DEF Inductive
  <2>4. HoldersApart' /\ FreeRows' /\ OneActivePerPosition'
    BY <1>2, <2>1, RowsKept DEF Inductive
  <2>5. WritersApart' /\ DeactivatorsApart'
    BY <2>4, PartsFromApart, PTL
  <2> QED BY <2>2, <2>3, <2>4, <2>5 DEF Inductive
<1> QED BY <1>1, <1>2 DEF Next

\* For any number of workers and any texts: the invariant of every state.
THEOREM InvariantHolds == Spec => []Inductive
  BY InitInductive, NextInductive, PTL DEF Spec

\* Every variable keeps its type, and no transaction commits "parsed".
THEOREM TypeCorrect == Spec => []TypeOK
<1>1. Inductive => TypeOK
  BY DEF Inductive
<1> QED BY <1>1, InvariantHolds, PTL

\* However uploads overlap, fail and die half way, current_version is the last
\* registered version, no file is registered twice and every version has its
\* object in the store.
THEOREM RegistryConsistent == Spec => []RegisteredVersions
<1>1. Inductive => RegisteredVersions
  BY DEF Inductive
<1> QED BY <1>1, InvariantHolds, PTL

\* The row locks and the unique keys leave no two active chunks of a version
\* at one position, whichever workers replace or deactivate them.
THEOREM PositionsUnique == Spec => []OneActivePerPosition
<1>1. Inductive => OneActivePerPosition
  BY DEF Inductive
<1> QED BY <1>1, InvariantHolds, PTL

\* A row that is committed as active is a new row: none is revived.
LEMMA NoRevival == Inductive /\ [Next]_vars => (chunks \ active) \cap active' = {}
<1> SUFFICES ASSUME Inductive, [Next]_vars
             PROVE  (chunks \ active) \cap active' = {}
  OBVIOUS
<1> USE DEF registry, index
<1>1. CASE UNCHANGED vars
  BY <1>1 DEF vars
<1>2. ASSUME NEW w \in Workers, Command(w) \/ Step(w) \/ Mishap(w)
      PROVE  (chunks \ active) \cap active' = {}
  <2>0. TypeOK
    BY DEF Inductive
  <2>1. CASE Bystander(w)
    BY <2>0, <2>1, BystanderQuiet
  <2>2. ASSUME NEW c \in Contents, UploadOpen(w, c)
        PROVE  active' = active
    BY <2>2 DEF UploadOpen
  <2>3. CASE UploadSave(w) \/ ChunkWrite(w) \/ DeactivateWrite(w)
    BY <2>3 DEF UploadSave, ChunkWrite, DeactivateWrite
  <2>4. CASE DeactivateSave(w)
    BY <2>4 DEF DeactivateSave
  <2>5. CASE ChunkSave(w)
    <3>1. Fresh(w) \cap chunks = {}
      BY <2>5 DEF ChunkSave, Inductive, WritersApart
    <3> QED BY <2>5, <3>1 DEF ChunkSave
  <2> QED BY <1>2, <2>1, <2>2, <2>3, <2>4, <2>5 DEF Command, Step, Bystander
<1> QED BY <1>1, <1>2 DEF Next

\* A deactivated chunk stays out of every later search.
THEOREM DeactivatedStayOut == Spec => ChunksNeverRevive
<1>1. Inductive /\ [Next]_vars => [(chunks \ active) \cap active' = {}]_vars
  BY NoRevival
<1> QED BY <1>1, InvariantHolds, PTL DEF Spec, ChunksNeverRevive
-----------------------------------------------------------------------------
(* One worker.  Whatever sequence of reparses, new versions, deactivations,*)
(* failures and crashes it runs through, the index is that of the current  *)
(* version: with one worker, what a command has read is still so when it   *)
(* writes.                                                                 *)

OneWorker == \E w : Workers = {w}

Chunking == {"chunk_start", "chunk_read", "chunk_write", "chunk_save"}
Embedding == {"embed_start", "embed_run", "embed_save"}
Searchable == {"chunk_ready", "indexed"}

\* What is between two transactions of a parse, a review or a deactivation.
MovesKnown(k) ==
  /\ k.phase = "parse_mark" => k.move = "parsing" \/ (k.move = Keep /\ status = "parsing")
  /\ k.phase \in {"parse_run", "parse_save"} => status = "parsing" /\ k.source = current
  /\ k.phase = "parse_save" => k.move \notin Searchable
  /\ k.phase = "move" => k.move \notin Searchable
  /\ k.phase = "deactivate_save" =>
       k.move = "deactivated" \/ (k.move = Keep /\ status = "deactivated")

Unchanged(k) ==
  RowsOf(k.source, k.text) \ k.rows = {} /\ k.rows \ RowsOf(k.source, k.text) = {}

\* What is between two transactions of a chunking: it cuts the current
\* canonical document and keeps "indexed" only when nothing is rewritten.
CuttingKnown(k) ==
  /\ k.phase \in Chunking =>
       k.seen = status /\ k.source = current /\ k.text = artifacts[current].text
  /\ k.phase \in {"chunk_write", "chunk_save"} => k.rows = Replaceable(current)
  /\ k.phase = "chunk_save" =>
       \/ k.move = "chunk_ready"
       \/ k.move = Keep /\ status = "chunk_ready"
       \/ k.move = Keep /\ Unchanged(k)

\* What is between two transactions of an embedding.
EmbeddingKnown(k) ==
  k.phase \in Embedding => status \in Searchable /\ k.rows = Pending

Carried == \A w \in Workers :
  MovesKnown(work[w]) /\ CuttingKnown(work[w]) /\ EmbeddingKnown(work[w])

Steady == IndexIsCurrent /\ IndexedIsEmbedded /\ Carried
-----------------------------------------------------------------------------
\* Where nothing but the record of the worker changes.
LEMMA OnlyRecord ==
  ASSUME OneWorker, Inductive, Steady, NEW w \in Workers, NEW r, Become(w, r),
         UNCHANGED <<current, status, artifacts, active, embedded>>,
         MovesKnown(r), CuttingKnown(r), EmbeddingKnown(r)
  PROVE  Steady'
<1>1. Workers = {w} /\ work' = [work EXCEPT ![w] = r] /\ work \in [Workers -> Work]
  BY DEF OneWorker, Become, Inductive, TypeOK
<1>2. work'[w] = r
  BY <1>1
<1>3. IndexIsCurrent' /\ IndexedIsEmbedded'
  BY DEF Steady, IndexIsCurrent, IndexedIsEmbedded, ArtifactOfItsVersion, RowsOf
<1>4. ASSUME NEW u \in Workers
      PROVE  MovesKnown(work[u])' /\ CuttingKnown(work[u])' /\ EmbeddingKnown(work[u])'
  <2>1. work'[u] = r
    BY <1>1, <1>2
  <2>2. MovesKnown(work[u])'
    BY <2>1 DEF MovesKnown
  <2>3. CuttingKnown(work[u])'
    BY <2>1 DEF CuttingKnown, Replaceable, Unchanged, RowsOf
  <2>4. EmbeddingKnown(work[u])'
    BY <2>1 DEF EmbeddingKnown, Pending
  <2> QED BY <2>2, <2>3, <2>4
<1> QED BY <1>3, <1>4 DEF Steady, Carried

\* A worker that is done carries nothing.
LEMMA NothingCarried == MovesKnown(NoWork) /\ CuttingKnown(NoWork) /\ EmbeddingKnown(NoWork)
BY DEF NoWork, MovesKnown, CuttingKnown, EmbeddingKnown, Chunking, Embedding

\* One worker that is done leaves nothing carried, whatever it has written.
LEMMA DoneCarried ==
  ASSUME OneWorker, Inductive, NEW w \in Workers, Done(w)
  PROVE  Carried'
<1>1. Workers = {w} /\ work' = [work EXCEPT ![w] = NoWork] /\ work \in [Workers -> Work]
  BY DEF OneWorker, Done, Become, Inductive, TypeOK
<1>2. ASSUME NEW u \in Workers
      PROVE  MovesKnown(work[u])' /\ CuttingKnown(work[u])' /\ EmbeddingKnown(work[u])'
  <2>1. work'[u].phase = "idle"
    BY <1>1 DEF NoWork
  <2> QED BY <2>1 DEF MovesKnown, CuttingKnown, EmbeddingKnown, Chunking, Embedding
<1> QED BY <1>2 DEF Carried

\* The record of the worker and what it carries.
LEMMA AtWork ==
  ASSUME Inductive, Steady, NEW w \in Workers
  PROVE  /\ work[w] \in Work /\ current \in Numbers /\ status \in Statuses \ {"parsed"}
         /\ MovesKnown(work[w]) /\ CuttingKnown(work[w]) /\ EmbeddingKnown(work[w])
BY DEF Inductive, TypeOK, Steady, Carried

\* The transactions of a parse that write neither the status nor the
\* canonical document: opening it, its result, its failure and its refusal.
LEMMA ParsingSteady ==
  ASSUME OneWorker, Inductive, Steady, NEW w \in Workers,
         \/ \E force \in BOOLEAN : ParseOpen(w, force)
         \/ \E t \in Texts \cup {NoText} : ParseClose(w, t)
         \/ ParseRaise(w) \/ ParseRefused(w)
  PROVE  Steady'
<1> USE DEF registry, index
<1>1. ASSUME NEW force, ParseOpen(w, force) PROVE Steady'
  <2> DEFINE r == [NoWork EXCEPT !.phase = "parse_mark", !.move = MoveTo("parsing")]
  <2>1. r.phase = "parse_mark" /\ r.move = MoveTo("parsing")
    BY DEF NoWork
  <2>2. Become(w, r) /\ UNCHANGED <<current, status, artifacts, active, embedded>>
    BY <1>1 DEF ParseOpen
  <2> HIDE DEF r
  <2>3. MovesKnown(r) /\ CuttingKnown(r) /\ EmbeddingKnown(r)
    BY <2>1 DEF MovesKnown, CuttingKnown, EmbeddingKnown, Chunking, Embedding, MoveTo
  <2> QED BY <2>2, <2>3, OnlyRecord
<1>2. ASSUME NEW t \in Texts \cup {NoText}, ParseClose(w, t) PROVE Steady'
  <2> DEFINE m == IF status = FirstStop(t) THEN Keep ELSE FinalStop(t)
             r == [work[w] EXCEPT
                     !.phase = "parse_save", !.text = t, !.at = current,
                     !.new = t \in Texts /\ t # Latest(raws[current]), !.move = m]
  <2>1. Become(w, r) /\ UNCHANGED <<current, status, artifacts, active, embedded>>
        /\ work[w].phase = "parse_run"
    BY <1>2 DEF ParseClose
  <2>2. r.phase = "parse_save" /\ r.move = m /\ r.source = work[w].source
    BY AtWork DEF Work
  <2>3. m \notin Searchable
    BY ConstantsAssumption DEF FinalStop, FirstStop, Searchable, Keep
  <2>4. status = "parsing" /\ work[w].source = current
    BY <2>1, AtWork DEF MovesKnown
  <2> HIDE DEF r, m
  <2>5. MovesKnown(r) /\ CuttingKnown(r) /\ EmbeddingKnown(r)
    BY <2>2, <2>3, <2>4 DEF MovesKnown, CuttingKnown, EmbeddingKnown, Chunking, Embedding
  <2> QED BY <2>1, <2>5, OnlyRecord
<1>3. ASSUME ParseRaise(w) PROVE Steady'
  <2> DEFINE r == [work[w] EXCEPT !.phase = "move", !.move = MoveTo("failed")]
  <2>1. (Become(w, r) \/ Become(w, NoWork))
        /\ UNCHANGED <<current, status, artifacts, active, embedded>>
    BY <1>3 DEF ParseRaise, Done
  <2>2. r.phase = "move" /\ r.move = MoveTo("failed")
    BY AtWork DEF Work
  <2> HIDE DEF r
  <2>3. MovesKnown(r) /\ CuttingKnown(r) /\ EmbeddingKnown(r)
    BY <2>2 DEF MovesKnown, CuttingKnown, EmbeddingKnown, Chunking, Embedding, MoveTo,
                Searchable, Keep
  <2> QED BY <2>1, <2>3, NothingCarried, OnlyRecord
<1>4. CASE ParseRefused(w)
  BY <1>4, NothingCarried, OnlyRecord DEF ParseRefused, Done
<1> QED BY <1>1, <1>2, <1>3, <1>4

\* The transactions of a chunking up to the one that writes the rows: what
\* each has read is still what it carries, as nobody else moves.
LEMMA ChunkingSteady ==
  ASSUME OneWorker, Inductive, Steady, NEW w \in Workers,
         \/ ChunkOpen(w) \/ ChunkRefuse(w) \/ ChunkStart(w) \/ ChunkRead(w) \/ ChunkWrite(w)
         \/ FailCheckpoint(w)
  PROVE  Steady'
<1> USE DEF registry, index
<1>1. CASE ChunkOpen(w)
  <2> DEFINE r == [NoWork EXCEPT
       !.phase = "chunk_start", !.seen = status, !.version = current,
       !.source = artifacts[current].source, !.text = artifacts[current].text]
  <2>1. Become(w, r) /\ UNCHANGED <<current, status, artifacts, active, embedded>>
        /\ artifacts[current] # NoArtifact
    BY <1>1 DEF ChunkOpen
  <2>2. r.phase = "chunk_start" /\ r.seen = status /\ r.source = artifacts[current].source
        /\ r.text = artifacts[current].text
    BY DEF NoWork
  <2>3. artifacts[current].source = current
    BY <2>1, AtWork DEF Steady, IndexIsCurrent, ArtifactOfItsVersion
  <2> HIDE DEF r
  <2>4. MovesKnown(r) /\ CuttingKnown(r) /\ EmbeddingKnown(r)
    BY <2>2, <2>3 DEF MovesKnown, CuttingKnown, EmbeddingKnown, Chunking, Embedding
  <2> QED BY <2>1, <2>4, OnlyRecord
<1>2. CASE ChunkRefuse(w)
  <2> DEFINE r == [NoWork EXCEPT !.phase = "move", !.move = MoveTo("review_required")]
  <2>1. Become(w, r) /\ UNCHANGED <<current, status, artifacts, active, embedded>>
    BY <1>2 DEF ChunkRefuse
  <2>2. r.phase = "move" /\ r.move = MoveTo("review_required")
    BY DEF NoWork
  <2> HIDE DEF r
  <2>3. MovesKnown(r) /\ CuttingKnown(r) /\ EmbeddingKnown(r)
    BY <2>2 DEF MovesKnown, CuttingKnown, EmbeddingKnown, Chunking, Embedding, MoveTo,
                Searchable, Keep
  <2> QED BY <2>1, <2>3, OnlyRecord
<1>3. CASE ChunkStart(w)
  <2> DEFINE r == [work[w] EXCEPT !.phase = "chunk_read"]
  <2>1. Become(w, r) /\ UNCHANGED <<current, status, artifacts, active, embedded>>
        /\ work[w].phase = "chunk_start"
    BY <1>3 DEF ChunkStart
  <2>2. r.phase = "chunk_read" /\ r.seen = work[w].seen /\ r.source = work[w].source
        /\ r.text = work[w].text
    BY AtWork DEF Work
  <2> HIDE DEF r
  <2>3. MovesKnown(r) /\ CuttingKnown(r) /\ EmbeddingKnown(r)
    BY <2>1, <2>2, AtWork DEF MovesKnown, CuttingKnown, EmbeddingKnown, Chunking, Embedding
  <2> QED BY <2>1, <2>3, OnlyRecord
<1>4. CASE ChunkRead(w)
  <2> DEFINE r == [work[w] EXCEPT !.phase = "chunk_write",
                                  !.rows = Replaceable(work[w].source)]
  <2>1. Become(w, r) /\ UNCHANGED <<current, status, artifacts, active, embedded>>
        /\ work[w].phase = "chunk_read"
    BY <1>4 DEF ChunkRead
  <2>2. r.phase = "chunk_write" /\ r.seen = work[w].seen /\ r.source = work[w].source
        /\ r.text = work[w].text /\ r.rows = Replaceable(work[w].source)
    BY AtWork DEF Work
  <2> HIDE DEF r
  <2>3. MovesKnown(r) /\ CuttingKnown(r) /\ EmbeddingKnown(r)
    BY <2>1, <2>2, AtWork DEF MovesKnown, CuttingKnown, EmbeddingKnown, Chunking, Embedding
  <2> QED BY <2>1, <2>3, OnlyRecord
<1>5. CASE ChunkWrite(w)
  <2> DEFINE m == IF Rechunked(w) THEN MoveTo("chunk_ready") ELSE Keep
             r == [work[w] EXCEPT !.phase = "chunk_save", !.move = m]
             f == [work[w] EXCEPT !.phase = "fail_checkpoint"]
  <2>1. (Become(w, r) \/ Become(w, f))
        /\ UNCHANGED <<current, status, artifacts, active, embedded>>
        /\ work[w].phase = "chunk_write"
    BY <1>5 DEF ChunkWrite
  <2>2. r.phase = "chunk_save" /\ r.seen = work[w].seen /\ r.source = work[w].source
        /\ r.text = work[w].text /\ r.rows = work[w].rows /\ r.move = m
    BY AtWork DEF Work
  <2>3. f.phase = "fail_checkpoint"
    BY AtWork DEF Work
  <2>4. \/ m = "chunk_ready"
        \/ m = Keep /\ status = "chunk_ready"
        \/ m = Keep /\ Unchanged(work[w])
    BY DEF Rechunked, MoveTo, Unchanged, Fresh, Stale
  <2> HIDE DEF r, f, m
  <2>5. MovesKnown(f) /\ CuttingKnown(f) /\ EmbeddingKnown(f)
    BY <2>3 DEF MovesKnown, CuttingKnown, EmbeddingKnown, Chunking, Embedding
  <2>6. MovesKnown(r) /\ CuttingKnown(r) /\ EmbeddingKnown(r)
    BY <2>1, <2>2, <2>4, AtWork DEF MovesKnown, CuttingKnown, EmbeddingKnown, Chunking,
                                    Embedding, Unchanged
  <2> QED BY <2>1, <2>5, <2>6, OnlyRecord
<1>6. CASE FailCheckpoint(w)
  BY <1>6, NothingCarried, OnlyRecord DEF FailCheckpoint, Done
<1> QED BY <1>1, <1>2, <1>3, <1>4, <1>5, <1>6

\* The transactions of an embedding up to the one that writes the vectors.
LEMMA EmbeddingSteady ==
  ASSUME OneWorker, Inductive, Steady, NEW w \in Workers,
         EmbedOpen(w) \/ EmbedStart(w) \/ EmbedRun(w) \/ EmbedRaise(w)
  PROVE  Steady'
<1> USE DEF registry, index
<1> DEFINE Same == UNCHANGED <<current, status, artifacts, active, embedded>>
<1>1. CASE EmbedOpen(w)
  <2> DEFINE r == [NoWork EXCEPT
       !.phase = "embed_start", !.seen = status, !.version = current,
       !.stage = "embed", !.rows = Pending]
  <2>1. Become(w, r) /\ Same /\ status \in Searchable
    BY <1>1 DEF EmbedOpen, Searchable
  <2>2. r.phase = "embed_start" /\ r.rows = Pending
    BY DEF NoWork
  <2> HIDE DEF r
  <2>3. MovesKnown(r) /\ CuttingKnown(r) /\ EmbeddingKnown(r)
    BY <2>1, <2>2 DEF MovesKnown, CuttingKnown, EmbeddingKnown, Chunking, Embedding
  <2> QED BY <2>1, <2>3, OnlyRecord
<1>2. CASE EmbedStart(w)
  <2> DEFINE r == [work[w] EXCEPT !.phase = "embed_run"]
  <2>1. Become(w, r) /\ Same /\ work[w].phase = "embed_start"
    BY <1>2 DEF EmbedStart
  <2>2. r.phase = "embed_run" /\ r.rows = work[w].rows
    BY AtWork DEF Work
  <2> HIDE DEF r
  <2>3. MovesKnown(r) /\ CuttingKnown(r) /\ EmbeddingKnown(r)
    BY <2>1, <2>2, AtWork DEF MovesKnown, CuttingKnown, EmbeddingKnown, Chunking, Embedding
  <2> QED BY <2>1, <2>3, OnlyRecord
<1>3. CASE EmbedRun(w) \/ EmbedRaise(w)
  <2> DEFINE m == IF work[w].seen = "chunk_ready" THEN MoveTo(IndexedStatus) ELSE Keep
             r == [work[w] EXCEPT !.phase = "embed_save", !.move = m]
             f == [work[w] EXCEPT !.phase = "fail_checkpoint"]
  <2>1. (Become(w, r) \/ Become(w, f)) /\ Same /\ work[w].phase = "embed_run"
    BY <1>3 DEF EmbedRun, EmbedRaise
  <2>2. r.phase = "embed_save" /\ r.rows = work[w].rows /\ f.phase = "fail_checkpoint"
    BY AtWork DEF Work
  <2> HIDE DEF r, f
  <2>3. MovesKnown(f) /\ CuttingKnown(f) /\ EmbeddingKnown(f)
    BY <2>2 DEF MovesKnown, CuttingKnown, EmbeddingKnown, Chunking, Embedding
  <2>4. MovesKnown(r) /\ CuttingKnown(r) /\ EmbeddingKnown(r)
    BY <2>1, <2>2, AtWork DEF MovesKnown, CuttingKnown, EmbeddingKnown, Chunking, Embedding
  <2> QED BY <2>1, <2>3, <2>4, OnlyRecord
<1> QED BY <1>1, <1>2, <1>3

\* Opening a deactivation or an upload, and a crash.
LEMMA OpeningSteady ==
  ASSUME OneWorker, Inductive, Steady, NEW w \in Workers,
         \/ DeactivateOpen(w) \/ DeactivateWrite(w) \/ Crash(w)
         \/ \E c \in Contents : UploadOpen(w, c)
  PROVE  Steady'
<1> USE DEF registry, index
<1> DEFINE Same == UNCHANGED <<current, status, artifacts, active, embedded>>
<1>1. ASSUME NEW r, Become(w, r), Same, r.phase \in {"deactivate_write", "upload_save"}
      PROVE  Steady'
  <2>1. MovesKnown(r) /\ CuttingKnown(r) /\ EmbeddingKnown(r)
    BY <1>1 DEF MovesKnown, CuttingKnown, EmbeddingKnown, Chunking, Embedding
  <2> QED BY <1>1, <2>1, OnlyRecord
<1>2. CASE DeactivateOpen(w)
  <2> DEFINE r == [NoWork EXCEPT !.phase = "deactivate_write", !.rows = active]
  <2>1. r.phase = "deactivate_write" /\ Become(w, r) /\ Same
    BY <1>2 DEF DeactivateOpen, NoWork
  <2> HIDE DEF r
  <2> QED BY <1>1, <2>1
<1>3. ASSUME NEW c \in Contents, UploadOpen(w, c) PROVE Steady'
  <2> DEFINE r == [NoWork EXCEPT !.phase = "upload_save", !.content = c,
                                 !.version = Len(versions) + 1]
  <2>1. r.phase = "upload_save" /\ Become(w, r) /\ Same
    BY <1>3 DEF UploadOpen, NoWork
  <2> HIDE DEF r
  <2> QED BY <1>1, <2>1
<1>4. CASE DeactivateWrite(w)
  <2> DEFINE r == [work[w] EXCEPT !.phase = "deactivate_save", !.move = MoveTo("deactivated")]
  <2>1. (Become(w, r) \/ Become(w, NoWork)) /\ Same
    BY <1>4 DEF DeactivateWrite, Done
  <2>2. r.phase = "deactivate_save" /\ r.move = MoveTo("deactivated")
    BY AtWork DEF Work
  <2> HIDE DEF r
  <2>3. MovesKnown(r) /\ CuttingKnown(r) /\ EmbeddingKnown(r)
    BY <2>2 DEF MovesKnown, CuttingKnown, EmbeddingKnown, Chunking, Embedding, MoveTo
  <2> QED BY <2>1, <2>3, NothingCarried, OnlyRecord
<1>5. CASE Crash(w)
  BY <1>5, NothingCarried, OnlyRecord DEF Crash, Done
<1> QED BY <1>2, <1>3, <1>4, <1>5

\* The parse writes the status, and the canonical document of the version it
\* has read; neither leaves the document searchable.
LEMMA ParseWrites ==
  ASSUME OneWorker, Inductive, Steady, NEW w \in Workers, ParseMark(w) \/ ParseSave(w) \/ Move(w)
  PROVE  Steady'
<1> USE DEF registry, index
<1>1. CASE ParseMark(w)
  <2> DEFINE r == [NoWork EXCEPT !.phase = "parse_run", !.source = current]
  <2>1. status' = Moved(w) /\ Become(w, r) /\ UNCHANGED <<current, artifacts, active, embedded>>
        /\ work[w].phase = "parse_mark"
    BY <1>1 DEF ParseMark
  <2>2. status' = "parsing"
    BY <2>1, AtWork DEF MovesKnown, Moved, Keep
  <2>3. r.phase = "parse_run" /\ r.source = current
    BY DEF NoWork
  <2> HIDE DEF r
  <2>4. IndexIsCurrent' /\ IndexedIsEmbedded'
    BY <2>1, <2>2 DEF Steady, IndexIsCurrent, IndexedIsEmbedded, ArtifactOfItsVersion
  <2>5. Carried'
    <3>1. Workers = {w} /\ work' = [work EXCEPT ![w] = r] /\ work \in [Workers -> Work]
      BY <2>1 DEF OneWorker, Become, Inductive, TypeOK
    <3>2. ASSUME NEW u \in Workers
          PROVE  MovesKnown(work[u])' /\ CuttingKnown(work[u])' /\ EmbeddingKnown(work[u])'
      BY <2>1, <2>2, <2>3, <3>1 DEF MovesKnown, CuttingKnown, EmbeddingKnown, Chunking, Embedding
    <3> QED BY <3>2 DEF Carried
  <2> QED BY <2>4, <2>5 DEF Steady
<1>2. CASE ParseSave(w)
  <2>1. /\ work[w].phase = "parse_save" /\ Done(w)
        /\ UNCHANGED <<current, active, embedded>>
        /\ status' = status \/ status' = Moved(w)
        /\ \/ artifacts' = artifacts
           \/ artifacts' = [artifacts EXCEPT ![current] =
                               [source |-> work[w].source, text |-> work[w].text]]
    BY <1>2 DEF ParseSave
  <2>2. status = "parsing" /\ work[w].source = current /\ work[w].move \notin Searchable
    BY <2>1, AtWork DEF MovesKnown
  <2>3. status' \notin Searchable
    BY <2>1, <2>2 DEF Moved, Searchable
  <2>4. ArtifactOfItsVersion'
    BY <2>1, <2>2 DEF Steady, IndexIsCurrent, ArtifactOfItsVersion, Inductive, TypeOK
  <2>5. IndexIsCurrent' /\ IndexedIsEmbedded'
    BY <2>3, <2>4 DEF IndexIsCurrent, IndexedIsEmbedded, Searchable
  <2> QED BY <2>1, <2>5, DoneCarried DEF Steady
<1>3. CASE Move(w)
  <2>1. /\ work[w].phase = "move" /\ Done(w) /\ status' = Moved(w)
        /\ UNCHANGED <<current, artifacts, active, embedded>>
    BY <1>3 DEF Move
  <2>2. status' = status \/ status' \notin Searchable
    BY <2>1, AtWork DEF MovesKnown, Moved
  <2>3. IndexIsCurrent' /\ IndexedIsEmbedded'
    BY <2>1, <2>2 DEF Steady, IndexIsCurrent, IndexedIsEmbedded, ArtifactOfItsVersion,
                      Searchable, RowsOf
  <2> QED BY <2>1, <2>3, DoneCarried DEF Steady
<1> QED BY <1>1, <1>2, <1>3

\* What a chunking leaves active of the current version is what the current
\* canonical document is cut into.
LEMMA ChunkWrites ==
  ASSUME OneWorker, Inductive, Steady, NEW w \in Workers, ChunkSave(w)
  PROVE  Steady'
<1> DEFINE k   == work[w]
           cut == RowsOf(current, artifacts[current].text)
<1>1. /\ k.phase = "chunk_save" /\ Done(w) /\ status' = Moved(w)
      /\ active' = (active \ Stale(w)) \cup Fresh(w)
      /\ embedded' = embedded \ Stale(w)
      /\ UNCHANGED <<current, artifacts>>
  BY DEF ChunkSave, registry
<1>2. /\ k.source = current /\ k.text = artifacts[current].text
      /\ k.rows = Replaceable(current)
      /\ \/ k.move = "chunk_ready"
         \/ k.move = Keep /\ status = "chunk_ready"
         \/ k.move = Keep /\ Unchanged(k)
  BY <1>1, AtWork DEF CuttingKnown, Chunking
<1>3. Fresh(w) = cut \ Replaceable(current) /\ Stale(w) = Replaceable(current) \ cut
  BY <1>2 DEF Fresh, Stale
<1>4. \A r \in cut : r.source = current
  BY DEF RowsOf
<1> HIDE DEF cut
<1>5. {r \in active' : r.source = current} = cut
  BY <1>1, <1>3, <1>4 DEF Replaceable
<1>6. cut' = cut
  BY <1>1 DEF cut, RowsOf
<1>7. IndexIsCurrent'
  BY <1>1, <1>5, <1>6 DEF Steady, IndexIsCurrent, ArtifactOfItsVersion, cut
<1>8. IndexedIsEmbedded'
  <2>1. CASE k.move = "chunk_ready" \/ (k.move = Keep /\ status = "chunk_ready")
    BY <1>1, <2>1 DEF Moved, Keep, IndexedIsEmbedded
  <2>2. CASE k.move = Keep /\ Unchanged(k)
    <3>1. Fresh(w) = {} /\ Stale(w) = {}
      BY <2>2 DEF Unchanged, Fresh, Stale
    <3> QED BY <1>1, <2>2, <3>1 DEF Moved, Steady, IndexedIsEmbedded
  <2> QED BY <1>2, <2>1, <2>2
<1> QED BY <1>1, <1>7, <1>8, DoneCarried DEF Steady

\* An embedding covers every active chunk, a deactivation and a new version
\* leave a status that is not searchable.
LEMMA OtherWrites ==
  ASSUME OneWorker, Inductive, Steady, NEW w \in Workers,
         EmbedSave(w) \/ DeactivateSave(w) \/ UploadSave(w)
  PROVE  Steady'
<1> USE DEF registry
<1>1. CASE EmbedSave(w)
  <2>1. /\ work[w].phase = "embed_save" /\ Done(w) /\ status' = Moved(w)
        /\ embedded' = embedded \cup work[w].rows
        /\ UNCHANGED <<current, artifacts, active>>
    BY <1>1 DEF EmbedSave
  <2>2. status \in Searchable /\ work[w].rows = active \ embedded
    BY <2>1, AtWork DEF EmbeddingKnown, Embedding, Pending
  <2>3. IndexIsCurrent' /\ IndexedIsEmbedded'
    BY <2>1, <2>2 DEF Steady, IndexIsCurrent, IndexedIsEmbedded, ArtifactOfItsVersion,
                      Searchable, RowsOf
  <2> QED BY <2>1, <2>3, DoneCarried DEF Steady
<1>2. CASE DeactivateSave(w)
  <2>1. /\ work[w].phase = "deactivate_save" /\ Done(w) /\ status' = Moved(w)
        /\ UNCHANGED <<current, artifacts>>
    BY <1>2 DEF DeactivateSave
  <2>2. status' = "deactivated"
    BY <2>1, AtWork DEF MovesKnown, Moved, Keep
  <2>3. IndexIsCurrent' /\ IndexedIsEmbedded'
    BY <2>1, <2>2 DEF Steady, IndexIsCurrent, IndexedIsEmbedded, ArtifactOfItsVersion
  <2> QED BY <2>1, <2>3, DoneCarried DEF Steady
<1>3. CASE UploadSave(w)
  <2>1. /\ Done(w) /\ UNCHANGED <<artifacts, active, embedded>>
        /\ (UNCHANGED <<current, status>> \/ status' = "uploaded")
    BY <1>3 DEF UploadSave, index
  <2>2. IndexIsCurrent' /\ IndexedIsEmbedded'
    BY <2>1 DEF Steady, IndexIsCurrent, IndexedIsEmbedded, ArtifactOfItsVersion, RowsOf
  <2> QED BY <2>1, <2>2, DoneCarried DEF Steady
<1> QED BY <1>1, <1>2, <1>3

\* The invariant of one worker is inductive relative to that of the pipeline.
LEMMA SteadyStep == OneWorker /\ Inductive /\ Steady /\ [Next]_vars => Steady'
<1> SUFFICES ASSUME OneWorker, Inductive, Steady, [Next]_vars PROVE Steady'
  OBVIOUS
<1>1. CASE UNCHANGED vars
  BY <1>1 DEF vars, Steady, IndexIsCurrent, IndexedIsEmbedded, ArtifactOfItsVersion, RowsOf,
              Carried, MovesKnown, CuttingKnown, EmbeddingKnown, Replaceable, Unchanged, Pending
<1>2. ASSUME NEW w \in Workers, Command(w) PROVE Steady'
  BY <1>2, ParsingSteady, ChunkingSteady, EmbeddingSteady, OpeningSteady DEF Command
<1>3. ASSUME NEW w \in Workers, Step(w) PROVE Steady'
  BY <1>3, ParsingSteady, ChunkingSteady, EmbeddingSteady, OpeningSteady, ParseWrites,
     ChunkWrites, OtherWrites DEF Step
<1>4. ASSUME NEW w \in Workers, Mishap(w) PROVE Steady'
  BY <1>4, ParsingSteady, EmbeddingSteady, OpeningSteady DEF Mishap
<1> QED BY <1>1, <1>2, <1>3, <1>4 DEF Next

\* It holds of the freshly uploaded document.
LEMMA SteadyInit == Init => Steady
<1> SUFFICES ASSUME Init PROVE Steady
  OBVIOUS
<1>1. ArtifactOfItsVersion /\ status = "uploaded"
  BY DEF Init, ArtifactOfItsVersion
<1>2. \A w \in Workers : work[w] = NoWork
  BY DEF Init
<1>3. Carried
  BY <1>2, NothingCarried DEF Carried
<1> QED BY <1>1, <1>3 DEF Steady, IndexIsCurrent, IndexedIsEmbedded
-----------------------------------------------------------------------------
(* Theorems.                                                               *)

\* With one worker, what may be searched of the current version is its
\* latest canonical document, whole, parsed from its own file.
THEOREM IndexStaysCurrent ==
  ASSUME OneWorker
  PROVE  Spec => []IndexIsCurrent
<1>1. Init => Steady
  BY SteadyInit
<1>2. Inductive /\ Steady /\ [Next]_vars => Steady'
  BY SteadyStep
<1>3. Steady => IndexIsCurrent
  BY DEF Steady
<1> QED BY <1>1, <1>2, <1>3, InvariantHolds, PTL DEF Spec

\* With one worker, "indexed" says that every active chunk has its
\* embedding, the chunks of earlier versions included.
THEOREM IndexStaysEmbedded ==
  ASSUME OneWorker
  PROVE  Spec => []IndexedIsEmbedded
<1>1. Init => Steady
  BY SteadyInit
<1>2. Inductive /\ Steady /\ [Next]_vars => Steady'
  BY SteadyStep
<1>3. Steady => IndexedIsEmbedded
  BY DEF Steady
<1> QED BY <1>1, <1>2, <1>3, InvariantHolds, PTL DEF Spec
=============================================================================
