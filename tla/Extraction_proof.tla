--------------------------- MODULE Extraction_proof ---------------------------
(***************************************************************************)
(* Proofs about what becomes of a PDF, for any tokens, marks, PDFs, flaws, *)
(* chains of adapters, tokenizers and limits: no chunk is too long, and a  *)
(* group is refused only for a part that has grown in decoding; what the   *)
(* gate has compared reaches the index but for what splitting may lose;    *)
(* and a proviso is never cited without what it qualifies.                 *)
(***************************************************************************)
EXTENDS Extraction, SequenceTheorems, WellFoundedInduction, TLAPS

-----------------------------------------------------------------------------
(* What is built step by step.                                             *)

\* A set of numbers has a first one.
LEMMA FirstOne ==
  ASSUME NEW S \in SUBSET Nat, S # {}
  PROVE  \E n \in S : \A m \in S : n <= m
<1> DEFINE R == OpToRel(<, Nat)
<1>1. \E n \in S : \A m \in S : <<m, n>> \notin R
  <2>1. IsWellFoundedOn(R, Nat)
    BY NatLessThanWellFounded
  <2> HIDE DEF R
  <2> QED BY <2>1, WFMin
<1>2. PICK n \in S : \A m \in S : <<m, n>> \notin R
  BY <1>1
<1>3. \A m \in S : n <= m
  <2> SUFFICES ASSUME NEW m \in S PROVE n <= m
    OBVIOUS
  <2>1. n \in Nat /\ m \in Nat /\ ~(m < n)
    BY <1>2 DEF OpToRel
  <2> QED BY <2>1
<1> QED BY <1>3

\* What is built in N steps exists.
Built(h, N, V, base, step) ==
  /\ h \in [0..N -> V]
  /\ h[0] = base
  /\ \A n \in 1..N : h[n] = step[n][h[n - 1]]

\* Whatever the steps are: of those that could not be taken one would be the first.
LEMMA StepsExist ==
  ASSUME NEW N \in Nat, NEW V, NEW base \in V, NEW step \in [1..N -> [V -> V]]
  PROVE  \E h : Built(h, N, V, base, step)
<1> DEFINE bad == {n \in 0..N : ~ \E h : Built(h, n, V, base, step)}
<1> SUFFICES ASSUME bad # {} PROVE FALSE
  OBVIOUS
<1>1. PICK n \in bad : \A m \in bad : n <= m
  <2>1. bad \in SUBSET Nat
    OBVIOUS
  <2> HIDE DEF bad
  <2> QED BY <2>1, FirstOne
<1>2. n \in 0..N /\ ~ \E h : Built(h, n, V, base, step)
  BY <1>1
<1>3. CASE n = 0
  <2> DEFINE h == [m \in 0..0 |-> base]
  <2>1. Built(h, 0, V, base, step)
    BY DEF Built
  <2> QED BY <1>2, <1>3, <2>1
<1>4. CASE n # 0
  <2>1. n - 1 \in 0..N /\ n - 1 \notin bad
    <3> HIDE DEF bad
    <3> QED BY <1>1, <1>2, <1>4
  <2>2. PICK h : Built(h, n - 1, V, base, step)
    BY <2>1
  <2>3. h \in [0..(n - 1) -> V] /\ h[0] = base /\ \A m \in 1..(n - 1) : h[m] = step[m][h[m - 1]]
    BY <2>2 DEF Built
  <2> DEFINE g == [m \in 0..n |-> IF m = n THEN step[n][h[n - 1]] ELSE h[m]]
  <2>4. step[n][h[n - 1]] \in V
    <3>1. n \in 1..N /\ h[n - 1] \in V
      BY <1>2, <1>4, <2>3
    <3> QED BY <3>1
  <2>5. g \in [0..n -> V] /\ g[0] = base
    BY <1>2, <1>4, <2>3, <2>4
  <2>6. \A m \in 1..n : g[m] = step[m][g[m - 1]]
    <3> TAKE m \in 1..n
    <3>1. m \in 0..n /\ m - 1 \in 0..n /\ m - 1 # n /\ (m # n => m \in 1..(n - 1))
      BY <1>2
    <3>2. g[m - 1] = h[m - 1]
      BY <3>1
    <3>3. g[m] = IF m = n THEN step[n][h[n - 1]] ELSE h[m]
      BY <3>1
    <3> HIDE DEF g
    <3> QED BY <2>3, <3>1, <3>2, <3>3
  <2> HIDE DEF g
  <2>7. Built(g, n, V, base, step)
    BY <2>5, <2>6 DEF Built
  <2> QED BY <1>2, <2>7
<1> QED BY <1>3, <1>4

\* What holds at first and is kept by every step holds of all N.
LEMMA StepByStep ==
  ASSUME NEW N \in Nat, NEW G \in SUBSET (0..N), 0 \in G,
         \A n \in 1..N : n - 1 \in G => n \in G
  PROVE  G = 0..N
<1> DEFINE bad == (0..N) \ G
<1> SUFFICES ASSUME bad # {} PROVE FALSE
  OBVIOUS
<1>1. PICK n \in bad : \A m \in bad : n <= m
  <2>1. bad \in SUBSET Nat
    OBVIOUS
  <2> HIDE DEF bad
  <2> QED BY <2>1, FirstOne
<1>2. n \in 0..N /\ n # 0 /\ n \notin G
  BY <1>1
<1>3. n \in 1..N /\ n - 1 \in 0..N /\ n - 1 \notin bad
  <2> HIDE DEF bad
  <2> QED BY <1>1, <1>2
<1> QED BY <1>2, <1>3
-----------------------------------------------------------------------------
(* Sequences that are thinned out and joined.                              *)

\* How Only sees a sequence, place by place.
Sieved(f, s, I) ==
  /\ f[0] = <<>>
  /\ \A n \in 1..Len(s) : f[n] = IF n \in I THEN Append(f[n - 1], s[n]) ELSE f[n - 1]
  /\ Only(s, I) = f[Len(s)]

\* Only goes through its sequence once.
LEMMA OnlyIs ==
  ASSUME NEW S, NEW s \in Seq(S), NEW I
  PROVE  \E f \in [0..Len(s) -> Seq(S)] : Sieved(f, s, I)
<1> DEFINE N == Len(s)
           Solves(f) == f = [n \in 0..N |->
                               IF n = 0 THEN <<>>
                               ELSE IF n \in I THEN Append(f[n - 1], s[n]) ELSE f[n - 1]]
           step == [n \in 1..N |-> [v \in Seq(S) |-> IF n \in I THEN Append(v, s[n]) ELSE v]]
           f == CHOOSE g : Solves(g)
<1>1. N \in Nat /\ <<>> \in Seq(S) /\ \A n \in 1..N : s[n] \in S
  BY LenProperties, EmptySeq
<1>2. step \in [1..N -> [Seq(S) -> Seq(S)]]
  BY <1>1, AppendProperties
<1>3. PICK h : Built(h, N, Seq(S), <<>>, step)
  <2> HIDE DEF step
  <2> QED BY <1>1, <1>2, StepsExist
<1>4. /\ h \in [0..N -> Seq(S)] /\ h[0] = <<>>
      /\ \A n \in 1..N : h[n - 1] \in Seq(S) /\ h[n] = step[n][h[n - 1]]
  <2>1. \A n \in 1..N : n - 1 \in 0..N
    BY <1>1
  <2> QED BY <1>3, <2>1 DEF Built
<1>5. \A n \in 1..N : h[n] = IF n \in I THEN Append(h[n - 1], s[n]) ELSE h[n - 1]
  BY <1>4
<1> HIDE DEF step
<1>6. Solves(h)
  <2>1. \A n \in 0..N : n # 0 => n \in 1..N
    BY <1>1
  <2>2. \A n \in 0..N : h[n] = IF n = 0 THEN <<>>
                               ELSE IF n \in I THEN Append(h[n - 1], s[n]) ELSE h[n - 1]
    BY <1>4, <1>5, <2>1
  <2> QED BY <1>4, <2>2
<1>7. Solves(f)
  <2> HIDE DEF Solves
  <2> QED BY <1>6
<1>8. Only(s, I) = f[N]
  BY DEF Only
<1> HIDE DEF f
<1>9. f[0] = <<>> /\ \A n \in 1..N : f[n] = IF n \in I THEN Append(f[n - 1], s[n]) ELSE f[n - 1]
  <2>1. \A n \in 0..N : f[n] = IF n = 0 THEN <<>>
                               ELSE IF n \in I THEN Append(f[n - 1], s[n]) ELSE f[n - 1]
    BY <1>7
  <2>2. 0 \in 0..N /\ \A n \in 1..N : n \in 0..N /\ n # 0
    BY <1>1
  <2> QED BY <2>1, <2>2
<1>10. f \in [0..N -> Seq(S)]
  <2> DEFINE G == {n \in 0..N : f[n] \in Seq(S)}
  <2>1. 0 \in G
    <3>1. 0 \in 0..N
      BY <1>1
    <3> QED BY <1>1, <1>9, <3>1
  <2>2. ASSUME NEW n \in 1..N, n - 1 \in G PROVE n \in G
    <3>1. n \in 0..N /\ s[n] \in S /\ f[n - 1] \in Seq(S)
      BY <1>1, <2>2
    <3>2. Append(f[n - 1], s[n]) \in Seq(S)
      BY <3>1, AppendProperties
    <3> QED BY <1>9, <3>1, <3>2
  <2>3. G = 0..N
    <3>1. G \in SUBSET (0..N)
      OBVIOUS
    <3> HIDE DEF G
    <3> QED BY <1>1, <2>1, <2>2, <3>1, StepByStep
  <2>4. f = [n \in 0..N |-> f[n]]
    BY <1>7
  <2> QED BY <2>3, <2>4
<1> QED BY <1>8, <1>9, <1>10 DEF Sieved

\* Only keeps what stands at the places, and nothing else.
LEMMA OnlyElements ==
  ASSUME NEW S, NEW s \in Seq(S), NEW I
  PROVE  /\ Only(s, I) \in Seq(S)
         /\ ToSet(Only(s, I)) = {s[i] : i \in I \cap DOMAIN s}
<1>1. PICK f \in [0..Len(s) -> Seq(S)] : Sieved(f, s, I)
  BY OnlyIs
<1> DEFINE N == Len(s)
           G == {n \in 0..N : ToSet(f[n]) = {s[i] : i \in I \cap (1..n)}}
<1>2. N \in Nat /\ DOMAIN s = 1..N /\ \A n \in 1..N : s[n] \in S /\ n - 1 \in 0..N
  BY LenProperties
<1>3. 0 \in G
  BY <1>1, <1>2 DEF Sieved, ToSet
<1>4. ASSUME NEW n \in 1..N, n - 1 \in G PROVE n \in G
  <2>1. /\ f[n - 1] \in Seq(S) /\ ToSet(f[n - 1]) = {s[i] : i \in I \cap (1..(n - 1))}
        /\ f[n] = IF n \in I THEN Append(f[n - 1], s[n]) ELSE f[n - 1]
    BY <1>1, <1>2, <1>4 DEF Sieved
  <2>2. 1..n = (1..(n - 1)) \cup {n}
    BY <1>2
  <2>3. CASE n \in I
    <3>1. ToSet(f[n]) = ToSet(f[n - 1]) \cup {s[n]}
      <4> DEFINE t == f[n - 1]
                 u == Append(t, s[n])
      <4>1. /\ Len(t) \in Nat /\ DOMAIN t = 1..Len(t) /\ DOMAIN u = 1..(Len(t) + 1)
            /\ \A i \in 1..Len(t) : u[i] = t[i]
            /\ u[Len(t) + 1] = s[n]
        BY <1>2, <2>1, LenProperties, AppendProperties
      <4>2. 1..(Len(t) + 1) = (1..Len(t)) \cup {Len(t) + 1}
        BY <4>1
      <4> HIDE DEF t, u
      <4>3. ToSet(u) = ToSet(t) \cup {s[n]}
        BY <4>1, <4>2 DEF ToSet
      <4> QED BY <2>1, <2>3, <4>3 DEF t, u
    <3>2. ToSet(f[n]) = {s[i] : i \in I \cap (1..n)}
      BY <2>1, <2>2, <2>3, <3>1
    <3> QED BY <1>2, <3>2
  <2>4. CASE n \notin I
    BY <2>1, <2>2, <2>4
  <2> QED BY <2>3, <2>4
<1>5. G = 0..N
  <2>1. G \in SUBSET (0..N)
    OBVIOUS
  <2> HIDE DEF G
  <2> QED BY <1>2, <1>3, <1>4, <2>1, StepByStep
<1>6. N \in G
  <2>1. N \in 0..N
    BY <1>2
  <2> HIDE DEF G
  <2> QED BY <1>5, <2>1
<1> QED BY <1>1, <1>2, <1>6 DEF Sieved

\* How FlattenSeq sees a sequence of sequences.
Strung(f, seqs) ==
  /\ f[0] = <<>>
  /\ \A n \in 1..Len(seqs) : f[n] = f[n - 1] \o seqs[n]
  /\ FlattenSeq(seqs) = f[Len(seqs)]

\* FlattenSeq adds one sequence after the other.
LEMMA FlattenIs ==
  ASSUME NEW S, NEW seqs \in Seq(Seq(S))
  PROVE  \E f \in [0..Len(seqs) -> Seq(S)] : Strung(f, seqs)
<1> DEFINE N == Len(seqs)
           Solves(f) == f = [i \in 1..N |-> IF i = 1 THEN seqs[i] ELSE f[i - 1] \o seqs[i]]
           step == [n \in 1..N |-> [v \in Seq(S) |-> v \o seqs[n]]]
           f == CHOOSE g : Solves(g)
<1>1. N \in Nat /\ <<>> \in Seq(S) /\ \A n \in 1..N : seqs[n] \in Seq(S)
  BY LenProperties, EmptySeq
<1>2. step \in [1..N -> [Seq(S) -> Seq(S)]]
  BY <1>1, ConcatProperties
<1>3. PICK h : Built(h, N, Seq(S), <<>>, step)
  <2> HIDE DEF step
  <2> QED BY <1>1, <1>2, StepsExist
<1>4. /\ h \in [0..N -> Seq(S)] /\ h[0] = <<>>
      /\ \A n \in 1..N : h[n - 1] \in Seq(S) /\ h[n] = h[n - 1] \o seqs[n]
  <2>1. h \in [0..N -> Seq(S)] /\ h[0] = <<>> /\ \A n \in 1..N : h[n] = step[n][h[n - 1]]
    BY <1>3 DEF Built
  <2>2. \A n \in 1..N : n - 1 \in 0..N
    BY <1>1
  <2> QED BY <2>1, <2>2
<1> HIDE DEF step
<1>5. CASE N = 0
  <2>1. seqs = <<>>
    BY <1>5, EmptySeq
  <2>2. FlattenSeq(seqs) = <<>>
    BY <1>5, <2>1 DEF FlattenSeq
  <2> QED BY <1>4, <1>5, <2>2 DEF Strung
<1>6. CASE N # 0
  <2>1. /\ 1 \in 1..N /\ N \in 1..N
        /\ \A n \in 1..N : n - 1 \in 0..N /\ (n # 1 => n - 1 \in 1..N)
    BY <1>1, <1>6
  <2>2. h[1] = seqs[1]
    <3>1. h[1] = h[1 - 1] \o seqs[1]
      BY <1>4, <2>1
    <3>2. <<>> \o seqs[1] = seqs[1]
      BY <1>1, <2>1, ConcatEmptySeq
    <3> QED BY <1>4, <3>1, <3>2
  <2> DEFINE g == [i \in 1..N |-> h[i]]
  <2>3. Solves(g)
    <3>1. \A i \in 1..N : g[i] = IF i = 1 THEN seqs[i] ELSE g[i - 1] \o seqs[i]
      <4> TAKE i \in 1..N
      <4>1. CASE i = 1
        BY <2>2, <4>1
      <4>2. CASE i # 1
        <5>1. g[i] = h[i] /\ g[i - 1] = h[i - 1]
          BY <2>1, <4>2
        <5> HIDE DEF g
        <5> QED BY <1>4, <4>2, <5>1
      <4> QED BY <4>1, <4>2
    <3> QED BY <3>1
  <2> HIDE DEF g
  <2>4. Solves(f)
    <3> HIDE DEF Solves
    <3> QED BY <2>3
  <2>5. FlattenSeq(seqs) = f[N]
    BY <1>6 DEF FlattenSeq
  <2> HIDE DEF f
  <2>6. \A i \in 1..N : f[i] = IF i = 1 THEN seqs[i] ELSE f[i - 1] \o seqs[i]
    BY <2>4
  <2> DEFINE G == {n \in 0..N : n # 0 => f[n] = h[n]}
  <2>7. 0 \in G
    BY <1>1
  <2>8. ASSUME NEW n \in 1..N, n - 1 \in G PROVE n \in G
    <3>1. n \in 0..N
      BY <1>1
    <3>2. CASE n = 1
      BY <2>1, <2>2, <2>6, <3>1, <3>2
    <3>3. CASE n # 1
      <4>1. f[n - 1] = h[n - 1]
        BY <2>1, <2>8, <3>3
      <4>2. f[n] = f[n - 1] \o seqs[n]
        BY <2>6, <3>3
      <4>3. h[n] = h[n - 1] \o seqs[n]
        BY <1>4
      <4> QED BY <3>1, <4>1, <4>2, <4>3
    <3> QED BY <3>2, <3>3
  <2>9. G = 0..N
    <3>1. G \in SUBSET (0..N)
      OBVIOUS
    <3> HIDE DEF G
    <3> QED BY <1>1, <2>7, <2>8, <3>1, StepByStep
  <2>10. f[N] = h[N]
    <3>1. N \in G
      <4> HIDE DEF G
      <4> QED BY <2>1, <2>9, <1>1
    <3> QED BY <1>6, <3>1
  <2> QED BY <1>4, <2>5, <2>10 DEF Strung
<1> QED BY <1>5, <1>6

\* What a sequence holds, by its places.
LEMMA Holds ==
  ASSUME NEW S, NEW s \in Seq(S)
  PROVE  /\ Len(s) \in Nat /\ DOMAIN s = 1..Len(s)
         /\ \A i \in 1..Len(s) : s[i] \in S
         /\ ToSet(s) = {s[i] : i \in 1..Len(s)} /\ ToSet(s) \subseteq S
         /\ s = <<>> <=> Len(s) = 0
         /\ s = <<>> <=> ToSet(s) = {}
<1>1. Len(s) \in Nat /\ DOMAIN s = 1..Len(s) /\ \A i \in 1..Len(s) : s[i] \in S
  BY LenProperties
<1>2. s = <<>> <=> Len(s) = 0
  BY EmptySeq
<1>3. Len(s) # 0 => 1 \in 1..Len(s)
  BY <1>1
<1>4. Len(s) = 0 => 1..Len(s) = {}
  BY <1>1
<1> QED BY <1>1, <1>2, <1>3, <1>4 DEF ToSet

\* Two sequences joined hold what both hold.
LEMMA ConcatHolds ==
  ASSUME NEW S, NEW s \in Seq(S), NEW t \in Seq(S)
  PROVE  s \o t \in Seq(S) /\ ToSet(s \o t) = ToSet(s) \cup ToSet(t)
<1> DEFINE u == s \o t
<1>1. /\ u \in Seq(S) /\ Len(u) = Len(s) + Len(t) /\ Len(s) \in Nat /\ Len(t) \in Nat
      /\ \A i \in 1..Len(u) : u[i] = IF i <= Len(s) THEN s[i] ELSE t[i - Len(s)]
  BY ConcatProperties, LenProperties
<1> HIDE DEF u
<1>2. /\ ToSet(u) = {u[i] : i \in 1..Len(u)} /\ ToSet(s) = {s[i] : i \in 1..Len(s)}
      /\ ToSet(t) = {t[i] : i \in 1..Len(t)}
  BY <1>1, Holds
<1>3. \A x \in ToSet(u) : x \in ToSet(s) \cup ToSet(t)
  <2> TAKE x \in ToSet(u)
  <2>1. PICK i \in 1..Len(u) : x = u[i]
    BY <1>2
  <2>2. IF i <= Len(s) THEN i \in 1..Len(s) ELSE i - Len(s) \in 1..Len(t)
    BY <1>1
  <2> QED BY <1>1, <1>2, <2>1, <2>2
<1>4. \A x \in ToSet(s) : x \in ToSet(u)
  <2> TAKE x \in ToSet(s)
  <2>1. PICK i \in 1..Len(s) : x = s[i]
    BY <1>2
  <2>2. i \in 1..Len(u) /\ i <= Len(s)
    BY <1>1
  <2> QED BY <1>1, <1>2, <2>1, <2>2
<1>5. \A x \in ToSet(t) : x \in ToSet(u)
  <2> TAKE x \in ToSet(t)
  <2>1. PICK i \in 1..Len(t) : x = t[i]
    BY <1>2
  <2>2. i + Len(s) \in 1..Len(u) /\ ~(i + Len(s) <= Len(s)) /\ (i + Len(s)) - Len(s) = i
    BY <1>1
  <2> QED BY <1>1, <1>2, <2>1, <2>2
<1> QED BY <1>1, <1>3, <1>4, <1>5 DEF u

\* A longer sequence holds the new element, and what it held.
LEMMA AppendHolds ==
  ASSUME NEW S, NEW s \in Seq(S), NEW e \in S
  PROVE  /\ Append(s, e) \in Seq(S) /\ ToSet(Append(s, e)) = ToSet(s) \cup {e}
         /\ Append(s, e) # <<>> /\ Last(Append(s, e)) = e
<1>1. <<e>> \in Seq(S) /\ Len(<<e>>) = 1 /\ <<e>>[1] = e
  OBVIOUS
<1>2. ToSet(<<e>>) = {e}
  <2>1. ToSet(<<e>>) = {<<e>>[i] : i \in 1..1}
    BY <1>1, Holds
  <2> QED BY <1>1, <2>1
<1>3. Append(s, e) = s \o <<e>>
  BY AppendIsConcat
<1>4. Len(Append(s, e)) = Len(s) + 1 /\ Append(s, e)[Len(s) + 1] = e /\ Append(s, e) # <<>>
      /\ Append(s, e) \in Seq(S)
  BY AppendProperties
<1>5. Last(Append(s, e)) = e
  BY <1>4 DEF Last
<1>6. ToSet(s \o <<e>>) = ToSet(s) \cup ToSet(<<e>>)
  BY <1>1, ConcatHolds
<1> QED BY <1>2, <1>3, <1>4, <1>5, <1>6

\* FlattenSeq loses nothing and adds nothing.
LEMMA FlattenElements ==
  ASSUME NEW S, NEW seqs \in Seq(Seq(S))
  PROVE  /\ FlattenSeq(seqs) \in Seq(S)
         /\ ToSet(FlattenSeq(seqs)) = UNION {ToSet(seqs[i]) : i \in DOMAIN seqs}
<1>1. PICK f \in [0..Len(seqs) -> Seq(S)] : Strung(f, seqs)
  BY FlattenIs
<1> DEFINE N == Len(seqs)
           G == {n \in 0..N : ToSet(f[n]) = UNION {ToSet(seqs[i]) : i \in 1..n}}
<1>2. N \in Nat /\ DOMAIN seqs = 1..N /\ \A n \in 1..N : seqs[n] \in Seq(S) /\ n - 1 \in 0..N
  BY LenProperties
<1>3. 0 \in G
  <2>1. ToSet(f[0]) = {}
    BY <1>1 DEF Strung, ToSet
  <2> QED BY <1>2, <2>1
<1>4. ASSUME NEW n \in 1..N, n - 1 \in G PROVE n \in G
  <2> DEFINE U(m) == UNION {ToSet(seqs[i]) : i \in 1..m}
  <2>1. /\ f[n - 1] \in Seq(S) /\ f[n] = f[n - 1] \o seqs[n] /\ n \in 0..N
        /\ ToSet(f[n - 1]) = U(n - 1)
    <3>1. f[n] = f[n - 1] \o seqs[n]
      BY <1>1 DEF Strung
    <3>2. n \in 0..N /\ f[n - 1] \in Seq(S)
      BY <1>2
    <3>3. ToSet(f[n - 1]) = U(n - 1)
      BY <1>4
    <3> QED BY <3>1, <3>2, <3>3
  <2>2. 1..n = (1..(n - 1)) \cup {n}
    BY <1>2
  <2>3. ToSet(f[n]) = ToSet(f[n - 1]) \cup ToSet(seqs[n])
    BY <1>2, <2>1, ConcatHolds
  <2>4. U(n) = U(n - 1) \cup ToSet(seqs[n])
    BY <2>2
  <2>5. ToSet(f[n]) = U(n)
    <3> HIDE DEF U
    <3> QED BY <2>1, <2>3, <2>4
  <2> QED BY <2>1, <2>5
<1>5. G = 0..N
  <2>1. G \in SUBSET (0..N)
    OBVIOUS
  <2> HIDE DEF G
  <2> QED BY <1>2, <1>3, <1>4, <2>1, StepByStep
<1>6. N \in G
  <2>1. N \in 0..N
    BY <1>2
  <2> HIDE DEF G
  <2> QED BY <1>5, <2>1
<1>7. FlattenSeq(seqs) = f[N] /\ f[N] \in Seq(S)
  <2>1. N \in 0..N
    BY <1>2
  <2> QED BY <1>1, <2>1 DEF Strung
<1> QED BY <1>2, <1>6, <1>7
-----------------------------------------------------------------------------
(* Units that fit.                                                         *)

Token == DOMAIN Marks
Text == Seq(Token)
Levels == {None} \cup 1..6

\* The provers do not know that these are strings.
Kind == STRING \cup {"heading", "paragraph", "other"}

BlockSet ==
  [id : Nat, kind : Kind, text : Text, page : Nat, boxed : BOOLEAN, level : Levels,
   sized : BOOLEAN, score : Int]

Unit == [text : Text, kind : Kind, path : Seq(Text), blocks : Seq(BlockSet) \ {<<>>}]

Fits(unit) == Count(UnitText(unit)) <= Maximum

\* Division by a positive number: how often it goes in, and no more.
LEMMA DivBounds ==
  ASSUME NEW a \in Nat, NEW s \in Nat, s > 0
  PROVE  /\ a \div s \in Nat
         /\ (a \div s) * s <= a /\ a < (a \div s) * s + s
<1>1. /\ a \div s \in Int /\ a % s \in 0..(s - 1)
      /\ a = s * (a \div s) + (a % s)
  OBVIOUS
<1> DEFINE q == a \div s
           r == a % s
<1>2. q \in Int /\ r \in Int /\ 0 <= r /\ r < s /\ a = s * q + r
  BY <1>1
<1> HIDE DEF q, r
<1>3. s * q = q * s
  BY <1>2
<1>4. q * s <= a /\ a < q * s + s
  BY <1>2, <1>3
<1>5. q >= 0
  <2> SUFFICES ASSUME q < 0 PROVE FALSE
    BY <1>2
  <2>1. q + 1 <= 0
    BY <1>2
  <2>2. (q + 1) * s <= 0
    BY <1>2, <2>1
  <2>3. (q + 1) * s = q * s + s
    BY <1>2
  <2> QED BY <1>2, <1>4, <2>2, <2>3
<1> QED BY <1>2, <1>4, <1>5 DEF q

\* What is larger goes in at least as often.
LEMMA DivGrows ==
  ASSUME NEW a \in Nat, NEW b \in Nat, a <= b, NEW s \in Nat, s > 0
  PROVE  a \div s <= b \div s
<1> DEFINE p == a \div s
           q == b \div s
<1>1. p \in Nat /\ q \in Nat /\ p * s <= a /\ b < q * s + s
  BY DivBounds
<1> HIDE DEF p, q
<1>2. SUFFICES ASSUME q < p PROVE FALSE
  BY <1>1 DEF p, q
<1>3. q + 1 <= p
  BY <1>1, <1>2
<1>4. (q + 1) * s <= p * s
  BY <1>1, <1>3
<1>5. (q + 1) * s = q * s + s
  BY <1>1
<1> QED BY <1>1, <1>4, <1>5

\* Nothing goes into a part of a step less than nothing times.
LEMMA DivNone ==
  ASSUME NEW s \in Nat, s > 0
  PROVE  (-1) \div s = -1
<1> DEFINE q == (-1) \div s
           r == (-1) % s
<1>1. q \in Int /\ r \in 0..(s - 1) /\ -1 = s * q + r
  OBVIOUS
<1> HIDE DEF q, r
<1>2. r \in Int /\ 0 <= r /\ r < s /\ s * q = -1 - r
  BY <1>1
<1>3. ~(q >= 0)
  <2> SUFFICES ASSUME q >= 0 PROVE FALSE
    OBVIOUS
  <2>1. s * q >= 0
    BY <1>1
  <2> QED BY <1>2, <2>1
<1>4. ~(q <= -2)
  <2> SUFFICES ASSUME q <= -2 PROVE FALSE
    OBVIOUS
  <2>1. s * (q + 1) <= s * (-1)
    BY <1>1
  <2>2. s * (q + 1) = s * q + s /\ s * (-1) = -s
    BY <1>1
  <2> QED BY <1>2, <2>1, <2>2
<1>5. q = -1
  BY <1>1, <1>3, <1>4
<1> QED BY <1>5 DEF q

\* The tokens of a text, counted word by word.
LEMMA TokensAre ==
  ASSUME NEW text \in Text
  PROVE  /\ Tokens(text) \in [0..Len(text) -> Nat] /\ Tokens(text)[0] = 0
         /\ \A n \in 1..Len(text) :
              /\ Pieces[text[n]] \in Nat
              /\ Tokens(text)[n] = Tokens(text)[n - 1] + Pieces[text[n]]
         /\ \A n \in 0..Len(text) : Tokens(text)[n] <= Tokens(text)[Len(text)]
         /\ Count(text) \in Nat
<1> DEFINE N == Len(text)
           Solves(f) == f = [n \in 0..N |-> IF n = 0 THEN 0
                                            ELSE f[n - 1] + Pieces[text[n]]]
           step == [n \in 1..N |-> [v \in Nat |-> v + Pieces[text[n]]]]
           f == CHOOSE g : Solves(g)
<1>1. N \in Nat /\ \A n \in 1..N : Pieces[text[n]] \in Nat
  <2>1. N \in Nat /\ \A n \in 1..N : text[n] \in DOMAIN Marks
    BY Holds DEF Text, Token
  <2> QED BY <2>1, TokenizerBounds
<1>2. step \in [1..N -> [Nat -> Nat]]
  BY <1>1
<1>3. PICK h : Built(h, N, Nat, 0, step)
  <2> HIDE DEF step
  <2>1. 0 \in Nat
    OBVIOUS
  <2> QED BY <1>1, <1>2, <2>1, StepsExist
<1>4. /\ h \in [0..N -> Nat] /\ h[0] = 0
      /\ \A n \in 1..N : n - 1 \in 0..N /\ h[n] = h[n - 1] + Pieces[text[n]]
  <2>1. h \in [0..N -> Nat] /\ h[0] = 0 /\ \A n \in 1..N : h[n] = step[n][h[n - 1]]
    BY <1>3 DEF Built
  <2>2. \A n \in 1..N : n - 1 \in 0..N
    BY <1>1
  <2> QED BY <2>1, <2>2
<1> HIDE DEF step
<1>5. Solves(h)
  <2>1. \A n \in 0..N : h[n] = IF n = 0 THEN 0 ELSE h[n - 1] + Pieces[text[n]]
    <3> TAKE n \in 0..N
    <3>1. n # 0 => n \in 1..N
      BY <1>1
    <3> QED BY <1>4, <3>1
  <2> QED BY <1>4, <2>1
<1>6. Solves(f)
  <2> HIDE DEF Solves
  <2> QED BY <1>5
<1>7. Tokens(text) = f
  BY DEF Tokens
<1> HIDE DEF f
<1>8. /\ f[0] = 0 /\ DOMAIN f = 0..N /\ f = [n \in 0..N |-> f[n]]
      /\ \A n \in 1..N : f[n] = f[n - 1] + Pieces[text[n]]
  <2>1. \A n \in 0..N : f[n] = IF n = 0 THEN 0 ELSE f[n - 1] + Pieces[text[n]]
    BY <1>6
  <2>2. 0 \in 0..N /\ \A n \in 1..N : n \in 0..N /\ n # 0
    BY <1>1
  <2>3. DOMAIN f = 0..N /\ f = [n \in 0..N |-> f[n]]
    BY <1>6
  <2> QED BY <2>1, <2>2, <2>3
<1> DEFINE G == {n \in 0..N : f[n] \in Nat /\ \A m \in 0..n : f[m] \in Nat /\ f[m] <= f[n]}
<1>9. 0 \in G
  BY <1>1, <1>8
<1>10. ASSUME NEW n \in 1..N, n - 1 \in G PROVE n \in G
  <2>1. /\ f[n - 1] \in Nat /\ n \in 0..N
        /\ \A m \in 0..(n - 1) : f[m] \in Nat /\ f[m] <= f[n - 1]
    BY <1>1, <1>10
  <2>2. f[n] \in Nat /\ f[n - 1] <= f[n]
    <3>1. f[n] = f[n - 1] + Pieces[text[n]] /\ Pieces[text[n]] \in Nat
      BY <1>1, <1>8
    <3> QED BY <2>1, <3>1
  <2>3. ASSUME NEW m \in 0..n PROVE f[m] \in Nat /\ f[m] <= f[n]
    <3>1. CASE m = n
      BY <2>2, <3>1
    <3>2. CASE m # n
      <4>1. m \in 0..(n - 1)
        BY <1>1, <3>2
      <4>2. f[m] \in Nat /\ f[m] <= f[n - 1]
        BY <2>1, <4>1
      <4> QED BY <2>1, <2>2, <4>2
    <3> QED BY <3>1, <3>2
  <2> QED BY <2>1, <2>2, <2>3
<1>11. N \in G
  <2>1. G \in SUBSET (0..N)
    OBVIOUS
  <2> HIDE DEF G
  <2>2. G = 0..N
    BY <1>1, <1>9, <1>10, <2>1, StepByStep
  <2> QED BY <1>1, <2>2
<1>12. \A m \in 0..N : f[m] \in Nat /\ f[m] <= f[N]
  BY <1>11
<1>13. f \in [0..N -> Nat]
  BY <1>8, <1>12
<1>14. Count(text) \in Nat
  <2>1. f[N] \in Nat
    BY <1>1, <1>12
  <2> QED BY <1>7, <2>1 DEF Count
<1>15. /\ f \in [0..N -> Nat] /\ f[0] = 0
       /\ \A n \in 1..N : Pieces[text[n]] \in Nat /\ f[n] = f[n - 1] + Pieces[text[n]]
  BY <1>1, <1>8, <1>13
<1>16. \A n \in 0..N : f[n] <= f[N]
  BY <1>12
<1> QED BY <1>7, <1>14, <1>15, <1>16

\* What is left of a word is text, and all of it where the window has all
\* its tokens and decoding gives it back.
LEMMA LeftTyped ==
  ASSUME NEW text \in Text, NEW i \in 1..Len(text), NEW start \in Nat, NEW maximum \in Nat
  PROVE  /\ Left(text, i, start, maximum) \in Text
         /\ /\ start <= Tokens(text)[i - 1] /\ Tokens(text)[i] <= start + maximum
            /\ Pieces[text[i]] > 0 /\ Decoded[text[i]][<<1, Pieces[text[i]]>>] = <<text[i]>>
            => Left(text, i, start, maximum) = <<text[i]>>
<1> DEFINE before == Tokens(text)[i - 1]
           pieces == Pieces[text[i]]
           from == IF start > before THEN start - before + 1 ELSE 1
           to == Least(pieces, start + maximum - before)
<1>1. /\ text[i] \in DOMAIN Marks /\ before \in Nat /\ pieces \in Nat
      /\ Tokens(text)[i] = before + pieces
  <2>1. i - 1 \in 0..Len(text) /\ text[i] \in DOMAIN Marks
    BY Holds DEF Text, Token
  <2> QED BY <2>1, TokensAre
<1>2. Left(text, i, start, maximum) = IF from <= to THEN Decoded[text[i]][<<from, to>>] ELSE <<>>
  BY DEF Left
<1> HIDE DEF before, pieces
<1>3. from \in Int /\ from >= 1 /\ to \in Int /\ to <= pieces
  BY <1>1 DEF Least
<1>4. Left(text, i, start, maximum) \in Text
  <2>1. CASE from <= to
    <3>1. from \in 1..pieces /\ to \in 1..pieces
      BY <1>1, <1>3, <2>1
    <3> HIDE DEF from, to
    <3>2. Decoded[text[i]][<<from, to>>] \in Seq(DOMAIN Marks)
      BY <1>1, <3>1, TokenizerBounds DEF pieces
    <3> QED BY <1>2, <2>1, <3>2 DEF Text, Token
  <2>2. CASE ~(from <= to)
    <3>1. <<>> \in Text
      BY DEF Text
    <3> QED BY <1>2, <2>2, <3>1
  <2> QED BY <2>1, <2>2
<1>5. ASSUME start <= before, Tokens(text)[i] <= start + maximum, pieces > 0,
             Decoded[text[i]][<<1, pieces>>] = <<text[i]>>
      PROVE  Left(text, i, start, maximum) = <<text[i]>>
  <2>1. from = 1 /\ to = pieces /\ from <= to
    BY <1>1, <1>5 DEF Least
  <2> HIDE DEF from, to
  <2> QED BY <1>2, <1>5, <2>1
<1> QED BY <1>4, <1>5 DEF before, pieces

\* The windows of a text are text, and what has no more tokens than two
\* windows share and one more, and is what they decode to, is in one of them.
LEMMA SplitCovers ==
  ASSUME NEW text \in Text, NEW maximum \in Nat, NEW overlap \in Nat, overlap < maximum
  PROVE  /\ Split(text, maximum, overlap) \in Seq(Text)
         /\ \A t \in ToSet(text) :
              /\ Pieces[t] \in 1..(overlap + 1) /\ Decoded[t][<<1, Pieces[t]>>] = <<t>>
              => \E n \in DOMAIN Split(text, maximum, overlap) :
                   t \in ToSet(Split(text, maximum, overlap)[n])
<1> DEFINE step == maximum - overlap
           ends == Tokens(text)
           total == ends[Len(text)]
           last == (total - 1) \div step + 1
           left(n) == [i \in DOMAIN text |-> Left(text, i, (n - 1) * step, maximum)]
           parts == Split(text, maximum, overlap)
<1>1. /\ step \in Nat /\ step > 0 /\ maximum = step + overlap
      /\ Len(text) \in Nat /\ DOMAIN text = 1..Len(text)
      /\ ToSet(text) = {text[k] : k \in 1..Len(text)}
  BY Holds DEF Text
<1>2. /\ ends \in [0..Len(text) -> Nat] /\ total \in Nat
      /\ \A i \in 1..Len(text) : /\ ends[i - 1] \in Nat /\ ends[i] = ends[i - 1] + Pieces[text[i]]
                               /\ Pieces[text[i]] \in Nat /\ ends[i] <= total
  <2>1. \A i \in 1..Len(text) : i \in 0..Len(text) /\ i - 1 \in 0..Len(text)
    BY <1>1
  <2>2. Len(text) \in 0..Len(text)
    BY <1>1
  <2> QED BY <2>1, <2>2, TokensAre
<1>3. parts = [n \in 1..last |-> FlattenSeq(left(n))]
  BY DEF Split, Windows
<1> HIDE DEF ends, total
<1>4. last \in Nat /\ (total - 1) \div step \in Int
  <2>1. CASE total = 0
    <3>1. (total - 1) \div step = -1
      <4>1. total - 1 = -1
        BY <2>1
      <4> QED BY <1>1, <4>1, DivNone
    <3> QED BY <3>1
  <2>2. CASE total # 0
    <3>1. total - 1 \in Nat
      BY <1>2, <2>2
    <3> HIDE DEF step
    <3>2. (total - 1) \div step \in Nat
      BY <1>1, <3>1, DivBounds
    <3> QED BY <3>2
  <2> QED BY <2>1, <2>2
<1>5. ASSUME NEW n \in 1..last
      PROVE  /\ (n - 1) * step \in Nat
             /\ left(n) \in Seq(Seq(Token)) /\ DOMAIN left(n) = 1..Len(text)
             /\ \A i \in 1..Len(text) : left(n)[i] = Left(text, i, (n - 1) * step, maximum)
             /\ FlattenSeq(left(n)) \in Text
             /\ ToSet(FlattenSeq(left(n))) = UNION {ToSet(left(n)[i]) : i \in 1..Len(text)}
  <2> DEFINE m == (n - 1) * step
             l == [i \in DOMAIN text |-> Left(text, i, m, maximum)]
  <2>1. m \in Nat
    <3>1. n - 1 \in Nat
      BY <1>4
    <3> HIDE DEF last, step
    <3> QED BY <1>1, <3>1
  <2> HIDE DEF m
  <2>2. \A i \in 1..Len(text) : Left(text, i, m, maximum) \in Seq(Token)
    BY <2>1, LeftTyped DEF Text
  <2>3. DOMAIN l = 1..Len(text) /\ \A i \in 1..Len(text) : l[i] = Left(text, i, m, maximum)
    BY <1>1
  <2>4. l \in Seq(Seq(Token))
    <3>1. l \in [1..Len(text) -> Seq(Token)]
      BY <1>1, <2>2
    <3> HIDE DEF l
    <3> QED BY <1>1, <3>1, SeqDef
  <2> HIDE DEF l
  <2>5. FlattenSeq(l) \in Seq(Token) /\ ToSet(FlattenSeq(l)) = UNION {ToSet(l[i]) : i \in DOMAIN l}
    BY <2>4, FlattenElements
  <2>6. left(n) = l
    BY DEF l, m
  <2> HIDE DEF left
  <2> QED BY <2>1, <2>3, <2>4, <2>5, <2>6 DEF m, Text
<1> HIDE DEF left
<1>6. parts \in Seq(Text) /\ DOMAIN parts = 1..last
      /\ \A n \in 1..last : parts[n] = FlattenSeq(left(n))
  <2> HIDE DEF last
  <2>1. DOMAIN parts = 1..last /\ \A n \in 1..last : parts[n] = FlattenSeq(left(n))
    BY <1>3
  <2>2. parts \in [1..last -> Text]
    BY <1>3, <1>5
  <2> HIDE DEF parts
  <2> QED BY <1>4, <2>1, <2>2, SeqDef
<1> HIDE DEF parts
<1>7. ASSUME NEW t \in ToSet(text), Pieces[t] \in 1..(overlap + 1),
             Decoded[t][<<1, Pieces[t]>>] = <<t>>
      PROVE  \E n \in 1..last : t \in ToSet(parts[n])
  <2>1. PICK i \in 1..Len(text) : t = text[i]
    BY <1>1
  <2> DEFINE a == ends[i - 1]
             q == a \div step
             m == q * step
  <2>2. /\ a \in Nat /\ ends[i] = a + Pieces[t] /\ Pieces[t] \in 1..(overlap + 1)
        /\ a + 1 <= total
    BY <1>2, <1>7, <2>1
  <2> HIDE DEF a
  <2>3. q \in Nat /\ q * step <= a /\ a < q * step + step /\ q <= (total - 1) \div step
    <3>1. total - 1 \in Nat /\ a <= total - 1
      BY <1>2, <2>2
    <3> HIDE DEF step
    <3> QED BY <1>1, <2>2, <3>1, DivBounds, DivGrows
  <2> HIDE DEF q
  <2>4. q + 1 \in 1..last /\ (q + 1) - 1 = q
    <3> DEFINE full == (total - 1) \div step
    <3>1. full \in Int /\ last = full + 1 /\ q <= full
      BY <1>4, <2>3
    <3> HIDE DEF full, last
    <3> QED BY <2>3, <3>1
  <2> HIDE DEF step, last
  <2>5. m \in Nat /\ m <= a /\ a < m + step
    BY <1>1, <2>3
  <2> HIDE DEF m
  <2>6. m <= ends[i - 1] /\ ends[i] <= m + maximum
    BY <1>1, <2>2, <2>5 DEF a
  <2>7. Left(text, i, m, maximum) = <<t>>
    <3>1. Pieces[text[i]] > 0
      <4>1. Pieces[t] > 0
        BY <2>2
      <4> QED BY <2>1, <4>1
    <3>2. Decoded[text[i]][<<1, Pieces[text[i]]>>] = <<text[i]>>
      BY <1>7, <2>1
    <3>3. Left(text, i, m, maximum) = <<text[i]>>
      BY <2>5, <2>6, <3>1, <3>2, LeftTyped DEF ends
    <3> QED BY <2>1, <3>3
  <2>8. left(q + 1)[i] = <<t>>
    <3>1. left(q + 1)[i] = Left(text, i, ((q + 1) - 1) * step, maximum)
      BY <1>5, <2>4
    <3>2. ((q + 1) - 1) * step = m
      BY <2>4 DEF m
    <3> QED BY <2>7, <3>1, <3>2
  <2>9. t \in ToSet(<<t>>)
    <3>1. <<t>> = [k \in {1} |-> t]
      BY DEF ToSet
    <3> QED BY DEF ToSet
  <2>10. t \in ToSet(FlattenSeq(left(q + 1)))
    <3>1. ToSet(FlattenSeq(left(q + 1))) = UNION {ToSet(left(q + 1)[k]) : k \in 1..Len(text)}
      BY <1>5, <2>4
    <3>2. t \in ToSet(left(q + 1)[i])
      BY <2>8, <2>9
    <3> QED BY <3>1, <3>2
  <2> QED BY <1>6, <2>4, <2>10
<1> QED BY <1>6, <1>7 DEF parts

\* The text of a unit, and its count.
LEMMA UnitTyped ==
  ASSUME NEW unit \in Unit
  PROVE  /\ FlattenSeq(unit.path) \in Text /\ UnitText(unit) \in Text
         /\ Count(FlattenSeq(unit.path)) \in Nat /\ Count(UnitText(unit)) \in Nat
<1> DEFINE flat == FlattenSeq(unit.path)
           all == flat \o unit.text
<1>1. unit.path \in Seq(Seq(Token)) /\ unit.text \in Seq(Token)
  BY DEF Unit, Text
<1>2. flat \in Seq(Token)
  BY <1>1, FlattenElements
<1> HIDE DEF flat
<1>3. all \in Seq(Token)
  BY <1>1, <1>2, ConcatProperties
<1>4. UnitText(unit) = all
  BY DEF UnitText, flat
<1> HIDE DEF all
<1>5. flat \in Text /\ all \in Text
  BY <1>2, <1>3 DEF Text
<1>6. Count(flat) \in Nat /\ Count(all) \in Nat
  BY <1>5, TokensAre
<1> QED BY <1>4, <1>5, <1>6 DEF flat

\* The windows of a unit share fewer tokens than they have.
LEMMA OverlapSmaller ==
  ASSUME NEW unit \in Unit, Available(unit.path) > 0
  PROVE  /\ Available(unit.path) \in Nat /\ WindowOverlap(unit.path) \in Nat
         /\ WindowOverlap(unit.path) < Available(unit.path)
<1> DEFINE n == Count(FlattenSeq(unit.path))
           a == Available(unit.path)
<1>1. n \in Nat /\ Maximum \in Nat /\ Overlap \in Nat
  BY UnitTyped, ChunkingBounds
<1> HIDE DEF n
<1>2. a = Maximum - n /\ a > 0
  BY DEF Available, n
<1>3. WindowOverlap(unit.path) = Least(Overlap, IF a > 1 THEN a - 1 ELSE 0)
  BY DEF WindowOverlap
<1> HIDE DEF a
<1>4. a \in Nat /\ a > 0
  BY <1>1, <1>2
<1>5. WindowOverlap(unit.path) \in Nat /\ WindowOverlap(unit.path) < a
  BY <1>1, <1>3, <1>4 DEF Least
<1> QED BY <1>4, <1>5 DEF a

\* A word that a split may lose.
MayGo(path, t) ==
  ~ /\ Pieces[t] \in 1..(WindowOverlap(path) + 1)
    /\ Decoded[t][<<1, Pieces[t]>>] = <<t>>

\* What Fit leaves of a unit: nothing, the unit as it fits, or parts of a
\* unit that is too long, with all words that must not be lost.
LEMMA FitCovers ==
  ASSUME NEW unit \in Unit
  PROVE  /\ Fit(unit) \in Seq(Unit)
         /\ \A u \in ToSet(Fit(unit)) :
              u.blocks = unit.blocks /\ u.path = unit.path /\ u.kind = unit.kind
         /\ \/ Fit(unit) = <<>>
            \/ ToSet(Fit(unit)) = {unit} /\ Fits(unit)
            \/ /\ ~Fits(unit)
               /\ unit.kind \notin {"table", "formula"} /\ ~(Len(unit.blocks) > 1)
               /\ \A t \in ToSet(unit.text) :
                    \/ MayGo(unit.path, t)
                    \/ \E u \in ToSet(Fit(unit)) : t \in ToSet(u.text)
<1> DEFINE available == Available(unit.path)
           overlap == WindowOverlap(unit.path)
           parts == Split(unit.text, available, overlap)
           whole == unit.kind \in {"table", "formula"} \/ Len(unit.blocks) > 1
<1>1. CASE Fits(unit)
  <2>1. Fit(unit) = <<unit>>
    BY <1>1 DEF Fit, Fits
  <2>2. <<unit>> \in Seq(Unit) /\ ToSet(<<unit>>) = {unit}
    BY DEF ToSet
  <2> QED BY <1>1, <2>1, <2>2
<1>2. CASE ~Fits(unit) /\ (whole \/ available <= 0)
  <2>1. Fit(unit) = <<>>
    BY <1>2 DEF Fit, Fits
  <2>2. <<>> \in Seq(Unit) /\ ToSet(<<>>) = {}
    BY DEF ToSet
  <2> QED BY <2>1, <2>2
<1>3. CASE ~Fits(unit) /\ ~(whole \/ available <= 0)
  <2> DEFINE fitted == [i \in DOMAIN parts |-> [unit EXCEPT !.text = parts[i]]]
  <2>1. Fit(unit) = fitted
    BY <1>3 DEF Fit, Fits
  <2>2. available \in Nat /\ overlap \in Nat /\ overlap < available
    <3>1. available > 0
      <4>1. available = Maximum - Count(FlattenSeq(unit.path))
        BY DEF Available
      <4>2. Maximum \in Nat /\ Count(FlattenSeq(unit.path)) \in Nat
        BY UnitTyped, ChunkingBounds
      <4> QED BY <1>3, <4>1, <4>2
    <3> QED BY <3>1, OverlapSmaller
  <2> HIDE DEF available, overlap
  <2>3. unit.text \in Text
    BY DEF Unit
  <2>4. /\ parts \in Seq(Text)
        /\ \A t \in ToSet(unit.text) :
             /\ Pieces[t] \in 1..(overlap + 1) /\ Decoded[t][<<1, Pieces[t]>>] = <<t>>
             => \E n \in DOMAIN parts : t \in ToSet(parts[n])
    BY <2>2, <2>3, SplitCovers
  <2> HIDE DEF parts
  <2>5. /\ Len(parts) \in Nat /\ DOMAIN parts = 1..Len(parts)
        /\ \A i \in DOMAIN parts : parts[i] \in Text
    BY <2>4, LenProperties
  <2>6. ASSUME NEW i \in DOMAIN parts
        PROVE  /\ fitted[i] \in Unit /\ fitted[i].blocks = unit.blocks
               /\ fitted[i].text = parts[i] /\ fitted[i].path = unit.path
               /\ fitted[i].kind = unit.kind
    BY <2>5 DEF Unit
  <2>7. DOMAIN fitted = DOMAIN parts
    OBVIOUS
  <2>8. fitted \in Seq(Unit)
    <3>1. fitted \in [1..Len(parts) -> Unit]
      BY <2>5, <2>6
    <3> HIDE DEF fitted
    <3> QED BY <2>5, <3>1, SeqDef
  <2> HIDE DEF fitted
  <2>9. ToSet(fitted) = {fitted[i] : i \in DOMAIN parts}
    BY <2>7 DEF ToSet
  <2>10. ASSUME NEW t \in ToSet(unit.text), ~MayGo(unit.path, t)
         PROVE  \E u \in ToSet(fitted) : t \in ToSet(u.text)
    <3>1. PICK n \in DOMAIN parts : t \in ToSet(parts[n])
      BY <2>4, <2>10 DEF MayGo, overlap
    <3> QED BY <2>6, <2>9, <3>1
  <2>11. \A u \in ToSet(fitted) :
           u.blocks = unit.blocks /\ u.path = unit.path /\ u.kind = unit.kind
    BY <2>6, <2>9
  <2> QED BY <1>3, <2>1, <2>8, <2>10, <2>11
<1> QED BY <1>1, <1>2, <1>3
-----------------------------------------------------------------------------
(* Groups of units.                                                        *)

\* The text of a group holds the text of each of its units, and that of a
\* group of one is the text of the unit.
LEMMA GroupTyped ==
  ASSUME NEW units \in Seq(Unit)
  PROVE  /\ GroupText(units) \in Text /\ Count(GroupText(units)) \in Nat
         /\ \A i \in DOMAIN units : ToSet(units[i].text) \subseteq ToSet(GroupText(units))
<1> DEFINE texts == [i \in DOMAIN units |-> units[i].text]
           flat == FlattenSeq(units[1].path)
           body == FlattenSeq(texts)
<1>1. /\ Len(units) \in Nat /\ DOMAIN units = 1..Len(units)
      /\ \A i \in DOMAIN units : units[i] \in Unit /\ units[i].text \in Text
  <2>1. /\ Len(units) \in Nat /\ DOMAIN units = 1..Len(units)
        /\ \A i \in DOMAIN units : units[i] \in Unit
    BY LenProperties
  <2>2. \A u \in Unit : u.text \in Text
    BY DEF Unit
  <2> HIDE DEF texts, flat, body
  <2> QED BY <2>1, <2>2
<1>2. CASE units = <<>>
  <2>1. GroupText(units) = <<>> /\ DOMAIN units = {}
    BY <1>2 DEF GroupText
  <2>2. <<>> \in Text
    BY DEF Text
  <2>3. Count(<<>>) \in Nat
    BY <2>2, TokensAre
  <2> QED BY <2>1, <2>2, <2>3
<1>3. CASE units # <<>>
  <2>1. texts \in Seq(Text) /\ DOMAIN texts = DOMAIN units
    <3>1. texts \in [1..Len(units) -> Text]
      BY <1>1
    <3>2. DOMAIN texts = DOMAIN units
      OBVIOUS
    <3> HIDE DEF texts
    <3> QED BY <1>1, <3>1, <3>2, SeqDef
  <2>2. \A i \in DOMAIN units : texts[i] = units[i].text
    OBVIOUS
  <2>3. flat \in Text
    <3>1. 1 \in DOMAIN units
      BY <1>1, <1>3, EmptySeq
    <3> QED BY <1>1, <3>1, UnitTyped
  <2> HIDE DEF texts
  <2>4. body \in Text /\ ToSet(body) = UNION {ToSet(texts[i]) : i \in DOMAIN texts}
    BY <2>1, FlattenElements DEF Text
  <2> HIDE DEF flat, body
  <2>5. GroupText(units) = flat \o body
    BY <1>3 DEF GroupText, flat, body, texts
  <2> DEFINE all == flat \o body
  <2>6. all \in Text /\ ToSet(body) \subseteq ToSet(all) /\ Count(all) \in Nat
    <3>1. all \in Seq(Token) /\ ToSet(body) \subseteq ToSet(all)
      BY <2>3, <2>4, ConcatHolds DEF Text
    <3> HIDE DEF all
    <3>2. Count(all) \in Nat
      BY <3>1, TokensAre DEF Text
    <3> QED BY <3>1, <3>2 DEF Text
  <2> HIDE DEF all
  <2>7. GroupText(units) = all
    BY <2>5 DEF all
  <2>8. \A i \in DOMAIN units : ToSet(units[i].text) \subseteq ToSet(body)
    BY <2>1, <2>2, <2>4
  <2> QED BY <2>6, <2>7, <2>8
<1> QED BY <1>2, <1>3

\* One sequence, strung together, is itself.
LEMMA FlattenOne ==
  ASSUME NEW S, NEW s \in Seq(S)
  PROVE  FlattenSeq(<<s>>) = s
<1> DEFINE one == <<s>>
<1>1. one \in Seq(Seq(S)) /\ Len(one) = 1 /\ one[1] = s
  OBVIOUS
<1> HIDE DEF one
<1>2. PICK f \in [0..Len(one) -> Seq(S)] : Strung(f, one)
  BY <1>1, FlattenIs
<1>3. f[0] = <<>> /\ f[1] = f[0] \o s /\ FlattenSeq(one) = f[1]
  <2>1. 1 \in 1..Len(one) /\ 1 - 1 = 0
    BY <1>1
  <2> QED BY <1>1, <1>2, <2>1 DEF Strung
<1>4. <<>> \o s = s
  BY ConcatEmptySeq
<1>5. FlattenSeq(one) = s
  BY <1>3, <1>4
<1> QED BY <1>5 DEF one

\* A unit alone is a group with its text.
LEMMA GroupOfOne ==
  ASSUME NEW unit \in Unit
  PROVE  GroupText(<<unit>>) = UnitText(unit)
<1>1. <<unit>> # <<>> /\ DOMAIN <<unit>> = {1} /\ <<unit>>[1] = unit
  OBVIOUS
<1> DEFINE texts == [i \in DOMAIN <<unit>> |-> <<unit>>[i].text]
<1>2. texts = <<unit.text>>
  <2>1. texts = [i \in 1..1 |-> unit.text]
    BY <1>1
  <2> QED BY <2>1
<1>3. FlattenSeq(<<unit.text>>) = unit.text
  <2>1. unit.text \in Seq(Token)
    BY DEF Unit, Text
  <2> QED BY <2>1, FlattenOne
<1> QED BY <1>1, <1>2, <1>3 DEF GroupText, UnitText

\* The end of a sequence.
LEMMA EndOf ==
  ASSUME NEW S, NEW s \in Seq(S), NEW n \in 1..Len(s)
  PROVE  /\ SubSeq(s, n, Len(s)) \in Seq(S)
         /\ ToSet(SubSeq(s, n, Len(s))) \subseteq ToSet(s)
<1> DEFINE t == SubSeq(s, n, Len(s))
<1>1. Len(s) \in Nat /\ n \in Int /\ \A i \in 1..Len(s) : s[i] \in S
  BY Holds
<1>2. \A i \in n..Len(s) : i \in 1..Len(s)
  BY <1>1
<1>3. /\ t \in Seq(S) /\ Len(t) = IF n <= Len(s) THEN Len(s) - n + 1 ELSE 0
      /\ \A i \in 1..(Len(s) - n + 1) : t[i] = s[n + i - 1]
  BY <1>1, <1>2, SubSeqProperties
<1> HIDE DEF t
<1>4. ToSet(t) = {t[i] : i \in 1..Len(t)} /\ ToSet(s) = {s[i] : i \in 1..Len(s)}
  BY <1>3, Holds
<1>5. ASSUME NEW x \in ToSet(t) PROVE x \in ToSet(s)
  <2>1. PICK i \in 1..Len(t) : x = t[i]
    BY <1>4
  <2>2. i \in 1..(Len(s) - n + 1) /\ n + i - 1 \in 1..Len(s)
    BY <1>1, <1>3
  <2> QED BY <1>3, <1>4, <2>1, <2>2
<1> QED BY <1>3, <1>5 DEF t

\* What is kept of a group for the next one was in the group.
LEMMA OverlapIsEnd ==
  ASSUME NEW units \in Seq(Unit), NEW overlap \in Nat
  PROVE  /\ OverlapUnits(units, overlap) \in Seq(Unit)
         /\ ToSet(OverlapUnits(units, overlap)) \subseteq ToSet(units)
<1> DEFINE fits == {n \in 1..Len(units) :
                      \A m \in n..Len(units) :
                        Count(GroupText(SubSeq(units, m, Len(units)))) <= overlap}
           n == CHOOSE n \in fits : \A m \in fits : n <= m
<1>1. fits \subseteq 1..Len(units) /\ fits \subseteq Nat
  BY LenProperties
<1>2. OverlapUnits(units, overlap)
        = IF overlap = 0 \/ fits = {} THEN <<>> ELSE SubSeq(units, n, Len(units))
  BY DEF OverlapUnits
<1> HIDE DEF fits
<1>3. CASE fits = {}
  BY <1>2, <1>3 DEF ToSet
<1>4. CASE fits # {}
  <2>1. \E k \in fits : \A m \in fits : k <= m
    BY <1>1, <1>4, FirstOne
  <2>2. n \in 1..Len(units)
    BY <1>1, <2>1
  <2> HIDE DEF n
  <2>3. /\ SubSeq(units, n, Len(units)) \in Seq(Unit)
        /\ ToSet(SubSeq(units, n, Len(units))) \subseteq ToSet(units)
    BY <2>2, EndOf
  <2>4. <<>> \in Seq(Unit) /\ ToSet(<<>>) = {}
    BY DEF ToSet
  <2> QED BY <1>2, <2>3, <2>4
<1> QED BY <1>3, <1>4

\* What is left of the overlap leaves room for the new unit, or is nothing.
LEMMA ShortenedFits ==
  ASSUME NEW units \in Seq(Unit), NEW unit \in Unit, NEW maximum \in Nat
  PROVE  /\ Shortened(units, unit, maximum) \in Seq(Unit)
         /\ ToSet(Shortened(units, unit, maximum)) \subseteq ToSet(units)
         /\ \/ Shortened(units, unit, maximum) = <<>>
            \/ Count(GroupText(Append(Shortened(units, unit, maximum), unit))) <= maximum
<1> DEFINE fits == {n \in 1..Len(units) :
                      Count(GroupText(SubSeq(units, n, Len(units)) \o <<unit>>)) <= maximum}
           n == CHOOSE n \in fits : \A m \in fits : n <= m
           kept == SubSeq(units, n, Len(units))
<1>1. fits \subseteq 1..Len(units) /\ fits \subseteq Nat
  BY LenProperties
<1>2. Shortened(units, unit, maximum) = IF fits = {} THEN <<>> ELSE kept
  BY DEF Shortened
<1>3. CASE fits = {}
  BY <1>2, <1>3 DEF ToSet
<1>4. CASE fits # {}
  <2>1. n \in fits
    <3> HIDE DEF fits
    <3>1. \E k \in fits : \A m \in fits : k <= m
      BY <1>1, <1>4, FirstOne
    <3> QED BY <3>1
  <2> HIDE DEF n
  <2>2. n \in 1..Len(units) /\ Count(GroupText(kept \o <<unit>>)) <= maximum
    BY <2>1
  <2>3. kept \in Seq(Unit) /\ ToSet(kept) \subseteq ToSet(units)
    BY <2>2, EndOf
  <2> HIDE DEF kept, fits
  <2>4. Append(kept, unit) = kept \o <<unit>>
    BY <2>3, AppendIsConcat
  <2> QED BY <1>2, <1>4, <2>2, <2>3, <2>4
<1> QED BY <1>3, <1>4

GroupState == [groups : Seq(Seq(Unit)), current : Seq(Unit), refused : BOOLEAN]

InGroups(groups) == UNION {ToSet(groups[i]) : i \in DOMAIN groups}

\* Some of the first n units is too long alone.
TooLong(units, n, maximum) == \E k \in 1..n : ~(Count(UnitText(units[k])) <= maximum)

\* What holds after n units: unless one of them was too long alone, nothing
\* was refused; and unless it was, each of them is in a group, and no group
\* is too long.
Grouping(state, units, n, maximum) ==
  /\ state \in GroupState
  /\ state.refused => TooLong(units, n, maximum)
  /\ ~state.refused =>
       /\ \A i \in DOMAIN state.groups : Count(GroupText(state.groups[i])) <= maximum
       /\ state.current # <<>> => Count(GroupText(state.current)) <= maximum
       /\ \A k \in 1..n : units[k] \in InGroups(state.groups) \cup ToSet(state.current)
  /\ InGroups(state.groups) \cup ToSet(state.current) \subseteq ToSet(units)

\* One more group, or the same groups.
LEMMA GroupsAppend ==
  ASSUME NEW groups \in Seq(Seq(Unit)), NEW group \in Seq(Unit)
  PROVE  /\ Append(groups, group) \in Seq(Seq(Unit))
         /\ InGroups(Append(groups, group)) = InGroups(groups) \cup ToSet(group)
         /\ \A i \in DOMAIN Append(groups, group) :
              \/ i \in DOMAIN groups /\ Append(groups, group)[i] = groups[i]
              \/ Append(groups, group)[i] = group
<1> DEFINE more == Append(groups, group)
           N == Len(groups)
<1>1. /\ more \in Seq(Seq(Unit)) /\ Len(more) = N + 1 /\ N \in Nat
      /\ \A i \in 1..N : more[i] = groups[i]
      /\ more[N + 1] = group
  BY AppendProperties, LenProperties
<1>2. DOMAIN more = 1..(N + 1) /\ DOMAIN groups = 1..N
  BY <1>1, LenProperties
<1>3. 1..(N + 1) = (1..N) \cup {N + 1}
  BY <1>1
<1> HIDE DEF more, N
<1>4. InGroups(more) = InGroups(groups) \cup ToSet(group)
  <2>1. {ToSet(more[i]) : i \in 1..(N + 1)} = {ToSet(groups[i]) : i \in 1..N} \cup {ToSet(group)}
    BY <1>1, <1>3
  <2> QED BY <1>2, <2>1 DEF InGroups
<1> QED BY <1>1, <1>2, <1>3, <1>4 DEF more

\* The next state of the groups is one, whatever the unit.
LEMMA WithNextTyped ==
  ASSUME NEW state \in GroupState, NEW unit \in Unit,
         NEW maximum \in Nat, NEW target \in Nat, NEW overlap \in Nat
  PROVE  WithNext(state, unit, maximum, target, overlap) \in GroupState
<1> DEFINE current == state.current
           turned == current # <<>> /\ unit.path # Last(current).path
           full == Count(GroupText(Append(current, unit))) > target
           closed == current # <<>> /\ (turned \/ full)
           short == Shortened(OverlapUnits(current, overlap), unit, maximum)
           kept == IF ~closed THEN current ELSE IF turned THEN <<>> ELSE short
           torn == state.refused \/ Count(GroupText(Append(kept, unit))) > maximum
           groups == IF closed THEN Append(state.groups, current) ELSE state.groups
<1>1. current \in Seq(Unit) /\ state.groups \in Seq(Seq(Unit))
  BY DEF GroupState
<1>2. short \in Seq(Unit)
  BY <1>1, OverlapIsEnd, ShortenedFits
<1> HIDE DEF current, turned, full, short
<1>3. kept \in Seq(Unit) /\ groups \in Seq(Seq(Unit))
  BY <1>1, <1>2, GroupsAppend
<1> HIDE DEF closed, kept, groups
<1>4. Append(kept, unit) \in Seq(Unit)
  BY <1>3, AppendHolds
<1>5. torn \in BOOLEAN
  OBVIOUS
<1> HIDE DEF torn
<1>6. WithNext(state, unit, maximum, target, overlap)
        = [groups |-> groups, current |-> Append(kept, unit), refused |-> torn]
  BY DEF WithNext, current, turned, full, closed, short, kept, torn, groups
<1> QED BY <1>3, <1>4, <1>5, <1>6 DEF GroupState

\* A unit that fits alone always finds a group in which it fits, and where one
\* does not the state may be refused.
LEMMA NextFits ==
  ASSUME NEW units \in Seq(Unit), NEW n \in 1..Len(units), NEW state,
         NEW maximum \in Nat, NEW target \in Nat, NEW overlap \in Nat, target <= maximum,
         Grouping(state, units, n - 1, maximum)
  PROVE  Grouping(WithNext(state, units[n], maximum, target, overlap), units, n, maximum)
<1> DEFINE unit == units[n]
           current == state.current
           turned == current # <<>> /\ unit.path # Last(current).path
           full == Count(GroupText(Append(current, unit))) > target
           closed == current # <<>> /\ (turned \/ full)
           short == Shortened(OverlapUnits(current, overlap), unit, maximum)
           kept == IF ~closed THEN current ELSE IF turned THEN <<>> ELSE short
           groups == IF closed THEN Append(state.groups, current) ELSE state.groups
           next == WithNext(state, unit, maximum, target, overlap)
           after == Append(kept, unit)
           lone == Count(UnitText(unit)) <= maximum
<1>1. /\ state \in GroupState /\ state.refused \in BOOLEAN
      /\ current \in Seq(Unit) /\ state.groups \in Seq(Seq(Unit))
      /\ state.refused => TooLong(units, n - 1, maximum)
      /\ ~state.refused =>
           /\ \A i \in DOMAIN state.groups : Count(GroupText(state.groups[i])) <= maximum
           /\ current # <<>> => Count(GroupText(current)) <= maximum
           /\ \A k \in 1..(n - 1) : units[k] \in InGroups(state.groups) \cup ToSet(current)
      /\ InGroups(state.groups) \cup ToSet(current) \subseteq ToSet(units)
  BY DEF Grouping, GroupState
<1>2. unit \in Unit /\ unit \in ToSet(units) /\ n \in Nat
  BY Holds
<1>3. /\ short \in Seq(Unit) /\ ToSet(short) \subseteq ToSet(current)
      /\ short = <<>> \/ Count(GroupText(Append(short, unit))) <= maximum
  <2>1. /\ OverlapUnits(current, overlap) \in Seq(Unit)
        /\ ToSet(OverlapUnits(current, overlap)) \subseteq ToSet(current)
    BY <1>1, OverlapIsEnd
  <2> QED BY <1>2, <2>1, ShortenedFits
<1>4. Append(<<>>, unit) = <<unit>> /\ (lone => Count(GroupText(<<unit>>)) <= maximum)
  <2>1. Append(<<>>, unit) = <<unit>>
    OBVIOUS
  <2>2. GroupText(<<unit>>) = UnitText(unit)
    BY <1>2, GroupOfOne
  <2> QED BY <2>1, <2>2
<1>5. Count(GroupText(Append(current, unit))) \in Nat
  BY <1>1, <1>2, AppendHolds, GroupTyped
<1> HIDE DEF short, unit, next, lone
<1>6. next = [groups |-> groups, current |-> after,
              refused |-> state.refused \/ Count(GroupText(after)) > maximum]
  BY DEF WithNext, next, short
<1>7. /\ kept \in Seq(Unit) /\ ToSet(kept) \subseteq ToSet(current)
      /\ ~closed => kept = current
      /\ lone => Count(GroupText(after)) <= maximum
  <2>1. ToSet(<<>>) = {} /\ <<>> \in Seq(Unit)
    BY DEF ToSet
  <2>2. CASE ~closed
    <3>1. kept = current
      BY <2>2
    <3>2. lone => Count(GroupText(Append(current, unit))) <= maximum
      <4>1. CASE current = <<>>
        BY <1>4, <4>1
      <4>2. CASE current # <<>>
        <5>1. ~full
          BY <2>2, <4>2
        <5> QED BY <1>5, <5>1
      <4> QED BY <4>1, <4>2
    <3> HIDE DEF kept
    <3> QED BY <1>1, <3>1, <3>2
  <2>3. CASE closed /\ turned
    <3>1. kept = <<>>
      BY <2>3
    <3> HIDE DEF kept, closed, turned
    <3> QED BY <1>4, <2>1, <2>3, <3>1
  <2>4. CASE closed /\ ~turned
    <3>1. kept = short
      BY <2>4
    <3> HIDE DEF kept, closed, turned
    <3> QED BY <1>3, <1>4, <2>4, <3>1
  <2> QED BY <2>2, <2>3, <2>4
<1> HIDE DEF turned, full, kept
<1>8. /\ after \in Seq(Unit) /\ ToSet(after) = ToSet(kept) \cup {unit} /\ after # <<>>
  <2>1. kept \in Seq(Unit) /\ unit \in Unit
    BY <1>2, <1>7
  <2> HIDE DEF closed, groups, current
  <2> QED BY <2>1, AppendHolds
<1> HIDE DEF after
<1>9. /\ groups \in Seq(Seq(Unit))
      /\ ~state.refused => \A i \in DOMAIN groups : Count(GroupText(groups[i])) <= maximum
      /\ InGroups(groups) \subseteq ToSet(units)
      /\ InGroups(state.groups) \cup ToSet(current) \subseteq InGroups(groups) \cup ToSet(kept)
  <2>1. CASE closed
    <3>1. groups = Append(state.groups, current) /\ current # <<>>
      BY <2>1
    <3> HIDE DEF groups, closed, current
    <3>2. /\ groups \in Seq(Seq(Unit))
          /\ InGroups(groups) = InGroups(state.groups) \cup ToSet(current)
          /\ \A i \in DOMAIN groups :
               \/ i \in DOMAIN state.groups /\ groups[i] = state.groups[i]
               \/ groups[i] = current
      BY <1>1, <3>1, GroupsAppend
    <3> QED BY <1>1, <3>1, <3>2
  <2>2. CASE ~closed
    <3>1. groups = state.groups /\ kept = current
      BY <1>7, <2>2
    <3> HIDE DEF groups, closed, current
    <3> QED BY <1>1, <3>1
  <2> QED BY <2>1, <2>2
<1> HIDE DEF closed, groups
<1> DEFINE torn == state.refused \/ Count(GroupText(after)) > maximum
<1>10. /\ next.groups = groups /\ next.current = after /\ next.refused = torn
       /\ next \in GroupState /\ Count(GroupText(after)) \in Nat
  <2>1. torn \in BOOLEAN
    OBVIOUS
  <2>2. Count(GroupText(after)) \in Nat
    BY <1>8, GroupTyped
  <2> HIDE DEF torn
  <2>3. next = [groups |-> groups, current |-> after, refused |-> torn]
    BY <1>6 DEF torn
  <2> QED BY <1>8, <1>9, <2>1, <2>2, <2>3 DEF GroupState
<1>11. ASSUME ~torn PROVE \A k \in 1..n : units[k] \in InGroups(groups) \cup ToSet(after)
  <2> TAKE k \in 1..n
  <2>1. CASE k = n
    BY <1>8, <2>1 DEF unit
  <2>2. CASE k # n
    <3>1. k \in 1..(n - 1)
      BY <1>2, <2>2
    <3> QED BY <1>1, <1>8, <1>9, <1>11, <3>1
  <2> QED BY <2>1, <2>2
<1>12. InGroups(groups) \cup ToSet(after) \subseteq ToSet(units)
  BY <1>1, <1>2, <1>7, <1>8, <1>9
<1>13. ASSUME torn PROVE TooLong(units, n, maximum)
  <2>1. CASE state.refused
    <3>1. PICK k \in 1..(n - 1) : ~(Count(UnitText(units[k])) <= maximum)
      BY <1>1, <2>1 DEF TooLong
    <3>2. k \in 1..n
      BY <1>2
    <3> QED BY <3>1, <3>2 DEF TooLong
  <2>2. CASE ~state.refused
    <3>1. ~lone
      BY <1>7, <1>10, <1>13, <2>2 DEF after
    <3>2. n \in 1..n
      BY <1>2
    <3> QED BY <3>1, <3>2 DEF TooLong, lone, unit
  <2> QED BY <2>1, <2>2
<1>14. ASSUME ~torn
       PROVE  /\ \A i \in DOMAIN groups : Count(GroupText(groups[i])) <= maximum
              /\ Count(GroupText(after)) <= maximum
  BY <1>9, <1>10, <1>14
<1> HIDE DEF torn
<1>15. Grouping(next, units, n, maximum)
  BY <1>10, <1>11, <1>12, <1>13, <1>14 DEF Grouping
<1> QED BY <1>15 DEF next, unit

\* The groups of units: nothing is refused unless a unit is too long alone;
\* and otherwise no unit is lost, and no group is too long.
\* The groups of units that fit: nothing is refused, no unit is lost, no group
\* is too long.
LEMMA GroupsCover ==
  ASSUME NEW units \in Seq(Unit), NEW maximum \in Nat, NEW target \in Nat,
         NEW overlap \in Nat, target <= maximum
  PROVE  LET made == GroupUnits(units, maximum, target, overlap)
         IN  /\ made.refused \in BOOLEAN /\ made.groups \in Seq(Seq(Unit))
             /\ InGroups(made.groups) \subseteq ToSet(units)
             /\ made.refused => TooLong(units, Len(units), maximum)
             /\ ~made.refused =>
                  /\ \A i \in DOMAIN made.groups : Count(GroupText(made.groups[i])) <= maximum
                  /\ InGroups(made.groups) = ToSet(units)
<1> DEFINE N == Len(units)
           empty == [groups |-> <<>>, current |-> <<>>, refused |-> FALSE]
           Solves(f) == f = [n \in 0..N |->
                               IF n = 0 THEN empty
                               ELSE WithNext(f[n - 1], units[n], maximum, target, overlap)]
           step == [n \in 1..N |-> [v \in GroupState |->
                      WithNext(v, units[n], maximum, target, overlap)]]
           f == CHOOSE g : Solves(g)
<1>1. /\ N \in Nat /\ \A n \in 1..N : units[n] \in Unit /\ units[n] \in ToSet(units)
      /\ ToSet(units) = {units[n] : n \in 1..N}
  BY Holds
<1>2. empty \in GroupState /\ Grouping(empty, units, 0, maximum)
  <2>1. empty \in GroupState
    BY DEF GroupState
  <2>2. empty.groups = <<>> /\ empty.current = <<>> /\ empty.refused = FALSE
    OBVIOUS
  <2>3. InGroups(<<>>) = {} /\ ToSet(<<>>) = {} /\ DOMAIN <<>> = {}
    BY DEF InGroups, ToSet
  <2>4. 1..0 = {}
    OBVIOUS
  <2> HIDE DEF empty
  <2> QED BY <2>1, <2>2, <2>3, <2>4 DEF Grouping
<1> HIDE DEF empty
<1>3. step \in [1..N -> [GroupState -> GroupState]]
  BY <1>1, WithNextTyped
<1>4. PICK h : Built(h, N, GroupState, empty, step)
  <2> HIDE DEF step
  <2> QED BY <1>1, <1>2, <1>3, StepsExist
<1>5. Solves(h)
  <2>1. h \in [0..N -> GroupState] /\ h[0] = empty /\ \A n \in 1..N : h[n] = step[n][h[n - 1]]
    BY <1>4 DEF Built
  <2>2. \A n \in 0..N : n # 0 => n \in 1..N /\ n - 1 \in 0..N
    BY <1>1
  <2>3. \A n \in 1..N, v \in GroupState :
          step[n][v] = WithNext(v, units[n], maximum, target, overlap)
    OBVIOUS
  <2> HIDE DEF step
  <2>4. \A n \in 0..N : h[n] = IF n = 0 THEN empty
                               ELSE WithNext(h[n - 1], units[n], maximum, target, overlap)
    BY <2>1, <2>2, <2>3
  <2> QED BY <2>1, <2>4
<1>6. Solves(f)
  <2> HIDE DEF Solves
  <2> QED BY <1>5
<1>7. Grouped(units, maximum, target, overlap) = f[N]
  <2>1. f = CHOOSE g : g = [n \in 0..N |->
                         IF n = 0 THEN [groups |-> <<>>, current |-> <<>>, refused |-> FALSE]
                         ELSE WithNext(g[n - 1], units[n], maximum, target, overlap)]
    BY DEF empty
  <2> HIDE DEF f
  <2> QED BY <2>1 DEF Grouped
<1> HIDE DEF f
<1>8. /\ f[0] = empty
      /\ \A n \in 1..N : f[n] = WithNext(f[n - 1], units[n], maximum, target, overlap)
  <2>1. \A n \in 0..N : f[n] = IF n = 0 THEN empty
                               ELSE WithNext(f[n - 1], units[n], maximum, target, overlap)
    BY <1>6
  <2>2. 0 \in 0..N /\ \A n \in 1..N : n \in 0..N /\ n # 0
    BY <1>1
  <2> QED BY <2>1, <2>2
<1> DEFINE G == {n \in 0..N : Grouping(f[n], units, n, maximum)}
<1>9. 0 \in G
  BY <1>1, <1>2, <1>8
<1>10. ASSUME NEW n \in 1..N, n - 1 \in G PROVE n \in G
  <2>1. Grouping(f[n - 1], units, n - 1, maximum) /\ n \in 0..N
    BY <1>1, <1>10
  <2> DEFINE before == f[n - 1]
  <2>2. Grouping(before, units, n - 1, maximum)
    BY <2>1
  <2> HIDE DEF before
  <2>3. Grouping(WithNext(before, units[n], maximum, target, overlap), units, n, maximum)
    BY <2>2, NextFits
  <2> QED BY <1>8, <2>1, <2>3 DEF before
<1>11. N \in G
  <2>1. G \in SUBSET (0..N)
    OBVIOUS
  <2> HIDE DEF G
  <2>2. G = 0..N
    BY <1>1, <1>9, <1>10, <2>1, StepByStep
  <2> QED BY <1>1, <2>2
<1> DEFINE last == f[N]
           made == GroupUnits(units, maximum, target, overlap)
<1>12. Grouping(last, units, N, maximum)
  BY <1>11
<1>13. /\ made.groups = IF last.current = <<>> THEN last.groups
                        ELSE Append(last.groups, last.current)
       /\ made.refused = last.refused
  BY <1>7 DEF GroupUnits, Closed
<1> HIDE DEF last, made
<1>14. /\ last.groups \in Seq(Seq(Unit)) /\ last.current \in Seq(Unit)
       /\ last.refused \in BOOLEAN
       /\ last.refused => TooLong(units, N, maximum)
       /\ InGroups(last.groups) \cup ToSet(last.current) \subseteq ToSet(units)
       /\ ~last.refused =>
            /\ \A i \in DOMAIN last.groups : Count(GroupText(last.groups[i])) <= maximum
            /\ last.current # <<>> => Count(GroupText(last.current)) <= maximum
            /\ InGroups(last.groups) \cup ToSet(last.current) = ToSet(units)
  <2>1. last \in GroupState
    BY <1>12 DEF Grouping
  <2>2. ASSUME ~last.refused
        PROVE  InGroups(last.groups) \cup ToSet(last.current) = ToSet(units)
    BY <1>1, <1>12, <2>2 DEF Grouping
  <2> QED BY <1>12, <2>1, <2>2 DEF Grouping, GroupState
<1> DEFINE groups == last.groups
           current == last.current
<1> HIDE DEF groups, current
<1>15. CASE current = <<>>
  <2>1. ToSet(current) = {}
    BY <1>15 DEF ToSet
  <2>2. made.groups = groups
    BY <1>13, <1>15 DEF groups, current
  <2> QED BY <1>13, <1>14, <2>1, <2>2 DEF groups, current, made
<1>16. CASE current # <<>>
  <2> DEFINE all == Append(groups, current)
  <2>1. made.groups = all
    BY <1>13, <1>16 DEF groups, current
  <2>2. /\ all \in Seq(Seq(Unit))
        /\ InGroups(all) = InGroups(groups) \cup ToSet(current)
        /\ \A i \in DOMAIN all :
             \/ i \in DOMAIN groups /\ all[i] = groups[i]
             \/ all[i] = current
    BY <1>14, GroupsAppend DEF groups, current
  <2> HIDE DEF all
  <2>3. ASSUME ~last.refused
        PROVE  /\ \A i \in DOMAIN all : Count(GroupText(all[i])) <= maximum
               /\ InGroups(all) = ToSet(units)
    BY <1>14, <1>16, <2>2, <2>3 DEF groups, current
  <2>4. InGroups(all) \subseteq ToSet(units)
    BY <1>14, <2>2 DEF groups, current
  <2> QED BY <1>13, <1>14, <2>1, <2>2, <2>3, <2>4 DEF made
<1> QED BY <1>15, <1>16
-----------------------------------------------------------------------------
(* Reading the units.                                                      *)

\* The last element, and those before it.
LEMMA FrontAndLast ==
  ASSUME NEW S, NEW s \in Seq(S), s # <<>>
  PROVE  /\ Front(s) \in Seq(S) /\ Last(s) \in S
         /\ ToSet(s) = ToSet(Front(s)) \cup {Last(s)}
<1> DEFINE N == Len(s)
           t == Front(s)
<1>1. N \in Nat /\ N > 0 /\ (\A i \in 1..N : s[i] \in S) /\ ToSet(s) = {s[i] : i \in 1..N}
  BY Holds
<1>2. t = SubSeq(s, 1, N - 1) /\ Last(s) = s[N] /\ N \in 1..N
  BY <1>1 DEF Front, Last
<1>3. \A i \in 1..(N - 1) : i \in 1..N
  BY <1>1
<1>4. /\ t \in Seq(S)
      /\ Len(t) = IF 1 <= N - 1 THEN (N - 1) - 1 + 1 ELSE 0
      /\ \A i \in 1..((N - 1) - 1 + 1) : t[i] = s[1 + i - 1]
  <2>1. N - 1 \in Int /\ 1 \in Int
    BY <1>1
  <2> HIDE DEF t
  <2> QED BY <1>2, <1>3, <2>1, SubSeqProperties
<1> HIDE DEF t
<1>5. Len(t) = N - 1 /\ \A i \in 1..(N - 1) : t[i] = s[i]
  <2>1. (N - 1) - 1 + 1 = N - 1 /\ \A i \in 1..(N - 1) : 1 + i - 1 = i
    BY <1>1
  <2> HIDE DEF N
  <2>2. ~(1 <= N - 1) => N - 1 = 0
    BY <1>1
  <2> QED BY <1>4, <2>1, <2>2
<1>6. ToSet(t) = {t[i] : i \in 1..(N - 1)}
  BY <1>4, <1>5, Holds
<1>7. 1..N = (1..(N - 1)) \cup {N}
  BY <1>1
<1>8. ToSet(s) = ToSet(t) \cup {Last(s)}
  BY <1>1, <1>2, <1>5, <1>6, <1>7
<1> QED BY <1>1, <1>2, <1>4, <1>8 DEF t

\* What is joined ends as its second part ends.
LEMMA LastJoined ==
  ASSUME NEW S, NEW s \in Seq(S), NEW t \in Seq(S), t # <<>>
  PROVE  Last(s \o t) = Last(t) /\ s \o t # <<>>
<1> DEFINE u == s \o t
<1>1. /\ u \in Seq(S) /\ Len(u) = Len(s) + Len(t) /\ Len(s) \in Nat /\ Len(t) \in Nat
      /\ \A i \in 1..Len(u) : u[i] = IF i <= Len(s) THEN s[i] ELSE t[i - Len(s)]
  BY ConcatProperties, LenProperties
<1>2. Len(t) # 0 /\ (u = <<>> <=> Len(u) = 0)
  BY <1>1, EmptySeq
<1> HIDE DEF u
<1>3. Len(u) \in 1..Len(u) /\ ~(Len(u) <= Len(s)) /\ Len(u) - Len(s) = Len(t)
  BY <1>1, <1>2
<1>4. u[Len(u)] = t[Len(t)]
  BY <1>1, <1>3
<1> QED BY <1>2, <1>3, <1>4 DEF Last, u

ReadState == [path : Seq(Text), units : Seq(Unit), refused : BOOLEAN]

AllMade(units) == \A u \in ToSet(units) : Fits(u) \/ Grown(u)

\* The word may be one that splitting the block has lost.
Lost(units, block, t) ==
  \E u \in ToSet(units) : block \in ToSet(u.blocks) /\ MayBeLost(u, block, t)

\* What the units make of the blocks k read so far: each word is in a unit
\* unless it may be lost, the last block is in the last unit, and a unit with
\* a proviso has the block before it.
Attached(units, k) ==
  /\ \A x \in ToSet(k) : \A t \in ToSet(x.text) :
       Lost(units, x, t) \/ \E u \in ToSet(units) : t \in ToSet(u.text)
  /\ \A u \in ToSet(units) : ToSet(u.blocks) \subseteq ToSet(k)
  /\ k # <<>> => units # <<>> /\ Last(k) \in ToSet(Last(units).blocks)
  /\ \A i \in 2..Len(k) : OpensWithProviso(k[i].text) =>
       \A u \in ToSet(units) :
         k[i] \in ToSet(u.blocks) => k[i - 1] \in ToSet(u.blocks)

\* Where a pair of neighbours is in a longer sequence.
LEMMA PairsAppend ==
  ASSUME NEW S, NEW k \in Seq(S), NEW x \in S, NEW i \in 2..Len(Append(k, x))
  PROVE  \/ /\ i \in 2..Len(k) /\ Append(k, x)[i] = k[i] /\ Append(k, x)[i - 1] = k[i - 1]
            /\ k[i] \in ToSet(k)
         \/ k # <<>> /\ Append(k, x)[i] = x /\ Append(k, x)[i - 1] = Last(k)
<1> DEFINE l == Append(k, x)
           N == Len(k)
<1>1. /\ Len(l) = N + 1 /\ (\A j \in 1..N : l[j] = k[j]) /\ l[N + 1] = x
      /\ N \in Nat /\ (k = <<>> <=> N = 0) /\ ToSet(k) = {k[j] : j \in 1..N}
      /\ Last(k) = k[N]
  BY AppendProperties, Holds DEF Last
<1> HIDE DEF l, N
<1>2. CASE i <= N
  <2>1. i \in 1..N /\ i - 1 \in 1..N /\ i \in 2..N
    BY <1>1, <1>2 DEF l
  <2> QED BY <1>1, <2>1 DEF l, N
<1>3. CASE ~(i <= N)
  <2>1. i = N + 1 /\ i - 1 = N /\ N \in 1..N /\ N # 0
    BY <1>1, <1>3 DEF l
  <2> QED BY <1>1, <2>1 DEF l
<1> QED BY <1>2, <1>3

\* What a block adds, where the parts of the new unit take the place of the
\* unit it was joined to, or come after all others.
LEMMA PartsAttach ==
  ASSUME NEW front \in Seq(Unit), NEW fitted \in Seq(Unit), fitted # <<>>,
         NEW before, before \subseteq BlockSet, NEW texts, NEW path,
         NEW k \in Seq(BlockSet), NEW x \in BlockSet, x \notin ToSet(k),
         NEW units \in Seq(Unit), Attached(units, k),
         ToSet(front) \subseteq ToSet(units),
         \A u \in ToSet(fitted) : ToSet(u.blocks) = before \cup {x} /\ u.path = path,
         \A t \in texts : \E u \in ToSet(fitted) : t \in ToSet(u.text),
         \A t \in ToSet(x.text) :
           Lost(fitted, x, t) \/ \E u \in ToSet(fitted) : t \in ToSet(u.text),
         \/ before = {} /\ front = units /\ (OpensWithProviso(x.text) => units = <<>>)
         \/ /\ units # <<>> /\ ToSet(units) = ToSet(front) \cup {Last(units)}
            /\ before = ToSet(Last(units).blocks) /\ texts = ToSet(Last(units).text)
            /\ path = Last(units).path
  PROVE  Attached(front \o fitted, Append(k, x))
<1> DEFINE all == front \o fitted
           l == Append(k, x)
<1>1. /\ all \in Seq(Unit) /\ ToSet(all) = ToSet(front) \cup ToSet(fitted) /\ all # <<>>
      /\ Last(all) = Last(fitted) /\ Last(fitted) \in ToSet(fitted)
  <2>1. all \in Seq(Unit) /\ ToSet(all) = ToSet(front) \cup ToSet(fitted)
    BY ConcatHolds
  <2>2. all # <<>> /\ Last(all) = Last(fitted)
    BY LastJoined
  <2>3. Last(fitted) \in ToSet(fitted)
    BY FrontAndLast
  <2> QED BY <2>1, <2>2, <2>3
<1>2. l \in Seq(BlockSet) /\ ToSet(l) = ToSet(k) \cup {x} /\ l # <<>> /\ Last(l) = x
  BY AppendHolds
<1> HIDE DEF all, l
<1>3. before \subseteq ToSet(k)
  <2>1. \/ before = {}
        \/ Last(units) \in ToSet(units) /\ before = ToSet(Last(units).blocks)
    OBVIOUS
  <2> QED BY <2>1 DEF Attached
<1>4. ASSUME NEW y \in ToSet(l), NEW t \in ToSet(y.text)
      PROVE  Lost(all, y, t) \/ \E u \in ToSet(all) : t \in ToSet(u.text)
  <2>1. CASE y = x
    BY <1>1, <2>1 DEF Lost
  <2>2. CASE y # x
    <3>1. y \in ToSet(k)
      BY <1>2, <2>2
    <3>2. CASE \E u \in ToSet(units) : t \in ToSet(u.text)
      <4>1. PICK u \in ToSet(units) : t \in ToSet(u.text)
        BY <3>2
      <4>2. CASE u \in ToSet(front)
        BY <1>1, <4>1, <4>2
      <4>3. CASE u \notin ToSet(front)
        <5>1. t \in texts
          BY <4>1, <4>3
        <5> QED BY <1>1, <5>1
      <4> QED BY <4>2, <4>3
    <3>3. CASE Lost(units, y, t)
      <4>1. PICK u \in ToSet(units) : y \in ToSet(u.blocks) /\ MayBeLost(u, y, t)
        BY <3>3 DEF Lost
      <4>2. CASE u \in ToSet(front)
        BY <1>1, <4>1, <4>2 DEF Lost
      <4>3. CASE u \notin ToSet(front)
        <5> DEFINE w == Last(fitted)
        <5>1. u.path = path /\ y \in before
          BY <4>1, <4>3
        <5>2. w \in ToSet(all) /\ w.path = path /\ y \in ToSet(w.blocks)
          BY <1>1, <5>1
        <5> HIDE DEF w
        <5>3. MayBeLost(w, y, t)
          BY <4>1, <5>1, <5>2 DEF MayBeLost
        <5> QED BY <5>2, <5>3 DEF Lost
      <4> QED BY <4>2, <4>3
    <3> QED BY <3>1, <3>2, <3>3 DEF Attached
  <2> QED BY <2>1, <2>2
<1>5. \A u \in ToSet(all) : ToSet(u.blocks) \subseteq ToSet(l)
  BY <1>1, <1>2, <1>3 DEF Attached
<1>6. Last(l) \in ToSet(Last(all).blocks)
  BY <1>1, <1>2
<1>7. ASSUME NEW i \in 2..Len(l), OpensWithProviso(l[i].text),
             NEW u \in ToSet(all), l[i] \in ToSet(u.blocks)
      PROVE  l[i - 1] \in ToSet(u.blocks)
  <2>1. \/ /\ i \in 2..Len(k) /\ l[i] = k[i] /\ l[i - 1] = k[i - 1]
           /\ k[i] \in ToSet(k)
        \/ k # <<>> /\ l[i] = x /\ l[i - 1] = Last(k)
    BY PairsAppend DEF l
  <2>2. CASE /\ i \in 2..Len(k) /\ l[i] = k[i] /\ l[i - 1] = k[i - 1]
             /\ k[i] \in ToSet(k)
    <3>1. CASE u \in ToSet(front)
      BY <1>7, <2>2, <3>1 DEF Attached
    <3>2. CASE u \in ToSet(fitted)
      <4>1. k[i] \in before
        BY <1>7, <2>2, <3>2
      <4>2. before = ToSet(Last(units).blocks) /\ Last(units) \in ToSet(units)
        BY <4>1
      <4>3. k[i - 1] \in before
        BY <1>7, <2>2, <4>1, <4>2 DEF Attached
      <4> QED BY <2>2, <3>2, <4>3
    <3> QED BY <1>1, <3>1, <3>2
  <2>3. CASE k # <<>> /\ l[i] = x /\ l[i - 1] = Last(k)
    <3>1. units # <<>> /\ Last(k) \in ToSet(Last(units).blocks)
      BY <2>3 DEF Attached
    <3>2. before = ToSet(Last(units).blocks)
      BY <1>7, <2>3, <3>1
    <3>3. CASE u \in ToSet(front)
      BY <1>7, <2>3, <3>3 DEF Attached
    <3>4. CASE u \in ToSet(fitted)
      BY <2>3, <3>1, <3>2, <3>4
    <3> QED BY <1>1, <3>3, <3>4
  <2> QED BY <2>1, <2>2, <2>3
<1>8. Attached(all, l)
  BY <1>1, <1>4, <1>5, <1>6, <1>7 DEF Attached
<1> QED BY <1>8 DEF all, l

\* A block with text becomes a unit, or part of the unit before it.
LEMMA UnitRead ==
  ASSUME NEW state \in ReadState, ~state.refused, AllMade(state.units),
         NEW x \in BlockSet, x.text # <<>>
  PROVE  LET next == WithUnit(state, x)
         IN  /\ next \in ReadState /\ AllMade(next.units)
             /\ \A k \in Seq(BlockSet) :
                  /\ x \notin ToSet(k) /\ Attached(state.units, k) /\ ~next.refused
                  => Attached(next.units, Append(k, x))
<1> DEFINE units == state.units
           joined == Joins(units, x)
           prior == Last(units)
           longer == [prior EXCEPT !.text = @ \o x.text, !.blocks = Append(@, x)]
           alone == [text |-> x.text, kind |-> x.kind, path |-> state.path,
                     blocks |-> <<x>>]
           unit == IF joined THEN longer ELSE alone
           front == IF joined THEN Front(units) ELSE units
           fitted == Fit(unit)
           next == WithUnit(state, x)
           before == IF joined THEN ToSet(prior.blocks) ELSE {}
           texts == IF joined THEN ToSet(prior.text) ELSE {}
           path == IF joined THEN prior.path ELSE state.path
<1>1. /\ units \in Seq(Unit) /\ state.path \in Seq(Text) /\ x.text \in Text /\ x.kind \in Kind
  BY DEF ReadState, BlockSet
<1>2. joined <=> units # <<>> /\ OpensWithProviso(x.text)
  BY DEF Joins
<1>3. /\ next.units = front \o fitted /\ next.refused = (fitted = <<>>)
      /\ next.path = state.path /\ next = [path |-> state.path, units |-> front \o fitted,
                                           refused |-> fitted = <<>>]
  <2> DEFINE all == front \o fitted
             empty == (fitted = <<>>)
  <2>1. next = [state EXCEPT !.units = all, !.refused = empty]
    BY DEF WithUnit
  <2> HIDE DEF all, empty, next
  <2>2. /\ next.units = all /\ next.refused = empty /\ next.path = state.path
        /\ next = [path |-> state.path, units |-> all, refused |-> empty]
    BY <2>1 DEF ReadState
  <2> QED BY <2>2 DEF all, empty
<1> HIDE DEF units, next, joined, prior
<1>4. joined => /\ prior \in Unit /\ Front(units) \in Seq(Unit)
                /\ ToSet(units) = ToSet(Front(units)) \cup {prior}
  BY <1>1, <1>2, FrontAndLast DEF prior
<1>5. /\ front \in Seq(Unit) /\ ToSet(front) \subseteq ToSet(units)
      /\ joined => ToSet(units) = ToSet(front) \cup {prior}
  BY <1>1, <1>4
<1>6. /\ unit \in Unit /\ ToSet(unit.blocks) = before \cup {x} /\ unit.path = path
      /\ ToSet(unit.text) = texts \cup ToSet(x.text)
      /\ joined => Len(unit.blocks) > 1
      /\ ~joined => unit.blocks = <<x>> /\ unit.text = x.text
  <2>1. CASE joined
    <3>1. prior \in Unit /\ prior.text \in Seq(Token) /\ prior.blocks \in Seq(BlockSet)
      BY <1>4, <2>1 DEF Unit, Text
    <3> DEFINE text == prior.text \o x.text
               blocks == Append(prior.blocks, x)
    <3>2. text \in Text /\ ToSet(text) = ToSet(prior.text) \cup ToSet(x.text)
      BY <1>1, <3>1, ConcatHolds DEF Text
    <3>3. /\ blocks \in Seq(BlockSet) \ {<<>>} /\ ToSet(blocks) = ToSet(prior.blocks) \cup {x}
          /\ Len(blocks) > 1
      <4>1. /\ blocks \in Seq(BlockSet) /\ ToSet(blocks) = ToSet(prior.blocks) \cup {x}
            /\ blocks # <<>>
        BY <3>1, AppendHolds
      <4>2. prior.blocks # <<>>
        BY <4>1, <1>4, <2>1 DEF Unit
      <4>3. Len(prior.blocks) \in Nat /\ Len(prior.blocks) # 0
        BY <3>1, <4>2, EmptySeq, LenProperties
      <4>4. Len(blocks) = Len(prior.blocks) + 1
        BY <3>1, AppendProperties
      <4> QED BY <4>1, <4>3, <4>4
    <3>4. unit = [prior EXCEPT !.text = text, !.blocks = blocks]
      BY <2>1
    <3> HIDE DEF text, blocks, unit
    <3>5. unit \in Unit /\ unit.text = text /\ unit.blocks = blocks /\ unit.path = prior.path
      BY <3>1, <3>2, <3>3, <3>4 DEF Unit
    <3> QED BY <2>1, <3>2, <3>3, <3>5
  <2>2. CASE ~joined
    <3>1. unit = alone
      BY <2>2
    <3>2. <<x>> \in Seq(BlockSet) \ {<<>>}
      OBVIOUS
    <3>3. ToSet(<<x>>) = {x}
      BY DEF ToSet
    <3> HIDE DEF unit
    <3>4. /\ unit \in Unit /\ unit.text = x.text /\ unit.blocks = <<x>>
          /\ unit.path = state.path
      BY <1>1, <3>1, <3>2 DEF Unit
    <3> QED BY <2>2, <3>3, <3>4
  <2> QED BY <2>1, <2>2
<1> HIDE DEF unit
<1>7. /\ fitted \in Seq(Unit)
      /\ \A u \in ToSet(fitted) :
           u.blocks = unit.blocks /\ u.path = unit.path /\ u.kind = unit.kind
      /\ \/ fitted = <<>>
         \/ ToSet(fitted) = {unit} /\ Fits(unit)
         \/ /\ ~Fits(unit)
            /\ unit.kind \notin {"table", "formula"} /\ ~(Len(unit.blocks) > 1)
            /\ \A t \in ToSet(unit.text) :
                 \/ MayGo(unit.path, t)
                 \/ \E u \in ToSet(fitted) : t \in ToSet(u.text)
  BY <1>6, FitCovers
<1> HIDE DEF fitted, front, before, texts, path, joined
<1>8. /\ \A u \in ToSet(fitted) : Fits(u) \/ Grown(u)
      /\ fitted # <<>> => /\ \A t \in texts : \E u \in ToSet(fitted) : t \in ToSet(u.text)
                         /\ \A t \in ToSet(x.text) :
                              \/ Lost(fitted, x, t)
                              \/ \E u \in ToSet(fitted) : t \in ToSet(u.text)
  <2>1. CASE fitted = <<>>
    BY <2>1 DEF ToSet
  <2>2. CASE ToSet(fitted) = {unit} /\ Fits(unit)
    BY <1>6, <2>2
  <2>3. CASE /\ fitted # <<>> /\ ~Fits(unit)
             /\ unit.kind \notin {"table", "formula"} /\ ~(Len(unit.blocks) > 1)
             /\ \A t \in ToSet(unit.text) :
                  \/ MayGo(unit.path, t)
                  \/ \E u \in ToSet(fitted) : t \in ToSet(u.text)
    <3>1. ~joined /\ unit.blocks = <<x>> /\ unit.text = x.text /\ texts = {}
      BY <1>6, <2>3 DEF texts
    <3>2. Count(FlattenSeq(unit.path) \o x.text) > Maximum
      <4>1. UnitText(unit) = FlattenSeq(unit.path) \o x.text
        BY <3>1 DEF UnitText
      <4>2. Count(UnitText(unit)) \in Nat /\ Maximum \in Nat
        BY <1>6, UnitTyped, ChunkingBounds
      <4>3. ~(Count(UnitText(unit)) <= Maximum)
        BY <2>3 DEF Fits
      <4>4. Count(UnitText(unit)) > Maximum
        BY <4>2, <4>3
      <4> QED BY <4>1, <4>4
    <3>3. <<x>>[1] = x /\ Len(<<x>>) = 1
      OBVIOUS
    <3>4. ASSUME NEW u \in ToSet(fitted), ~Fits(u) PROVE Grown(u)
      <4>1. /\ u.blocks = <<x>> /\ u.path = unit.path
            /\ u.kind \notin {"table", "formula"} /\ u \in Unit
        BY <1>7, <2>3, <3>1, Holds
      <4>2. Count(UnitText(u)) \in Nat /\ Maximum \in Nat
        BY <4>1, UnitTyped, ChunkingBounds
      <4>3. Count(UnitText(u)) > Maximum
        BY <3>4, <4>2 DEF Fits
      <4>4. Len(u.blocks) = 1 /\ u.blocks[1].text = x.text
        BY <3>3, <4>1
      <4> QED BY <3>2, <4>1, <4>3, <4>4 DEF Grown
    <3>5. ASSUME NEW t \in ToSet(x.text), MayGo(unit.path, t) PROVE Lost(fitted, x, t)
      <4>1. PICK u \in ToSet(fitted) : TRUE
        BY <1>7, <2>3, Holds
      <4>2. u.blocks = <<x>> /\ u.path = unit.path
        BY <1>7, <3>1
      <4>3. x \in ToSet(u.blocks)
        BY <3>3, <4>2 DEF ToSet
      <4>4. MayBeLost(u, x, t)
        BY <3>2, <3>5, <4>2 DEF MayBeLost, MayGo
      <4> QED BY <4>3, <4>4 DEF Lost
    <3> QED BY <2>3, <3>1, <3>4, <3>5
  <2> QED BY <1>7, <2>1, <2>2, <2>3
<1>9. next \in ReadState /\ AllMade(next.units)
  <2>1. front \o fitted \in Seq(Unit) /\ ToSet(front \o fitted) = ToSet(front) \cup ToSet(fitted)
    BY <1>5, <1>7, ConcatHolds
  <2> DEFINE all == front \o fitted
             empty == (fitted = <<>>)
  <2>2. empty \in BOOLEAN
    OBVIOUS
  <2>3. next = [path |-> state.path, units |-> all, refused |-> empty] /\ next.units = all
    BY <1>3
  <2>4. all \in Seq(Unit) /\ ToSet(all) = ToSet(front) \cup ToSet(fitted)
    BY <2>1
  <2> HIDE DEF all, empty
  <2>5. next \in ReadState
    BY <1>1, <2>2, <2>3, <2>4 DEF ReadState
  <2>6. AllMade(all)
    BY <1>5, <1>8, <2>4 DEF AllMade, units
  <2> QED BY <2>3, <2>5, <2>6
<1>10. ASSUME NEW k \in Seq(BlockSet), x \notin ToSet(k), Attached(units, k), ~next.refused
       PROVE  Attached(next.units, Append(k, x))
  <2>1. fitted # <<>>
    BY <1>3, <1>10
  <2>2. \A u \in ToSet(fitted) : ToSet(u.blocks) = before \cup {x} /\ u.path = path
    BY <1>6, <1>7
  <2>3. /\ \A t \in texts : \E u \in ToSet(fitted) : t \in ToSet(u.text)
        /\ \A t \in ToSet(x.text) :
             Lost(fitted, x, t) \/ \E u \in ToSet(fitted) : t \in ToSet(u.text)
    BY <1>8, <2>1
  <2>4. \/ before = {} /\ front = units /\ (OpensWithProviso(x.text) => units = <<>>)
        \/ /\ units # <<>> /\ ToSet(units) = ToSet(front) \cup {Last(units)}
           /\ before = ToSet(Last(units).blocks) /\ texts = ToSet(Last(units).text)
           /\ path = Last(units).path
    BY <1>2, <1>5 DEF before, front, texts, prior, path
  <2>5. before \subseteq BlockSet
    <3>1. joined => prior.blocks \in Seq(BlockSet)
      BY <1>4 DEF Unit
    <3>2. joined => ToSet(prior.blocks) \subseteq BlockSet
      BY <3>1, Holds
    <3> QED BY <3>2 DEF before
  <2>6. /\ front \in Seq(Unit) /\ fitted \in Seq(Unit) /\ ToSet(front) \subseteq ToSet(units)
        /\ units \in Seq(Unit) /\ k \in Seq(BlockSet) /\ x \notin ToSet(k)
        /\ Attached(units, k)
    BY <1>1, <1>5, <1>7, <1>10
  <2>7. Attached(front \o fitted, Append(k, x))
    BY <2>1, <2>2, <2>3, <2>4, <2>5, <2>6, PartsAttach
  <2> QED BY <1>3, <2>7
<1> QED BY <1>9, <1>10 DEF next, units

\* The path under a heading is one of texts.
LEMMA UnderTyped ==
  ASSUME NEW path \in Seq(Text), NEW block \in BlockSet
  PROVE  Under(path, block) \in Seq(Text)
<1> DEFINE level == IF block.level = None THEN 1 ELSE block.level
           n == Least(level - 1, Len(path))
           upper == SubSeq(path, 1, n)
<1>1. Len(path) \in Nat /\ (\A i \in 1..Len(path) : path[i] \in Text) /\ block.text \in Text
  BY Holds DEF BlockSet
<1>2. level \in 1..6
  BY DEF BlockSet, Levels, None
<1> HIDE DEF level
<1>3. n \in 0..Len(path)
  BY <1>1, <1>2 DEF Least
<1>4. Under(path, block) = Append(upper, block.text)
  BY DEF Under, level
<1> HIDE DEF n
<1>5. \A i \in 1..n : path[i] \in Text /\ i \in 1..Len(path)
  BY <1>1, <1>3
<1>6. upper \in Seq(Text)
  <2>1. n \in Int /\ 1 \in Int
    BY <1>3
  <2> QED BY <1>5, <2>1, SubSeqProperties
<1> HIDE DEF upper
<1> QED BY <1>1, <1>4, <1>6, AppendProperties

MadeState == {state \in ReadState : AllMade(state.units)}

\* The places of the blocks that become text of units.
BodyPlaces(b) == {i \in DOMAIN b : b[i].kind # "heading" /\ b[i].text # <<>>}

Distinct(b) == \A i, j \in DOMAIN b : b[i] = b[j] => i = j

\* Whatever block is read, each unit fits or is a part that has grown.
LEMMA BlockTyped ==
  ASSUME NEW state \in MadeState, NEW x \in BlockSet
  PROVE  WithBlock(state, x) \in MadeState
<1>1. state \in ReadState /\ AllMade(state.units)
  BY DEF MadeState
<1>2. CASE state.refused \/ x.text = <<>>
  BY <1>2 DEF WithBlock
<1>3. CASE ~state.refused /\ x.text # <<>> /\ x.kind = "heading"
  <2> DEFINE path == Under(state.path, x)
  <2>1. path \in Seq(Text)
    BY <1>1, UnderTyped DEF ReadState
  <2>2. WithBlock(state, x) = [state EXCEPT !.path = path]
    BY <1>3 DEF WithBlock
  <2> HIDE DEF path
  <2>3. [state EXCEPT !.path = path] \in ReadState
    BY <1>1, <2>1 DEF ReadState
  <2>4. [state EXCEPT !.path = path].units = state.units
    BY <1>1 DEF ReadState
  <2> QED BY <1>1, <2>2, <2>3, <2>4 DEF MadeState
<1>4. CASE ~state.refused /\ x.text # <<>> /\ x.kind # "heading"
  <2>1. WithBlock(state, x) = WithUnit(state, x)
    BY <1>4 DEF WithBlock
  <2> QED BY <1>1, <1>4, <2>1, UnitRead DEF MadeState
<1> QED BY <1>2, <1>3, <1>4

\* What holds of the units after n blocks, of which k are kept.
Reading(state, b, n, k) ==
  /\ state \in MadeState
  /\ k \in Seq(BlockSet) /\ ToSet(k) \subseteq {b[i] : i \in 1..n}
  /\ ~state.refused => Attached(state.units, k)

\* One block more.
LEMMA NextRead ==
  ASSUME NEW b \in Seq(BlockSet), Distinct(b), NEW n \in 1..Len(b),
         NEW state, NEW k, Reading(state, b, n - 1, k)
  PROVE  Reading(WithBlock(state, b[n]), b, n,
                 IF n \in BodyPlaces(b) THEN Append(k, b[n]) ELSE k)
<1> DEFINE x == b[n]
           next == WithBlock(state, x)
           l == IF n \in BodyPlaces(b) THEN Append(k, x) ELSE k
<1>1. /\ state \in ReadState /\ state \in MadeState /\ AllMade(state.units)
      /\ k \in Seq(BlockSet) /\ ToSet(k) \subseteq {b[i] : i \in 1..(n - 1)}
      /\ ~state.refused => Attached(state.units, k)
  BY DEF Reading, MadeState
<1>2. /\ x \in BlockSet /\ DOMAIN b = 1..Len(b) /\ n \in DOMAIN b
      /\ n \in BodyPlaces(b) <=> x.kind # "heading" /\ x.text # <<>>
      /\ Len(b) \in Nat
  BY Holds DEF BodyPlaces
<1>3. x \notin ToSet(k)
  <2> SUFFICES ASSUME x \in ToSet(k) PROVE FALSE
    OBVIOUS
  <2>1. PICK i \in 1..(n - 1) : x = b[i]
    BY <1>1
  <2>2. i \in 1..Len(b) /\ i # n
    BY <1>2
  <2> QED BY <1>2, <2>1, <2>2 DEF Distinct
<1>4. {b[i] : i \in 1..n} = {b[i] : i \in 1..(n - 1)} \cup {x}
  <2>1. 1..n = (1..(n - 1)) \cup {n}
    BY <1>2
  <2> QED BY <2>1
<1> HIDE DEF x
<1>5. next \in MadeState
  BY <1>1, <1>2, BlockTyped
<1>6. l \in Seq(BlockSet) /\ ToSet(l) \subseteq ToSet(k) \cup {x}
  <2>1. Append(k, x) \in Seq(BlockSet) /\ ToSet(Append(k, x)) = ToSet(k) \cup {x}
    BY <1>1, <1>2, AppendHolds
  <2> QED BY <1>1, <2>1
<1>7. ASSUME ~next.refused PROVE Attached(next.units, l)
  <2>1. CASE state.refused
    <3>1. next = state
      BY <2>1 DEF WithBlock
    <3> QED BY <1>7, <2>1, <3>1
  <2>2. CASE ~state.refused /\ x.text = <<>>
    <3>1. next = state /\ l = k
      BY <1>2, <2>2 DEF WithBlock
    <3> QED BY <1>1, <2>2, <3>1
  <2>3. CASE ~state.refused /\ x.text # <<>> /\ x.kind = "heading"
    <3>1. next = [state EXCEPT !.path = Under(@, x)] /\ l = k
      BY <1>2, <2>3 DEF WithBlock
    <3>2. next.units = state.units
      BY <1>1, <3>1 DEF ReadState
    <3> QED BY <1>1, <2>3, <3>1, <3>2
  <2>4. CASE ~state.refused /\ x.text # <<>> /\ x.kind # "heading"
    <3>1. next = WithUnit(state, x) /\ l = Append(k, x)
      BY <1>2, <2>4 DEF WithBlock
    <3>2. \A m \in Seq(BlockSet) :
            /\ x \notin ToSet(m) /\ Attached(state.units, m) /\ ~WithUnit(state, x).refused
            => Attached(WithUnit(state, x).units, Append(m, x))
      BY <1>1, <1>2, <2>4, UnitRead
    <3> HIDE DEF next, l
    <3> QED BY <1>1, <1>3, <1>7, <2>4, <3>1, <3>2
  <2> QED BY <2>1, <2>2, <2>3, <2>4
<1> HIDE DEF next, l
<1>8. Reading(next, b, n, l)
  BY <1>1, <1>4, <1>5, <1>6, <1>7 DEF Reading
<1> QED BY <1>8 DEF next, l, x

\* Each unit of a canonical document fits or is a part that has grown; unless
\* the document is refused, they hold each word of its body that splitting
\* must not lose, and keep its provisos attached.
LEMMA UnitsCover ==
  ASSUME NEW canonical, FlattenSeq(canonical) \in Seq(BlockSet),
         Distinct(FlattenSeq(canonical))
  PROVE  LET read == SemanticUnits(canonical)
             b == FlattenSeq(canonical)
         IN  /\ read \in ReadState /\ AllMade(read.units)
             /\ ~read.refused => Attached(read.units, Only(b, BodyPlaces(b)))
<1> DEFINE b == FlattenSeq(canonical)
           I == BodyPlaces(b)
           N == Len(b)
           empty == [path |-> <<>>, units |-> <<>>, refused |-> FALSE]
           Solves(f) == f = [n \in 0..N |->
                               IF n = 0 THEN empty ELSE WithBlock(f[n - 1], b[n])]
           step == [n \in 1..N |-> [v \in MadeState |-> WithBlock(v, b[n])]]
           f == CHOOSE g : Solves(g)
<1>1. b \in Seq(BlockSet) /\ Distinct(b) /\ N \in Nat /\ \A n \in 1..N : b[n] \in BlockSet
  BY Holds
<1>2. Reading(empty, b, 0, <<>>) /\ empty \in MadeState
  <2>1. empty \in ReadState /\ empty.units = <<>>
    BY DEF ReadState
  <2>2. ToSet(<<>>) = {} /\ Len(<<>>) = 0 /\ <<>> \in Seq(BlockSet)
    BY DEF ToSet
  <2>3. AllMade(<<>>) /\ Attached(<<>>, <<>>)
    BY <2>2 DEF AllMade, Attached
  <2> HIDE DEF empty, b
  <2>4. empty \in MadeState
    BY <2>1, <2>3 DEF MadeState
  <2> QED BY <2>1, <2>2, <2>3, <2>4 DEF Reading
<1>3. SemanticUnits(canonical) = f[N]
  <2>1. f = CHOOSE g : g = [n \in 0..N |->
                         IF n = 0 THEN [path |-> <<>>, units |-> <<>>, refused |-> FALSE]
                         ELSE WithBlock(g[n - 1], b[n])]
    OBVIOUS
  <2> HIDE DEF f
  <2> QED BY <2>1 DEF SemanticUnits
<1> HIDE DEF b, empty, I
<1>4. step \in [1..N -> [MadeState -> MadeState]]
  BY <1>1, BlockTyped
<1>5. PICK h : Built(h, N, MadeState, empty, step)
  <2> HIDE DEF step
  <2> QED BY <1>1, <1>2, <1>4, StepsExist
<1>6. Solves(h)
  <2>1. h \in [0..N -> MadeState] /\ h[0] = empty /\ \A n \in 1..N : h[n] = step[n][h[n - 1]]
    BY <1>5 DEF Built
  <2>2. \A n \in 0..N : n # 0 => n \in 1..N /\ n - 1 \in 0..N
    BY <1>1
  <2>3. \A n \in 1..N, v \in MadeState : step[n][v] = WithBlock(v, b[n])
    OBVIOUS
  <2> HIDE DEF step
  <2>4. \A n \in 0..N : h[n] = IF n = 0 THEN empty ELSE WithBlock(h[n - 1], b[n])
    BY <2>1, <2>2, <2>3
  <2> QED BY <2>1, <2>4
<1>7. Solves(f)
  <2> HIDE DEF Solves
  <2> QED BY <1>6
<1> HIDE DEF f
<1>8. f[0] = empty /\ \A n \in 1..N : f[n] = WithBlock(f[n - 1], b[n])
  <2>1. \A n \in 0..N : f[n] = IF n = 0 THEN empty ELSE WithBlock(f[n - 1], b[n])
    BY <1>7
  <2>2. 0 \in 0..N /\ \A n \in 1..N : n \in 0..N /\ n # 0
    BY <1>1
  <2> QED BY <2>1, <2>2
<1>9. PICK k \in [0..N -> Seq(BlockSet)] : Sieved(k, b, I)
  BY <1>1, OnlyIs
<1>10. /\ k[0] = <<>> /\ Only(b, I) = k[N]
       /\ \A n \in 1..N : k[n] = IF n \in I THEN Append(k[n - 1], b[n]) ELSE k[n - 1]
  BY <1>9 DEF Sieved
<1> DEFINE G == {n \in 0..N : Reading(f[n], b, n, k[n])}
<1>11. 0 \in G
  BY <1>1, <1>2, <1>8, <1>10
<1>12. ASSUME NEW n \in 1..N, n - 1 \in G PROVE n \in G
  <2> DEFINE s == f[n - 1]
             m == k[n - 1]
  <2>1. Reading(s, b, n - 1, m) /\ n \in 0..N
    BY <1>1, <1>12
  <2> HIDE DEF s, m
  <2>2. Reading(WithBlock(s, b[n]), b, n, IF n \in BodyPlaces(b) THEN Append(m, b[n]) ELSE m)
    BY <1>1, <2>1, NextRead
  <2>3. f[n] = WithBlock(s, b[n]) /\ k[n] = IF n \in BodyPlaces(b) THEN Append(m, b[n]) ELSE m
    BY <1>8, <1>10 DEF s, m, I
  <2> QED BY <2>1, <2>2, <2>3
<1>13. N \in G
  <2>1. G \in SUBSET (0..N)
    OBVIOUS
  <2> HIDE DEF G
  <2>2. G = 0..N
    BY <1>1, <1>11, <1>12, <2>1, StepByStep
  <2> QED BY <1>1, <2>2
<1>14. Reading(f[N], b, N, Only(b, I))
  BY <1>10, <1>13
<1> DEFINE read == SemanticUnits(canonical)
<1>15. read = f[N]
  BY <1>3
<1> HIDE DEF read
<1>16. read \in ReadState /\ AllMade(read.units)
       /\ (~read.refused => Attached(read.units, Only(b, BodyPlaces(b))))
  BY <1>14, <1>15 DEF Reading, MadeState, I
<1> QED BY <1>16 DEF read, b
-----------------------------------------------------------------------------
(* Chunks.                                                                 *)

ChunkSet ==
  [kind : {"parent", "child"}, parent : Nat, text : Text, blocks : SUBSET BlockSet]

Sized(c) == Count(c.text) <= (IF c.kind = "child" THEN Maximum ELSE ParentMaximum)

\* A chunk cites the blocks of the units it is made of.
MadeOf(c, units) ==
  \E some \in SUBSET units : c.blocks = UNION {ToSet(u.blocks) : u \in some}

\* What a group becomes.
LEMMA BuildTyped ==
  ASSUME NEW kind \in {"parent", "child"}, NEW group \in Seq(Unit), NEW p \in Nat
  PROVE  LET c == BuildChunk(kind, group, p)
         IN  /\ c \in ChunkSet /\ c.kind = kind /\ c.text = GroupText(group)
             /\ c.blocks = UNION {ToSet(u.blocks) : u \in ToSet(group)}
<1> DEFINE c == BuildChunk(kind, group, p)
           cited == UNION {ToSet(group[i].blocks) : i \in DOMAIN group}
<1>1. /\ GroupText(group) \in Text /\ ToSet(group) = {group[i] : i \in DOMAIN group}
      /\ \A u \in ToSet(group) : u \in Unit
  <2>1. GroupText(group) \in Text
    BY GroupTyped
  <2>2. ToSet(group) = {group[i] : i \in DOMAIN group} /\ \A u \in ToSet(group) : u \in Unit
    BY Holds
  <2> QED BY <2>1, <2>2
<1>2. {ToSet(group[i].blocks) : i \in DOMAIN group} = {ToSet(u.blocks) : u \in ToSet(group)}
  BY <1>1
<1>3. c = [kind |-> kind, parent |-> p, text |-> GroupText(group), blocks |-> cited]
  BY DEF BuildChunk
<1>4. cited = UNION {ToSet(u.blocks) : u \in ToSet(group)}
  BY <1>2
<1>5. cited \in SUBSET BlockSet
  <2>1. \A u \in ToSet(group) : ToSet(u.blocks) \subseteq BlockSet
    <3> TAKE u \in ToSet(group)
    <3>1. u.blocks \in Seq(BlockSet)
      BY <1>1 DEF Unit
    <3> QED BY <3>1, Holds
  <2> HIDE DEF cited
  <2> QED BY <1>4, <2>1
<1> HIDE DEF cited, c
<1>6. c \in ChunkSet /\ c.kind = kind /\ c.text = GroupText(group) /\ c.blocks = cited
  BY <1>1, <1>3, <1>5 DEF ChunkSet
<1> QED BY <1>4, <1>6 DEF c

\* A parent and its children: unless one of its units was too long alone, all
\* of them are short enough, and no word is lost.
LEMMA ChildrenCover ==
  ASSUME NEW group \in Seq(Unit), NEW p \in Nat,
         Count(GroupText(group)) <= ParentMaximum
  PROVE  LET cut == GroupUnits(group, Maximum, Target, Overlap)
             piece == <<BuildChunk("parent", group, p)>>
                        \o [c \in DOMAIN cut.groups |-> BuildChunk("child", cut.groups[c], p)]
         IN  /\ cut.refused \in BOOLEAN /\ piece \in Seq(ChunkSet)
             /\ cut.refused => TooLong(group, Len(group), Maximum)
             /\ \A c \in ToSet(piece) : MadeOf(c, ToSet(group))
             /\ ~cut.refused =>
                  /\ \A c \in ToSet(piece) : Sized(c)
                  /\ \A u \in ToSet(group) : \A t \in ToSet(u.text) :
                       \E c \in ToSet(piece) : c.kind = "child" /\ t \in ToSet(c.text)
<1> DEFINE cut == GroupUnits(group, Maximum, Target, Overlap)
           groups == cut.groups
           parent == BuildChunk("parent", group, p)
           rest == [c \in DOMAIN groups |-> BuildChunk("child", groups[c], p)]
           piece == <<parent>> \o rest
<1>1. /\ Maximum \in Nat /\ Target \in Nat /\ Overlap \in Nat /\ Target <= Maximum
  BY ChunkingBounds
<1>2. /\ cut.refused \in BOOLEAN /\ groups \in Seq(Seq(Unit))
      /\ InGroups(groups) \subseteq ToSet(group)
      /\ cut.refused => TooLong(group, Len(group), Maximum)
      /\ ~cut.refused => /\ \A i \in DOMAIN groups : Count(GroupText(groups[i])) <= Maximum
                         /\ InGroups(groups) = ToSet(group)
  BY <1>1, GroupsCover
<1> HIDE DEF groups
<1>3. Len(groups) \in Nat /\ DOMAIN groups = 1..Len(groups)
      /\ \A i \in DOMAIN groups : groups[i] \in Seq(Unit)
  BY <1>2, LenProperties
<1>4. /\ parent \in ChunkSet /\ parent.kind = "parent" /\ parent.text = GroupText(group)
      /\ parent.blocks = UNION {ToSet(u.blocks) : u \in ToSet(group)}
  BY BuildTyped
<1>5. \A i \in DOMAIN groups :
        /\ rest[i] \in ChunkSet /\ rest[i].kind = "child" /\ rest[i].text = GroupText(groups[i])
        /\ rest[i].blocks = UNION {ToSet(u.blocks) : u \in ToSet(groups[i])}
  <2> TAKE i \in DOMAIN groups
  <2> DEFINE child == BuildChunk("child", groups[i], p)
  <2>1. /\ child \in ChunkSet /\ child.kind = "child" /\ child.text = GroupText(groups[i])
        /\ child.blocks = UNION {ToSet(u.blocks) : u \in ToSet(groups[i])}
    BY <1>3, BuildTyped
  <2>2. rest[i] = child
    OBVIOUS
  <2> HIDE DEF rest, child
  <2> QED BY <2>1, <2>2
<1>6. rest \in Seq(ChunkSet) /\ DOMAIN rest = DOMAIN groups
      /\ ToSet(rest) = {rest[i] : i \in DOMAIN groups}
  <2>1. DOMAIN rest = DOMAIN groups
    OBVIOUS
  <2>2. rest \in [1..Len(groups) -> ChunkSet]
    BY <1>3, <1>5
  <2> HIDE DEF rest
  <2>3. rest \in Seq(ChunkSet)
    BY <1>3, <2>2, SeqDef
  <2> QED BY <2>1, <2>3 DEF ToSet
<1> HIDE DEF rest, parent
<1>7. piece \in Seq(ChunkSet) /\ ToSet(piece) = {parent} \cup {rest[i] : i \in DOMAIN groups}
  <2> DEFINE one == <<parent>>
  <2>1. one \in Seq(ChunkSet)
    BY <1>4
  <2>2. ToSet(one) = {parent}
    BY DEF ToSet
  <2> HIDE DEF one
  <2>3. one \o rest \in Seq(ChunkSet) /\ ToSet(one \o rest) = ToSet(one) \cup ToSet(rest)
    BY <1>6, <2>1, ConcatHolds
  <2> QED BY <1>6, <2>2, <2>3 DEF one
<1> HIDE DEF piece
<1>8. ASSUME NEW c \in ToSet(piece)
      PROVE  MadeOf(c, ToSet(group)) /\ (~cut.refused => Sized(c))
  <2>1. CASE c = parent
    BY <1>4, <2>1 DEF Sized, MadeOf
  <2>2. CASE \E i \in DOMAIN groups : c = rest[i]
    <3>1. PICK i \in DOMAIN groups : c = rest[i]
      BY <2>2
    <3>2. ToSet(groups[i]) \subseteq ToSet(group)
      BY <1>2 DEF InGroups
    <3>3. ~cut.refused => Sized(c)
      BY <1>2, <1>5, <3>1 DEF Sized
    <3>4. MadeOf(c, ToSet(group))
      BY <1>5, <3>1, <3>2 DEF MadeOf
    <3> QED BY <3>3, <3>4
  <2> QED BY <1>7, <2>1, <2>2
<1>9. ASSUME ~cut.refused, NEW u \in ToSet(group), NEW t \in ToSet(u.text)
      PROVE  \E c \in ToSet(piece) : c.kind = "child" /\ t \in ToSet(c.text)
  <2>1. PICK i \in DOMAIN groups : u \in ToSet(groups[i])
    BY <1>2, <1>9 DEF InGroups
  <2>2. ToSet(u.text) \subseteq ToSet(GroupText(groups[i]))
    <3>1. groups[i] \in Seq(Unit) /\ \E j \in DOMAIN groups[i] : u = groups[i][j]
      BY <1>3, <2>1 DEF ToSet
    <3> QED BY <3>1, GroupTyped
  <2>3. rest[i] \in ToSet(piece) /\ rest[i].kind = "child" /\ t \in ToSet(rest[i].text)
    BY <1>5, <1>7, <2>2
  <2> QED BY <2>3
<1> QED BY <1>2, <1>7, <1>8, <1>9 DEF piece, parent, rest, groups

\* What the chunks of a document have to be, where its body is k and its
\* units are given: short enough, complete but for what splitting may lose,
\* and with each proviso attached; or refused with a reason.
WellCut(cut, units, k) ==
  /\ cut.answer \in {"review", "torn", "chunked"} /\ cut.chunks \in Seq(ChunkSet)
  /\ cut.answer = "torn" => \E u \in ToSet(units) : Grown(u)
  /\ \A c \in ToSet(cut.chunks) : Sized(c)
  /\ cut.answer = "chunked" =>
       \A x \in ToSet(k) : \A t \in ToSet(x.text) :
         \/ Lost(units, x, t)
         \/ \E c \in ToSet(cut.chunks) : c.kind = "child" /\ t \in ToSet(c.text)
  /\ \A i \in 2..Len(k) : OpensWithProviso(k[i].text) =>
       \A c \in ToSet(cut.chunks) : k[i] \in c.blocks => k[i - 1] \in c.blocks

\* Of units that were made, one that is too long alone has grown.
LEMMA LongHasGrown ==
  ASSUME NEW units \in Seq(Unit), AllMade(units), NEW some \in Seq(Unit),
         ToSet(some) \subseteq ToSet(units),
         NEW maximum \in Nat, Maximum <= maximum, TooLong(some, Len(some), maximum)
  PROVE  \E u \in ToSet(units) : Grown(u)
<1>1. PICK n \in 1..Len(some) : ~(Count(UnitText(some[n])) <= maximum)
  BY DEF TooLong
<1>2. some[n] \in Unit /\ some[n] \in ToSet(units)
  BY Holds
<1>3. Count(UnitText(some[n])) \in Nat /\ Maximum \in Nat
  BY <1>2, UnitTyped, ChunkingBounds
<1>4. ~Fits(some[n])
  BY <1>1, <1>3 DEF Fits
<1> QED BY <1>2, <1>4 DEF AllMade

\* What is cut is well cut.
LEMMA ChunksCover ==
  ASSUME NEW canonical, FlattenSeq(canonical) \in Seq(BlockSet),
         Distinct(FlattenSeq(canonical)), NEW issues
  PROVE  WellCut(Chunk(canonical, issues), SemanticUnits(canonical).units,
                 Only(FlattenSeq(canonical), BodyPlaces(FlattenSeq(canonical))))
<1> DEFINE b == FlattenSeq(canonical)
           k == Only(b, BodyPlaces(b))
           read == SemanticUnits(canonical)
           units == read.units
           parents == GroupUnits(units, ParentMaximum, ParentMaximum, 0)
           groups == parents.groups
           cut(p) == GroupUnits(groups[p], Maximum, Target, Overlap)
           children == [p \in DOMAIN groups |-> cut(p)]
           piece(p) == <<BuildChunk("parent", groups[p], p)>>
                         \o [c \in DOMAIN cut(p).groups |->
                               BuildChunk("child", cut(p).groups[c], p)]
           pieces == [p \in DOMAIN groups |-> piece(p)]
           chunks == FlattenSeq(pieces)
           strung == FlattenSeq([p \in DOMAIN children |->
                       <<BuildChunk("parent", groups[p], p)>>
                         \o [c \in DOMAIN children[p].groups |->
                               BuildChunk("child", children[p].groups[c], p)]])
           result_ == Chunk(canonical, issues)
<1>1. /\ units \in Seq(Unit) /\ AllMade(units)
      /\ ~read.refused => Attached(units, k)
  BY UnitsCover DEF ReadState
<1> HIDE DEF k, read, units
<1>2. ParentMaximum \in Nat /\ Maximum <= ParentMaximum /\ Maximum \in Nat
  BY ChunkingBounds
<1>3. /\ parents.refused \in BOOLEAN /\ groups \in Seq(Seq(Unit))
      /\ InGroups(groups) \subseteq ToSet(units)
      /\ parents.refused => TooLong(units, Len(units), ParentMaximum)
      /\ ~parents.refused =>
           /\ \A i \in DOMAIN groups : Count(GroupText(groups[i])) <= ParentMaximum
           /\ InGroups(groups) = ToSet(units)
  <2>1. 0 \in Nat /\ ParentMaximum <= ParentMaximum
    BY <1>2
  <2> QED BY <1>1, <1>2, <2>1, GroupsCover
<1> HIDE DEF groups
<1>4. /\ Len(groups) \in Nat /\ DOMAIN groups = 1..Len(groups)
      /\ \A p \in DOMAIN groups : groups[p] \in Seq(Unit) /\ p \in Nat
                                  /\ ToSet(groups[p]) \subseteq ToSet(units)
  <2>1. /\ Len(groups) \in Nat /\ DOMAIN groups = 1..Len(groups)
        /\ \A p \in DOMAIN groups : groups[p] \in Seq(Unit)
    BY <1>3, LenProperties
  <2>2. \A p \in DOMAIN groups : p \in Nat /\ ToSet(groups[p]) \subseteq ToSet(units)
    BY <1>3, <2>1 DEF InGroups
  <2> QED BY <2>1, <2>2
<1>5. ASSUME ~parents.refused, NEW p \in DOMAIN groups
      PROVE  /\ cut(p).refused \in BOOLEAN /\ piece(p) \in Seq(ChunkSet)
             /\ cut(p).refused => TooLong(groups[p], Len(groups[p]), Maximum)
             /\ \A c \in ToSet(piece(p)) : MadeOf(c, ToSet(groups[p]))
             /\ ~cut(p).refused =>
                  /\ \A c \in ToSet(piece(p)) : Sized(c)
                  /\ \A u \in ToSet(groups[p]) : \A t \in ToSet(u.text) :
                       \E c \in ToSet(piece(p)) : c.kind = "child" /\ t \in ToSet(c.text)
  BY <1>3, <1>4, <1>5, ChildrenCover
<1>6. DOMAIN children = DOMAIN groups /\ \A p \in DOMAIN groups : children[p] = cut(p)
  OBVIOUS
<1>7. result_ =
        IF ~Accepts(issues) \/ read.refused \/ units = <<>> THEN
          [NoChunks EXCEPT !.answer = "review"]
        ELSE IF parents.refused \/ \E p \in DOMAIN children : children[p].refused THEN
          [NoChunks EXCEPT !.answer = "torn"]
        ELSE [answer |-> "chunked", chunks |-> chunks]
  <2>1. result_ =
          IF ~Accepts(issues) \/ read.refused \/ units = <<>> THEN
            [NoChunks EXCEPT !.answer = "review"]
          ELSE IF parents.refused \/ \E p \in DOMAIN children : children[p].refused THEN
            [NoChunks EXCEPT !.answer = "torn"]
          ELSE [answer |-> "chunked", chunks |-> strung]
    BY DEF Chunk, read, units, groups
  <2> HIDE DEF children, cut, result_, parents
  <2>2. [p \in DOMAIN children |->
           <<BuildChunk("parent", groups[p], p)>>
             \o [c \in DOMAIN children[p].groups |->
                   BuildChunk("child", children[p].groups[c], p)]] = pieces
    BY <1>6
  <2>3. strung = chunks
    BY <2>2
  <2> HIDE DEF strung, chunks
  <2> QED BY <2>1, <2>3
<1> HIDE DEF cut, piece, children, parents, result_
<1>8. CASE ~Accepts(issues) \/ read.refused \/ units = <<>>
  <2>1. result_ = [NoChunks EXCEPT !.answer = "review"]
    BY <1>7, <1>8
  <2>2. result_.answer = "review" /\ result_.chunks = <<>>
    BY <2>1 DEF NoChunks
  <2>3. ToSet(<<>>) = {} /\ <<>> \in Seq(ChunkSet)
    BY DEF ToSet
  <2>4. WellCut(result_, units, k)
    BY <2>2, <2>3 DEF WellCut
  <2> QED BY <2>4 DEF result_, k, units, read
<1> DEFINE torn == parents.refused \/ \E p \in DOMAIN children : children[p].refused
<1>9. CASE ~(~Accepts(issues) \/ read.refused \/ units = <<>>) /\ torn
  <2>1. result_ = [NoChunks EXCEPT !.answer = "torn"]
    BY <1>7, <1>9
  <2>2. result_.answer = "torn" /\ result_.chunks = <<>>
    BY <2>1 DEF NoChunks
  <2>3. ToSet(<<>>) = {} /\ <<>> \in Seq(ChunkSet)
    BY DEF ToSet
  <2>4. \E u \in ToSet(units) : Grown(u)
    <3>1. CASE parents.refused
      BY <1>1, <1>2, <1>3, <3>1, LongHasGrown
    <3>2. CASE ~parents.refused
      <4>1. PICK p \in DOMAIN groups : cut(p).refused
        BY <1>6, <1>9, <3>2
      <4>2. TooLong(groups[p], Len(groups[p]), Maximum)
        BY <1>5, <3>2, <4>1
      <4>3. Maximum <= Maximum
        BY <1>2
      <4> QED BY <1>1, <1>2, <1>4, <4>2, <4>3, LongHasGrown
    <3> QED BY <3>1, <3>2
  <2>5. \A i \in 2..Len(k) : OpensWithProviso(k[i].text) =>
          \A c \in ToSet(<<>>) : k[i] \in c.blocks => k[i - 1] \in c.blocks
    BY <2>3
  <2>6. WellCut(result_, units, k)
    BY <2>2, <2>3, <2>4, <2>5 DEF WellCut
  <2> QED BY <2>6 DEF result_, k, units, read
<1>10. CASE ~(~Accepts(issues) \/ read.refused \/ units = <<>>) /\ ~torn
  <2>1. ~parents.refused /\ \A p \in DOMAIN groups : ~cut(p).refused
    BY <1>6, <1>10
  <2>2. result_ = [answer |-> "chunked", chunks |-> chunks]
    BY <1>7, <1>10
  <2>3. pieces \in Seq(Seq(ChunkSet)) /\ DOMAIN pieces = DOMAIN groups
        /\ \A p \in DOMAIN groups : pieces[p] = piece(p)
    <3>1. DOMAIN pieces = DOMAIN groups /\ \A p \in DOMAIN groups : pieces[p] = piece(p)
      OBVIOUS
    <3>2. pieces \in [1..Len(groups) -> Seq(ChunkSet)]
      BY <1>4, <1>5, <2>1
    <3> HIDE DEF pieces
    <3> QED BY <1>4, <3>1, <3>2, SeqDef
  <2> HIDE DEF pieces
  <2>4. /\ chunks \in Seq(ChunkSet)
        /\ ToSet(chunks) = UNION {ToSet(pieces[p]) : p \in DOMAIN pieces}
    BY <2>3, FlattenElements
  <2> HIDE DEF chunks
  <2>5. \A c \in ToSet(chunks) : \E p \in DOMAIN groups : c \in ToSet(piece(p))
    BY <2>3, <2>4
  <2>6. \A p \in DOMAIN groups : ToSet(piece(p)) \subseteq ToSet(chunks)
    BY <2>3, <2>4
  <2>7. Attached(units, k)
    BY <1>1, <1>10
  <2>8. \A c \in ToSet(chunks) : Sized(c)
    BY <1>5, <2>1, <2>5
  <2>9. ASSUME NEW x \in ToSet(k), NEW t \in ToSet(x.text), ~Lost(units, x, t)
        PROVE  \E c \in ToSet(chunks) : c.kind = "child" /\ t \in ToSet(c.text)
    <3>1. PICK u \in ToSet(units) : t \in ToSet(u.text)
      BY <2>7, <2>9 DEF Attached
    <3>2. PICK p \in DOMAIN groups : u \in ToSet(groups[p])
      BY <1>3, <2>1 DEF InGroups
    <3> QED BY <1>5, <2>1, <2>6, <3>1, <3>2
  <2>10. ASSUME NEW i \in 2..Len(k), OpensWithProviso(k[i].text),
                NEW c \in ToSet(chunks), k[i] \in c.blocks
         PROVE  k[i - 1] \in c.blocks
    <3>1. PICK p \in DOMAIN groups : c \in ToSet(piece(p))
      BY <2>5
    <3>2. PICK some \in SUBSET ToSet(groups[p]) : c.blocks = UNION {ToSet(u.blocks) : u \in some}
      BY <1>5, <2>1, <3>1 DEF MadeOf
    <3>3. PICK u \in some : k[i] \in ToSet(u.blocks)
      BY <2>10, <3>2
    <3>4. u \in ToSet(units)
      BY <1>4, <3>2, <3>3
    <3>5. k[i - 1] \in ToSet(u.blocks)
      BY <2>7, <2>10, <3>3, <3>4 DEF Attached
    <3> QED BY <3>2, <3>3, <3>5
  <2>11. WellCut(result_, units, k)
    BY <2>2, <2>4, <2>8, <2>9, <2>10 DEF WellCut
  <2> QED BY <2>11 DEF result_, k, units, read
<1> QED BY <1>8, <1>9, <1>10
-----------------------------------------------------------------------------
(* What the adapters make of a report.                                     *)

Leaf == [kind : Kind, level : Levels, text : Text, page : Nat, boxed : BOOLEAN,
         sized : BOOLEAN, score : Int, kids : {<<>>}]

Node == [kind : Kind, level : Levels, text : Text, page : Nat, boxed : BOOLEAN,
         sized : BOOLEAN, score : Int, kids : Seq(Leaf)]

Pdf == [pages : Seq(Seq(PageElement)), scanned : BOOLEAN]

\* A function on the first numbers is a sequence.
LEMMA MakeSeq ==
  ASSUME NEW S, NEW N \in Nat, NEW f, f \in [1..N -> S]
  PROVE  f \in Seq(S)
BY SeqDef

\* A leaf is a node without children.
LEMMA LeavesAreNodes ==
  ASSUME NEW s \in Seq(Leaf)
  PROVE  s \in Seq(Node)
<1>1. \A n \in Leaf : n \in Node
  <2>1. <<>> \in Seq(Leaf)
    OBVIOUS
  <2> QED BY <2>1 DEF Leaf, Node
<1>2. /\ Len(s) \in Nat /\ s \in [1..Len(s) -> Leaf]
  BY LenProperties
<1>3. s \in [1..Len(s) -> Node]
  BY <1>1, <1>2
<1> QED BY <1>2, <1>3, MakeSeq

\* Sequences as long as others are as long when strung together.
LEMMA SameLength ==
  ASSUME NEW S, NEW T, NEW s \in Seq(Seq(S)), NEW t \in Seq(Seq(T)), Len(s) = Len(t),
         \A n \in 1..Len(s) : Len(s[n]) = Len(t[n])
  PROVE  Len(FlattenSeq(s)) = Len(FlattenSeq(t))
<1> DEFINE N == Len(s)
<1>1. PICK f \in [0..N -> Seq(S)] : Strung(f, s)
  BY FlattenIs
<1>2. PICK g \in [0..Len(t) -> Seq(T)] : Strung(g, t)
  BY FlattenIs
<1>3. /\ N \in Nat
      /\ \A n \in 1..N : s[n] \in Seq(S) /\ t[n] \in Seq(T) /\ n - 1 \in 0..N /\ n \in 0..N
  BY LenProperties
<1>4. /\ f[0] = <<>> /\ FlattenSeq(s) = f[N] /\ \A n \in 1..N : f[n] = f[n - 1] \o s[n]
      /\ g[0] = <<>> /\ FlattenSeq(t) = g[N] /\ \A n \in 1..N : g[n] = g[n - 1] \o t[n]
  BY <1>1, <1>2 DEF Strung
<1> DEFINE G == {n \in 0..N : Len(f[n]) = Len(g[n])}
<1>5. 0 \in G
  BY <1>3, <1>4
<1>6. ASSUME NEW n \in 1..N, n - 1 \in G PROVE n \in G
  <2>1. Len(f[n - 1]) = Len(g[n - 1]) /\ f[n - 1] \in Seq(S) /\ g[n - 1] \in Seq(T)
    BY <1>1, <1>2, <1>3, <1>6
  <2> DEFINE u == f[n - 1]
             v == g[n - 1]
             x == s[n]
             y == t[n]
  <2>2. u \in Seq(S) /\ x \in Seq(S) /\ v \in Seq(T) /\ y \in Seq(T)
    BY <1>3, <2>1
  <2> HIDE DEF u, v, x, y
  <2>3. Len(u \o x) = Len(u) + Len(x)
    BY <2>2, ConcatProperties
  <2>4. Len(v \o y) = Len(v) + Len(y)
    BY <2>2, ConcatProperties
  <2>5. Len(f[n]) = Len(g[n]) /\ n \in 0..N
    BY <1>3, <1>4, <2>1, <2>3, <2>4 DEF u, v, x, y
  <2> QED BY <2>5
<1>7. N \in G
  <2>1. G \in SUBSET (0..N)
    OBVIOUS
  <2> HIDE DEF G
  <2>2. G = 0..N
    BY <1>3, <1>5, <1>6, <2>1, StepByStep
  <2> QED BY <1>3, <2>2
<1> QED BY <1>4, <1>7

\* A PDF has as many nodes as it has elements.
LEMMA NodesTyped ==
  ASSUME NEW file \in Pdf
  PROVE  /\ Nodes(file) \in Seq(Leaf)
         /\ Len(Nodes(file)) = Len(FlattenSeq(file.pages))
         /\ Len(file.pages) \in Nat
<1> DEFINE pages == file.pages
           node(p, i) ==
             [kind |-> pages[p][i].kind, level |-> pages[p][i].level,
              text |-> pages[p][i].text, page |-> p, boxed |-> TRUE,
              sized |-> pages[p][i].kind = "table", score |-> None, kids |-> <<>>]
           made == [p \in DOMAIN pages |-> [i \in DOMAIN pages[p] |-> node(p, i)]]
<1>1. Nodes(file) = FlattenSeq(made)
  BY DEF Nodes
<1>2. pages \in Seq(Seq(PageElement))
  BY DEF Pdf
<1> HIDE DEF pages
<1>3. Len(pages) \in Nat /\ DOMAIN pages = 1..Len(pages)
      /\ \A p \in DOMAIN pages : p \in Nat /\ pages[p] \in Seq(PageElement)
  BY <1>2, LenProperties
<1>4. \A p \in DOMAIN pages : /\ Len(pages[p]) \in Nat /\ DOMAIN pages[p] = 1..Len(pages[p])
                              /\ \A i \in DOMAIN pages[p] : pages[p][i] \in PageElement
  BY <1>3, LenProperties
<1>5. \A p \in DOMAIN pages : \A i \in DOMAIN pages[p] : node(p, i) \in Leaf
  <2> TAKE p \in DOMAIN pages
  <2> TAKE i \in DOMAIN pages[p]
  <2> DEFINE element == pages[p][i]
             table == (element.kind = "table")
  <2>1. element \in PageElement /\ p \in Nat /\ table \in BOOLEAN
    BY <1>3, <1>4
  <2> HIDE DEF element, table
  <2>2. /\ element.kind \in Kind /\ element.level \in Levels /\ element.text \in Text
        /\ None \in Int
    BY <2>1 DEF PageElement, Levels, Text, Token, None, Kind
  <2>3. [kind |-> element.kind, level |-> element.level, text |-> element.text, page |-> p,
         boxed |-> TRUE, sized |-> table, score |-> None, kids |-> <<>>] \in Leaf
    BY <2>1, <2>2 DEF Leaf
  <2> QED BY <2>3 DEF element, table
<1>6. \A p \in DOMAIN pages :
        /\ made[p] = [i \in DOMAIN pages[p] |-> made[p][i]]
        /\ \A i \in DOMAIN pages[p] : made[p][i] = node(p, i)
  OBVIOUS
<1>7. DOMAIN made = DOMAIN pages
  OBVIOUS
<1> HIDE DEF made, node
<1>8. \A p \in DOMAIN pages : made[p] \in Seq(Leaf) /\ Len(made[p]) = Len(pages[p])
  <2> TAKE p \in DOMAIN pages
  <2>1. made[p] \in [1..Len(pages[p]) -> Leaf] /\ DOMAIN made[p] = 1..Len(pages[p])
    <3> DEFINE m == made[p]
               D == DOMAIN pages[p]
               N == Len(pages[p])
    <3>1. m = [i \in D |-> m[i]] /\ D = 1..N
      BY <1>4, <1>6
    <3>2. \A i \in D : m[i] \in Leaf
      BY <1>5, <1>6
    <3> HIDE DEF m, D, N
    <3>3. m \in [1..N -> Leaf] /\ DOMAIN m = 1..N
      BY <3>1, <3>2
    <3> QED BY <3>3 DEF m, N
  <2>2. made[p] \in Seq(Leaf)
    BY <1>4, <2>1, MakeSeq
  <2>3. DOMAIN made[p] = 1..Len(made[p]) /\ Len(made[p]) \in Nat
    BY <2>2, LenProperties
  <2>4. Len(made[p]) = Len(pages[p])
    BY <1>4, <2>1, <2>3
  <2> QED BY <2>2, <2>4
<1>9. made \in Seq(Seq(Leaf)) /\ Len(made) = Len(pages)
  <2>1. made = [p \in 1..Len(pages) |-> made[p]]
    BY <1>3, <1>7 DEF made
  <2>2. made \in [1..Len(pages) -> Seq(Leaf)]
    BY <1>3, <1>8, <2>1
  <2>3. made \in Seq(Seq(Leaf))
    BY <1>3, <2>2, MakeSeq
  <2>4. DOMAIN made = 1..Len(made) /\ Len(made) \in Nat
    BY <2>3, LenProperties
  <2> QED BY <1>3, <1>7, <2>3, <2>4
<1>10. FlattenSeq(made) \in Seq(Leaf)
  BY <1>9, FlattenElements
<1>11. Len(FlattenSeq(made)) = Len(FlattenSeq(pages))
  <2>1. \A n \in 1..Len(made) : Len(made[n]) = Len(pages[n])
    BY <1>3, <1>8, <1>9
  <2> QED BY <1>2, <1>9, <2>1, SameLength
<1> QED BY <1>1, <1>3, <1>10, <1>11 DEF pages

\* What is made of a sequence, place by place.
LEMMA Mapped ==
  ASSUME NEW S, NEW T, NEW s \in Seq(S), NEW f, f = [i \in DOMAIN s |-> f[i]],
         \A i \in DOMAIN s : f[i] \in T
  PROVE  f \in Seq(T) /\ DOMAIN f = DOMAIN s /\ Len(f) = Len(s)
<1> DEFINE N == Len(s)
           D == DOMAIN s
<1>1. N \in Nat /\ D = 1..N
  BY LenProperties
<1> HIDE DEF N, D
<1>2. f \in [1..N -> T] /\ DOMAIN f = 1..N
  BY <1>1 DEF D
<1>3. f \in Seq(T)
  BY <1>1, <1>2, MakeSeq
<1>4. Len(f) \in Nat /\ DOMAIN f = 1..Len(f)
  BY <1>3, LenProperties
<1>5. Len(f) = N
  BY <1>1, <1>2, <1>4
<1> QED BY <1>1, <1>2, <1>3, <1>5 DEF N, D

\* Nodes with a flaw are nodes.
LEMMA FlawedTyped ==
  ASSUME NEW nodes \in Seq(Leaf), NEW flaw,
         flaw # "whole" => Len(nodes) > 0, flaw = "nested" => Len(nodes) > 1
  PROVE  Flawed(nodes, flaw) \in Seq(Node)
<1> DEFINE last == Len(nodes)
           made == Flawed(nodes, flaw)
<1>1. /\ last \in Nat /\ DOMAIN nodes = 1..last /\ \A i \in 1..last : nodes[i] \in Leaf
      /\ nodes = <<>> <=> last = 0
  BY LenProperties, EmptySeq
<1>2. CASE flaw = "lost"
  <2>1. made = Front(nodes) /\ nodes # <<>>
    BY <1>1, <1>2 DEF Flawed
  <2>2. Front(nodes) \in Seq(Leaf)
    BY <2>1, FrontAndLast
  <2> HIDE DEF made
  <2> QED BY <2>1, <2>2, LeavesAreNodes DEF made
<1>3. CASE flaw = "unboxed"
  <2> DEFINE first == [nodes[1] EXCEPT !.boxed = FALSE]
             changed == [nodes EXCEPT ![1] = first]
  <2>1. made = changed
    BY <1>3 DEF Flawed
  <2>2. 1 \in 1..last /\ nodes[1] \in Leaf
    BY <1>1, <1>3
  <2>3. first \in Leaf
    BY <2>2 DEF Leaf
  <2> HIDE DEF first
  <2>4. changed \in Seq(Leaf)
    BY <2>2, <2>3, ExceptSeq
  <2> HIDE DEF made, changed
  <2> QED BY <2>1, <2>4, LeavesAreNodes DEF made
<1>4. CASE flaw = "misplaced"
  <2> DEFINE moved == [nodes[last] EXCEPT !.page = @ + 1]
             changed == [nodes EXCEPT ![last] = moved]
  <2>1. made = changed
    BY <1>4 DEF Flawed
  <2>2. last \in 1..last /\ nodes[last] \in Leaf
    BY <1>1, <1>4
  <2>3. moved \in Leaf
    <3>1. nodes[last].page + 1 \in Nat
      BY <2>2 DEF Leaf
    <3> QED BY <2>2, <3>1 DEF Leaf
  <2> HIDE DEF moved
  <2>4. changed \in Seq(Leaf)
    BY <2>2, <2>3, ExceptSeq
  <2> HIDE DEF made, changed
  <2> QED BY <2>1, <2>4, LeavesAreNodes DEF made
<1>5. CASE flaw = "flat"
  <2> DEFINE flat == [i \in DOMAIN nodes |-> [nodes[i] EXCEPT !.level = None, !.sized = FALSE]]
  <2>1. made = flat
    BY <1>5 DEF Flawed
  <2>2. flat = [i \in DOMAIN nodes |-> flat[i]]
    OBVIOUS
  <2>3. \A i \in DOMAIN nodes : flat[i] = [nodes[i] EXCEPT !.level = None, !.sized = FALSE]
    OBVIOUS
  <2> HIDE DEF made, flat
  <2>4. \A i \in DOMAIN nodes : flat[i] \in Leaf
    <3> TAKE i \in DOMAIN nodes
    <3> DEFINE n == nodes[i]
    <3>1. n \in Leaf /\ None \in Levels
      BY <1>1 DEF Levels
    <3> HIDE DEF n
    <3>2. [n EXCEPT !.level = None, !.sized = FALSE] \in Leaf
      BY <3>1 DEF Leaf
    <3> QED BY <2>3, <3>2, Zenon DEF n
  <2>5. flat \in Seq(Leaf)
    BY <2>2, <2>4, Mapped
  <2> QED BY <2>1, <2>5, LeavesAreNodes DEF made
<1>6. CASE flaw = "blurred"
  <2> DEFINE score(i) == OcrPercent - (i % 2)
             blurred == [i \in DOMAIN nodes |-> [nodes[i] EXCEPT !.score = score(i)]]
  <2>1. made = blurred
    BY <1>6 DEF Flawed
  <2>2. \A i \in DOMAIN nodes : score(i) \in Int
    <3> TAKE i \in DOMAIN nodes
    <3>1. i \in Nat
      BY <1>1
    <3>2. i % 2 \in Int
      BY <3>1
    <3>3. OcrPercent \in Int
      <4>1. OcrPercent \in 0..100
        BY ParsingBounds, Zenon
      <4> QED BY <4>1
    <3> QED BY <3>2, <3>3
  <2> HIDE DEF score
  <2>3. blurred = [i \in DOMAIN nodes |-> blurred[i]]
    OBVIOUS
  <2>4. \A i \in DOMAIN nodes : blurred[i] \in Leaf
    <3> TAKE i \in DOMAIN nodes
    <3> DEFINE n == nodes[i]
               c == score(i)
    <3>1. n \in Leaf /\ c \in Int
      BY <1>1, <2>2
    <3> HIDE DEF n, c
    <3>2. [n EXCEPT !.score = c] \in Leaf
      BY <3>1 DEF Leaf
    <3> QED BY <3>2 DEF n, c
  <2> HIDE DEF made, blurred
  <2>5. blurred \in Seq(Leaf)
    BY <2>3, <2>4, Mapped
  <2> QED BY <2>1, <2>5, LeavesAreNodes DEF made
<1>7. CASE flaw = "nested"
  <2> DEFINE kids == SubSeq(nodes, 1, 2)
             tail == SubSeq(nodes, 3, last)
             nest == [nodes[1] EXCEPT !.kind = "other", !.text = <<>>, !.kids = kids]
             one == <<nest>>
             joined == one \o tail
  <2>1. made = joined
    BY <1>7 DEF Flawed
  <2>2. last > 1 /\ nodes[1] \in Leaf
    BY <1>1, <1>7
  <2>3. kids \in Seq(Leaf)
    <3>1. \A i \in 1..2 : nodes[i] \in Leaf
      BY <1>1, <2>2
    <3> QED BY <3>1, SubSeqProperties
  <2>4. tail \in Seq(Leaf)
    <3>1. \A i \in 3..last : nodes[i] \in Leaf
      BY <1>1
    <3>2. 3 \in Int /\ last \in Int
      BY <1>1
    <3> HIDE DEF last
    <3> QED BY <3>1, <3>2, SubSeqProperties
  <2> HIDE DEF kids, tail
  <2>5. nest \in Node
    <3> DEFINE n == nodes[1]
               K == Seq(Leaf)
    <3>1. n \in Leaf /\ kids \in K
      BY <2>2, <2>3
    <3>2. <<>> \in Text
      BY DEF Text
    <3> HIDE DEF n, K
    <3> DEFINE kind == "other"
               other == [n EXCEPT !.kind = kind]
               empty == [other EXCEPT !.text = <<>>]
    <3>3. other \in Leaf
      <4>1. kind \in Kind
        BY DEF Kind
      <4> HIDE DEF kind
      <4> QED BY <3>1, <4>1 DEF Leaf
    <3> HIDE DEF other
    <3>4. empty \in Leaf
      BY <3>2, <3>3 DEF Leaf
    <3> HIDE DEF empty
    <3>5. [empty EXCEPT !.kids = kids]
            \in [kind : Kind, level : Levels, text : Text, page : Nat, boxed : BOOLEAN,
                 sized : BOOLEAN, score : Int, kids : K]
      BY <3>1, <3>4 DEF Leaf
    <3> QED BY <3>5 DEF n, K, Node, empty, other, kind
  <2> HIDE DEF nest
  <2>6. one \in Seq(Node)
    BY <2>5
  <2>7. tail \in Seq(Node)
    BY <2>4, LeavesAreNodes
  <2> HIDE DEF one
  <2>8. joined \in Seq(Node)
    BY <2>6, <2>7, ConcatProperties
  <2> HIDE DEF made
  <2> QED BY <2>1, <2>8 DEF made
<1>8. CASE /\ flaw # "lost" /\ flaw # "unboxed" /\ flaw # "misplaced"
           /\ flaw # "flat" /\ flaw # "blurred" /\ flaw # "nested"
  <2>1. made = nodes
    BY <1>8, Zenon DEF Flawed
  <2> HIDE DEF made
  <2> QED BY <2>1, LeavesAreNodes DEF made
<1> QED BY <1>2, <1>3, <1>4, <1>5, <1>6, <1>7, <1>8

\* A report is one of nodes, whatever its flaw.
LEMMA ReportTyped ==
  ASSUME NEW file \in Pdf, NEW flaw, Applicable(file, flaw)
  PROVE  Report(file, flaw).count \in Nat /\ Report(file, flaw).nodes \in Seq(Node)
<1> DEFINE nodes == Nodes(file)
<1>1. nodes \in Seq(Leaf) /\ Len(file.pages) \in Nat /\ Len(nodes) = Len(FlattenSeq(file.pages))
  BY NodesTyped
<1>2. (flaw # "whole" => Len(nodes) > 0) /\ (flaw = "nested" => Len(nodes) > 1)
  BY <1>1 DEF Applicable
<1>3. Flawed(nodes, flaw) \in Seq(Node)
  BY <1>1, <1>2, FlawedTyped
<1> QED BY <1>1, <1>3 DEF Report
-----------------------------------------------------------------------------
(* Blocks are told apart by their numbers.                                 *)

Apart(s) == \A i, j \in DOMAIN s : s[i].id = s[j].id => i = j

\* Two sequences joined are apart where each is and no number is in both.
LEMMA ConcatApart ==
  ASSUME NEW s \in Seq(BlockSet), NEW t \in Seq(BlockSet), Apart(s), Apart(t),
         \A x \in ToSet(s), y \in ToSet(t) : x.id # y.id
  PROVE  Apart(s \o t)
<1> DEFINE u == s \o t
<1>1. /\ u \in Seq(BlockSet) /\ Len(u) = Len(s) + Len(t)
      /\ \A i \in 1..Len(u) : u[i] = IF i <= Len(s) THEN s[i] ELSE t[i - Len(s)]
  BY ConcatProperties
<1>2. /\ Len(s) \in Nat /\ DOMAIN s = 1..Len(s) /\ ToSet(s) = {s[i] : i \in 1..Len(s)}
      /\ Len(t) \in Nat /\ DOMAIN t = 1..Len(t) /\ ToSet(t) = {t[i] : i \in 1..Len(t)}
  BY Holds
<1> HIDE DEF u
<1>3. DOMAIN u = 1..Len(u)
  BY <1>1, LenProperties
<1>4. ASSUME NEW i \in DOMAIN u, NEW j \in DOMAIN u, u[i].id = u[j].id PROVE i = j
  <2>1. i \in 1..Len(u) /\ j \in 1..Len(u)
    BY <1>3
  <2>2. CASE i <= Len(s) /\ j <= Len(s)
    <3>1. i \in DOMAIN s /\ j \in DOMAIN s /\ u[i] = s[i] /\ u[j] = s[j]
      BY <1>1, <1>2, <2>1, <2>2
    <3> QED BY <1>4, <3>1 DEF Apart
  <2>3. CASE ~(i <= Len(s)) /\ ~(j <= Len(s))
    <3>1. /\ i - Len(s) \in DOMAIN t /\ j - Len(s) \in DOMAIN t
          /\ u[i] = t[i - Len(s)] /\ u[j] = t[j - Len(s)]
      BY <1>1, <1>2, <2>1, <2>3
    <3>2. i - Len(s) = j - Len(s)
      BY <1>4, <3>1 DEF Apart
    <3> QED BY <1>2, <2>1, <3>2
  <2>4. CASE i <= Len(s) /\ ~(j <= Len(s))
    <3>1. u[i] \in ToSet(s) /\ u[j] \in ToSet(t)
      <4>1. i \in 1..Len(s) /\ j - Len(s) \in 1..Len(t)
        BY <1>1, <1>2, <2>1, <2>4
      <4> QED BY <1>1, <1>2, <2>1, <2>4, <4>1
    <3> QED BY <1>4, <3>1
  <2>5. CASE ~(i <= Len(s)) /\ j <= Len(s)
    <3>1. u[j] \in ToSet(s) /\ u[i] \in ToSet(t)
      <4>1. j \in 1..Len(s) /\ i - Len(s) \in 1..Len(t)
        BY <1>1, <1>2, <2>1, <2>5
      <4> QED BY <1>1, <1>2, <2>1, <2>5, <4>1
    <3> QED BY <1>4, <3>1
  <2> QED BY <2>2, <2>3, <2>4, <2>5
<1> QED BY <1>4 DEF Apart, u

\* What is left of blocks that are apart is apart.
LEMMA OnlyApart ==
  ASSUME NEW s \in Seq(BlockSet), Apart(s), NEW I
  PROVE  Apart(Only(s, I))
<1>1. PICK f \in [0..Len(s) -> Seq(BlockSet)] : Sieved(f, s, I)
  BY OnlyIs
<1> DEFINE N == Len(s)
           G == {n \in 0..N : Apart(f[n]) /\ ToSet(f[n]) \subseteq {s[i] : i \in 1..n}}
<1>2. N \in Nat /\ DOMAIN s = 1..N /\ \A n \in 1..N : s[n] \in BlockSet /\ n - 1 \in 0..N
  BY LenProperties
<1>3. /\ f[0] = <<>> /\ Only(s, I) = f[N]
      /\ \A n \in 1..N : f[n] = IF n \in I THEN Append(f[n - 1], s[n]) ELSE f[n - 1]
  BY <1>1 DEF Sieved
<1>4. 0 \in G
  <2>1. ToSet(<<>>) = {} /\ DOMAIN <<>> = {}
    BY DEF ToSet
  <2> QED BY <1>2, <1>3, <2>1 DEF Apart
<1>5. ASSUME NEW n \in 1..N, n - 1 \in G PROVE n \in G
  <2> DEFINE k == f[n - 1]
             x == s[n]
             one == <<x>>
  <2>1. /\ k \in Seq(BlockSet) /\ Apart(k) /\ ToSet(k) \subseteq {s[i] : i \in 1..(n - 1)}
        /\ x \in BlockSet /\ n \in 0..N
        /\ f[n] = IF n \in I THEN Append(k, x) ELSE k
    <3>1. Apart(k) /\ ToSet(k) \subseteq {s[i] : i \in 1..(n - 1)}
      BY <1>5
    <3>2. k \in Seq(BlockSet) /\ x \in BlockSet /\ n \in 0..N
      BY <1>2
    <3>3. f[n] = IF n \in I THEN Append(k, x) ELSE k
      BY <1>3
    <3> QED BY <3>1, <3>2, <3>3
  <2>2. \A y \in ToSet(k) : y.id # x.id
    <3> TAKE y \in ToSet(k)
    <3>1. PICK i \in 1..(n - 1) : y = s[i]
      BY <2>1
    <3>2. i \in DOMAIN s /\ n \in DOMAIN s /\ i # n
      BY <1>2
    <3> QED BY <3>1, <3>2 DEF Apart
  <2>3. {s[i] : i \in 1..(n - 1)} \cup {x} = {s[i] : i \in 1..n}
    <3>1. 1..n = (1..(n - 1)) \cup {n}
      BY <1>2
    <3> QED BY <3>1
  <2> HIDE DEF k, x
  <2>4. one \in Seq(BlockSet) /\ ToSet(one) = {x} /\ Apart(one)
    <3>1. one \in Seq(BlockSet) /\ DOMAIN one = {1} /\ one[1] = x
      BY <2>1
    <3> HIDE DEF one
    <3>2. ToSet(one) = {x}
      BY <3>1 DEF ToSet
    <3> QED BY <3>1, <3>2 DEF Apart
  <2>5. Append(k, x) = k \o one
    BY <2>1, AppendIsConcat
  <2> HIDE DEF one
  <2>6. Apart(k \o one) /\ ToSet(k \o one) = ToSet(k) \cup {x}
    BY <2>1, <2>2, <2>4, ConcatApart, ConcatHolds
  <2>7. Apart(f[n]) /\ ToSet(f[n]) \subseteq ToSet(k) \cup {x}
    BY <2>1, <2>5, <2>6
  <2> QED BY <2>1, <2>3, <2>7
<1>6. N \in G
  <2>1. G \in SUBSET (0..N)
    OBVIOUS
  <2> HIDE DEF G
  <2>2. G = 0..N
    BY <1>2, <1>4, <1>5, <2>1, StepByStep
  <2> QED BY <1>2, <2>2
<1> QED BY <1>3, <1>6

\* Pages of blocks, no two of which have the same number.
PagesApart(pages) ==
  /\ pages \in Seq(Seq(BlockSet))
  /\ \A p \in DOMAIN pages : Apart(pages[p])
  /\ \A p, q \in DOMAIN pages : \A x \in ToSet(pages[p]), y \in ToSet(pages[q]) :
       x.id = y.id => p = q

\* Strung together, they are apart.
LEMMA FlattenApart ==
  ASSUME NEW pages, PagesApart(pages)
  PROVE  /\ FlattenSeq(pages) \in Seq(BlockSet)
         /\ Apart(FlattenSeq(pages)) /\ Distinct(FlattenSeq(pages))
<1>1. pages \in Seq(Seq(BlockSet))
  BY DEF PagesApart
<1>2. PICK f \in [0..Len(pages) -> Seq(BlockSet)] : Strung(f, pages)
  BY <1>1, FlattenIs
<1> DEFINE N == Len(pages)
           U(n) == UNION {ToSet(pages[i]) : i \in 1..n}
           G == {n \in 0..N : Apart(f[n]) /\ ToSet(f[n]) \subseteq U(n)}
<1>3. /\ N \in Nat /\ DOMAIN pages = 1..N
      /\ \A n \in 1..N : pages[n] \in Seq(BlockSet) /\ n - 1 \in 0..N
  BY <1>1, LenProperties
<1>4. /\ f[0] = <<>> /\ FlattenSeq(pages) = f[N]
      /\ \A n \in 1..N : f[n] = f[n - 1] \o pages[n]
  BY <1>2 DEF Strung
<1>5. 0 \in G
  <2>1. ToSet(<<>>) = {} /\ DOMAIN <<>> = {}
    BY DEF ToSet
  <2> HIDE DEF U
  <2> QED BY <1>3, <1>4, <2>1 DEF Apart
<1>6. ASSUME NEW n \in 1..N, n - 1 \in G PROVE n \in G
  <2> DEFINE k == f[n - 1]
             page == pages[n]
  <2>1. n - 1 \in 0..N /\ Apart(k) /\ ToSet(k) \subseteq U(n - 1)
    BY <1>6
  <2>2. /\ k \in Seq(BlockSet) /\ page \in Seq(BlockSet) /\ n \in 0..N
        /\ f[n] = k \o page
    BY <1>2, <1>3, <1>4, <2>1
  <2>3. Apart(page)
    BY <1>3 DEF PagesApart
  <2>4. \A x \in ToSet(k), y \in ToSet(page) : x.id # y.id
    <3> TAKE x \in ToSet(k), y \in ToSet(page)
    <3>1. PICK i \in 1..(n - 1) : x \in ToSet(pages[i])
      BY <2>1
    <3>2. i \in DOMAIN pages /\ n \in DOMAIN pages /\ i # n
      BY <1>3
    <3> QED BY <3>1, <3>2 DEF PagesApart
  <2>5. U(n) = U(n - 1) \cup ToSet(page)
    <3>1. 1..n = (1..(n - 1)) \cup {n}
      BY <1>3
    <3> QED BY <3>1
  <2> HIDE DEF k, page, U
  <2>6. Apart(k \o page) /\ ToSet(k \o page) = ToSet(k) \cup ToSet(page)
    BY <2>1, <2>2, <2>3, <2>4, ConcatApart, ConcatHolds
  <2> QED BY <2>1, <2>2, <2>5, <2>6
<1>7. N \in G
  <2>1. G \in SUBSET (0..N)
    OBVIOUS
  <2> HIDE DEF G
  <2>2. G = 0..N
    BY <1>3, <1>5, <1>6, <2>1, StepByStep
  <2> QED BY <1>3, <2>2
<1>8. Apart(FlattenSeq(pages)) /\ FlattenSeq(pages) \in Seq(BlockSet)
  BY <1>1, <1>4, <1>7, FlattenElements
<1> QED BY <1>8 DEF Apart, Distinct

\* The pages of an output are apart.
LEMMA OutputApart ==
  ASSUME NEW parser, NEW count \in Nat, NEW blocks \in Seq(BlockSet),
         \A i \in DOMAIN blocks : blocks[i].id = i
  PROVE  PagesApart(Output(parser, count, blocks).pages)
<1> DEFINE on(p) == {i \in DOMAIN blocks : blocks[i].page = p}
           pages == [p \in 1..count |-> Only(blocks, on(p))]
<1>1. Output(parser, count, blocks).pages = pages
  BY DEF Output, Having
<1>2. Apart(blocks)
  BY DEF Apart
<1>3. \A p \in 1..count : pages[p] = Only(blocks, on(p))
  OBVIOUS
<1>4. DOMAIN pages = 1..count /\ pages = [p \in 1..count |-> pages[p]]
  OBVIOUS
<1>5. \A p \in 1..count : \A x \in ToSet(Only(blocks, on(p))) :
        x.page = p /\ \E i \in DOMAIN blocks : x = blocks[i]
  <2> TAKE p \in 1..count
  <2>1. ToSet(Only(blocks, on(p))) = {blocks[i] : i \in on(p) \cap DOMAIN blocks}
    BY OnlyElements
  <2> QED BY <2>1
<1> HIDE DEF on, pages
<1>6. \A p \in 1..count : /\ pages[p] \in Seq(BlockSet) /\ Apart(pages[p])
                          /\ \A x \in ToSet(pages[p]) :
                               x.page = p /\ \E i \in DOMAIN blocks : x = blocks[i]
  <2> TAKE p \in 1..count
  <2>1. Only(blocks, on(p)) \in Seq(BlockSet)
    BY OnlyElements
  <2>2. Apart(Only(blocks, on(p)))
    BY <1>2, OnlyApart
  <2> QED BY <1>3, <1>5, <2>1, <2>2
<1>7. pages \in Seq(Seq(BlockSet))
  <2>1. pages \in [1..count -> Seq(BlockSet)]
    BY <1>4, <1>6
  <2> QED BY <2>1, MakeSeq
<1>8. ASSUME NEW p \in 1..count, NEW q \in 1..count,
             NEW x \in ToSet(pages[p]), NEW y \in ToSet(pages[q]), x.id = y.id
      PROVE  p = q
  <2>1. x.page = p /\ \E i \in DOMAIN blocks : x = blocks[i]
    BY <1>6
  <2>2. y.page = q /\ \E j \in DOMAIN blocks : y = blocks[j]
    BY <1>6
  <2> QED BY <1>8, <2>1, <2>2
<1>9. PagesApart(pages)
  BY <1>4, <1>6, <1>7, <1>8 DEF PagesApart
<1> QED BY <1>1, <1>9

\* A block without its NUL characters: the same in everything else, with the
\* same tokens else.
Cleaned(block) == [block EXCEPT !.text = Having(@, LAMBDA t : "nul" \notin Marks[t])]

\* It stays a block, with the tokens that are no NUL.
LEMMA CleanedTyped ==
  ASSUME NEW block \in BlockSet
  PROVE  /\ Cleaned(block) \in BlockSet /\ Cleaned(block).id = block.id
         /\ ToSet(Cleaned(block).text) = {t \in ToSet(block.text) : "nul" \notin Marks[t]}
<1> DEFINE text == block.text
           I == {i \in DOMAIN text : "nul" \notin Marks[text[i]]}
           clean == Only(text, I)
<1>1. text \in Seq(Token)
  BY DEF BlockSet, Text
<1>2. clean \in Seq(Token) /\ ToSet(clean) = {text[i] : i \in I \cap DOMAIN text}
  BY <1>1, OnlyElements
<1>3. ToSet(clean) = {t \in ToSet(text) : "nul" \notin Marks[t]}
  BY <1>2 DEF ToSet
<1>4. Cleaned(block) = [block EXCEPT !.text = clean]
  BY DEF Cleaned, Having
<1> HIDE DEF clean, text
<1>5. [block EXCEPT !.text = clean] \in BlockSet
  BY <1>2 DEF BlockSet, Text
<1>6. [block EXCEPT !.text = clean].id = block.id /\ [block EXCEPT !.text = clean].text = clean
  BY DEF BlockSet
<1> QED BY <1>3, <1>4, <1>5, <1>6 DEF text

\* The canonical document keeps the blocks and their numbers.
LEMMA CanonicalApart ==
  ASSUME NEW output, PagesApart(output.pages)
  PROVE  /\ PagesApart(Canonical(output))
         /\ \A x \in ToSet(FlattenSeq(output.pages)) :
              Cleaned(x) \in ToSet(FlattenSeq(Canonical(output)))
<1> DEFINE pages == output.pages
           clean == Canonical(output)
<1>1. clean = [p \in DOMAIN pages |-> [i \in DOMAIN pages[p] |-> Cleaned(pages[p][i])]]
  BY DEF Canonical, Cleaned
<1>2. PagesApart(pages)
  OBVIOUS
<1> HIDE DEF pages, clean
<1>3. /\ pages \in Seq(Seq(BlockSet)) /\ Len(pages) \in Nat /\ DOMAIN pages = 1..Len(pages)
      /\ \A p \in DOMAIN pages : pages[p] \in Seq(BlockSet) /\ Apart(pages[p])
  <2>1. pages \in Seq(Seq(BlockSet)) /\ \A p \in DOMAIN pages : Apart(pages[p])
    BY <1>2 DEF PagesApart
  <2> QED BY <2>1, LenProperties
<1>4. DOMAIN clean = DOMAIN pages /\ clean = [p \in DOMAIN pages |-> clean[p]]
  BY <1>1
<1>5. ASSUME NEW p \in DOMAIN pages
      PROVE  /\ clean[p] \in Seq(BlockSet) /\ DOMAIN clean[p] = DOMAIN pages[p]
             /\ \A i \in DOMAIN pages[p] :
                  clean[p][i] = Cleaned(pages[p][i]) /\ clean[p][i].id = pages[p][i].id
             /\ ToSet(clean[p]) = {Cleaned(x) : x \in ToSet(pages[p])}
  <2> DEFINE page == pages[p]
             c == [i \in DOMAIN page |-> Cleaned(page[i])]
  <2>1. clean[p] = c
    BY <1>1
  <2>2. c = [i \in DOMAIN page |-> c[i]] /\ \A i \in DOMAIN page : c[i] = Cleaned(page[i])
    OBVIOUS
  <2>3. page \in Seq(BlockSet) /\ \A i \in DOMAIN page : page[i] \in BlockSet
    BY <1>3, LenProperties
  <2> HIDE DEF page, c
  <2>4. \A i \in DOMAIN page : c[i] \in BlockSet /\ c[i].id = page[i].id
    BY <2>2, <2>3, CleanedTyped
  <2>5. c \in Seq(BlockSet) /\ DOMAIN c = DOMAIN page
    BY <2>2, <2>3, <2>4, Mapped
  <2>6. ToSet(c) = {Cleaned(x) : x \in ToSet(page)}
    BY <2>2, <2>5 DEF ToSet
  <2> QED BY <2>1, <2>2, <2>4, <2>5, <2>6 DEF page
<1>6. clean \in Seq(Seq(BlockSet))
  <2>1. \A p \in DOMAIN pages : clean[p] \in Seq(BlockSet)
    BY <1>5
  <2> QED BY <1>3, <1>4, <2>1, Mapped
<1>7. \A p \in DOMAIN pages : Apart(clean[p])
  BY <1>3, <1>5 DEF Apart
<1>8. ASSUME NEW p \in DOMAIN pages, NEW q \in DOMAIN pages,
             NEW x \in ToSet(clean[p]), NEW y \in ToSet(clean[q]), x.id = y.id
      PROVE  p = q
  <2>1. \E i \in DOMAIN pages[p] : x = clean[p][i]
    BY <1>5 DEF ToSet
  <2>2. \E j \in DOMAIN pages[q] : y = clean[q][j]
    BY <1>5 DEF ToSet
  <2>3. PICK i \in DOMAIN pages[p] : x = clean[p][i]
    BY <2>1
  <2>4. PICK j \in DOMAIN pages[q] : y = clean[q][j]
    BY <2>2
  <2>5. x.id = pages[p][i].id /\ pages[p][i] \in ToSet(pages[p])
    BY <1>5, <2>3 DEF ToSet
  <2>6. y.id = pages[q][j].id /\ pages[q][j] \in ToSet(pages[q])
    BY <1>5, <2>4 DEF ToSet
  <2> QED BY <1>2, <1>8, <2>5, <2>6 DEF PagesApart
<1>9. PagesApart(clean)
  BY <1>4, <1>6, <1>7, <1>8 DEF PagesApart
<1>10. ASSUME NEW x \in ToSet(FlattenSeq(pages))
       PROVE  Cleaned(x) \in ToSet(FlattenSeq(clean))
  <2>1. ToSet(FlattenSeq(pages)) = UNION {ToSet(pages[p]) : p \in DOMAIN pages}
    BY <1>3, FlattenElements
  <2>2. ToSet(FlattenSeq(clean)) = UNION {ToSet(clean[p]) : p \in DOMAIN clean}
    BY <1>6, FlattenElements
  <2>3. PICK p \in DOMAIN pages : x \in ToSet(pages[p])
    BY <2>1
  <2>4. Cleaned(x) \in ToSet(clean[p]) /\ p \in DOMAIN clean
    BY <1>4, <1>5, <2>3
  <2> QED BY <2>2, <2>4
<1> QED BY <1>9, <1>10 DEF pages, clean
-----------------------------------------------------------------------------
(* The adapters.                                                           *)

\* A block is made of a node.
LEMMA MadeBlock ==
  ASSUME NEW i \in Nat, NEW node \in Node, NEW kind \in Kind, NEW text \in Text
  PROVE  Block(i, node, kind, text) \in BlockSet /\ Block(i, node, kind, text).id = i
<1> DEFINE level == IF kind = "heading" THEN node.level ELSE None
           sized == kind = "table" /\ node.sized
           block == Block(i, node, kind, text)
<1>1. block = [id |-> i, kind |-> kind, text |-> text, page |-> node.page,
               boxed |-> node.boxed, level |-> level, sized |-> sized, score |-> node.score]
  BY DEF Block
<1>2. level \in Levels
  BY DEF Levels, Node
<1>3. sized \in BOOLEAN
  OBVIOUS
<1>4. node.page \in Nat /\ node.boxed \in BOOLEAN /\ node.score \in Int
  BY DEF Node
<1> HIDE DEF level, sized, block
<1>5. block \in BlockSet /\ block.id = i
  BY <1>1, <1>2, <1>3, <1>4 DEF BlockSet
<1> QED BY <1>5 DEF block

\* The nodes of the tree.
LEMMA WalkTyped ==
  ASSUME NEW nodes \in Seq(Node)
  PROVE  Walk(nodes) \in Seq(Node)
<1> DEFINE f == [i \in DOMAIN nodes |-> <<nodes[i]>> \o nodes[i].kids]
<1>1. Walk(nodes) = FlattenSeq(f)
  BY DEF Walk
<1>2. f = [i \in DOMAIN nodes |-> f[i]]
  OBVIOUS
<1>3. \A i \in DOMAIN nodes : f[i] \in Seq(Node)
  <2> TAKE i \in DOMAIN nodes
  <2> DEFINE node == nodes[i]
             kids == node.kids
             one == <<node>>
  <2>1. node \in Node
    BY LenProperties
  <2>2. kids \in Seq(Leaf)
    BY <2>1 DEF Node
  <2>3. one \in Seq(Node)
    BY <2>1
  <2>4. f[i] = one \o kids
    OBVIOUS
  <2> HIDE DEF f, one, kids, node
  <2>5. kids \in Seq(Node)
    BY <2>2, LeavesAreNodes
  <2> QED BY <2>3, <2>4, <2>5, ConcatProperties
<1> HIDE DEF f
<1>4. f \in Seq(Seq(Node))
  BY <1>2, <1>3, Mapped
<1> QED BY <1>1, <1>4, FlattenElements

\* A node without text has the text of its children.
LEMMA NodeTextTyped ==
  ASSUME NEW node \in Node
  PROVE  NodeText(node) \in Text
<1> DEFINE kids == node.kids
           f == [i \in DOMAIN kids |-> kids[i].text]
<1>1. kids \in Seq(Leaf) /\ node.text \in Text
  BY DEF Node
<1>2. NodeText(node) = IF node.text # <<>> THEN node.text ELSE FlattenSeq(f)
  BY DEF NodeText
<1> HIDE DEF kids
<1>3. f = [i \in DOMAIN kids |-> f[i]]
  OBVIOUS
<1>4. \A i \in DOMAIN kids : f[i] \in Text
  <2> TAKE i \in DOMAIN kids
  <2>1. kids[i] \in Leaf
    BY <1>1, LenProperties
  <2> QED BY <2>1 DEF Leaf
<1> HIDE DEF f
<1>5. f \in Seq(Seq(Token))
  BY <1>1, <1>3, <1>4, Mapped DEF Text
<1>6. FlattenSeq(f) \in Text
  BY <1>5, FlattenElements DEF Text
<1> QED BY <1>1, <1>2, <1>6

\* Some numbers have a largest one.
LEMMA Largest ==
  ASSUME NEW c \in Nat, NEW N \in Nat, NEW h, \A i \in 1..N : h[i] \in Nat,
         NEW numbers, c \in numbers, \A i \in 1..N : h[i] \in numbers,
         \A n \in numbers : n = c \/ \E i \in 1..N : n = h[i]
  PROVE  \E n \in numbers : \A m \in numbers : m <= n
<1> DEFINE R(k) == {c} \cup {h[i] : i \in 1..k}
           G == {k \in 0..N : \E n \in R(k) : \A m \in R(k) : m <= n}
<1>1. 0 \in G
  <2>1. R(0) = {c}
    OBVIOUS
  <2> HIDE DEF R
  <2> QED BY <2>1
<1>2. ASSUME NEW k \in 1..N, k - 1 \in G PROVE k \in G
  <2>1. PICK n \in R(k - 1) : \A m \in R(k - 1) : m <= n
    BY <1>2
  <2>2. R(k) = R(k - 1) \cup {h[k]}
    <3>1. 1..k = (1..(k - 1)) \cup {k}
      OBVIOUS
    <3> QED BY <3>1
  <2>3. n \in Nat /\ h[k] \in Nat /\ \A m \in R(k - 1) : m \in Nat
    <3>1. \A i \in 1..(k - 1) : i \in 1..N
      OBVIOUS
    <3>2. \A m \in R(k - 1) : m \in Nat
      BY <3>1
    <3> QED BY <2>1, <3>2
  <2>4. k \in 0..N
    OBVIOUS
  <2> HIDE DEF R
  <2>5. CASE h[k] <= n
    BY <2>1, <2>2, <2>3, <2>4, <2>5
  <2>6. CASE ~(h[k] <= n)
    <3>1. \A m \in R(k) : m <= h[k]
      BY <2>1, <2>2, <2>3, <2>6
    <3>2. h[k] \in R(k)
      BY <2>2
    <3> QED BY <2>4, <3>1, <3>2
  <2> QED BY <2>5, <2>6
<1>3. N \in G
  <2>1. G \in SUBSET (0..N)
    OBVIOUS
  <2> HIDE DEF G
  <2>2. G = 0..N
    BY <1>1, <1>2, <2>1, StepByStep
  <2> QED BY <2>2
<1>4. numbers = R(N)
  OBVIOUS
<1> HIDE DEF R
<1> QED BY <1>3, <1>4

\* One block for each node that was read.
LEMMA BlocksMade ==
  ASSUME NEW read \in Seq(Node)
  PROVE  LET made == [i \in DOMAIN read |->
                        Block(i, read[i], read[i].kind, NodeText(read[i]))]
         IN  made \in Seq(BlockSet) /\ \A i \in DOMAIN made : made[i].id = i
<1> DEFINE made == [i \in DOMAIN read |-> Block(i, read[i], read[i].kind, NodeText(read[i]))]
<1>1. made = [i \in DOMAIN read |-> made[i]] /\ DOMAIN made = DOMAIN read
  OBVIOUS
<1>2. \A i \in DOMAIN read : made[i] \in BlockSet /\ made[i].id = i
  <2> TAKE i \in DOMAIN read
  <2> DEFINE node == read[i]
  <2>1. node \in Node /\ i \in Nat
    BY LenProperties
  <2>2. made[i] = Block(i, node, node.kind, NodeText(node))
    OBVIOUS
  <2> HIDE DEF node, made
  <2>3. node.kind \in Kind /\ NodeText(node) \in Text
    BY <2>1, NodeTextTyped DEF Node
  <2>4. Block(i, node, node.kind, NodeText(node)) \in BlockSet
        /\ Block(i, node, node.kind, NodeText(node)).id = i
    BY <2>1, <2>3, MadeBlock
  <2> QED BY <2>2, <2>4
<1> HIDE DEF made
<1>3. made \in Seq(BlockSet)
  BY <1>1, <1>2, Mapped
<1> QED BY <1>1, <1>2, <1>3 DEF made

\* Each adapter makes blocks that are apart, whatever the report says.
LEMMA OpenDataLoaderApart ==
  ASSUME NEW report, report.count \in Nat, report.nodes \in Seq(Node)
  PROVE  PagesApart(OpenDataLoader(report).pages)
<1> DEFINE nodes == Walk(report.nodes)
           I == {i \in DOMAIN nodes :
                   NodeText(nodes[i]) # <<>> \/ nodes[i].kind \in {"image", "table"}}
           read == Only(nodes, I)
           made == [i \in DOMAIN read |-> Block(i, read[i], read[i].kind, NodeText(read[i]))]
<1>1. OpenDataLoader(report) = Output("opendataloader", report.count, made)
  BY DEF OpenDataLoader, Having
<1> HIDE DEF I
<1>2. read \in Seq(Node)
  BY WalkTyped, OnlyElements
<1> HIDE DEF read
<1>3. made \in Seq(BlockSet) /\ \A i \in DOMAIN made : made[i].id = i
  BY <1>2, BlocksMade
<1> HIDE DEF made
<1> QED BY <1>1, <1>3, OutputApart

\* Docling: the texts first, then the tables.
LEMMA DoclingApart ==
  ASSUME NEW report, report.count \in Nat, report.nodes \in Seq(Node)
  PROVE  PagesApart(Docling(report).pages)
<1> DEFINE nodes == Walk(report.nodes)
           I == {i \in DOMAIN nodes : nodes[i].kind # "table" /\ NodeText(nodes[i]) # <<>>}
           J == {i \in DOMAIN nodes : nodes[i].kind = "table"}
           texts == Only(nodes, I)
           tables == Only(nodes, J)
           read == texts \o tables
           reach == {report.count} \cup {read[i].page : i \in DOMAIN read}
           count == CHOOSE n \in reach : \A m \in reach : m <= n
           made == [i \in DOMAIN read |-> Block(i, read[i], read[i].kind, NodeText(read[i]))]
<1>1. Docling(report) = Output("docling", count, made)
  BY DEF Docling, Having
<1> HIDE DEF I, J
<1>2. texts \in Seq(Node) /\ tables \in Seq(Node)
  BY WalkTyped, OnlyElements
<1> HIDE DEF texts, tables
<1>3. read \in Seq(Node)
  BY <1>2, ConcatProperties
<1> HIDE DEF read
<1>4. Len(read) \in Nat /\ DOMAIN read = 1..Len(read) /\ \A i \in DOMAIN read : read[i].page \in Nat
  <2>1. Len(read) \in Nat /\ DOMAIN read = 1..Len(read) /\ \A i \in DOMAIN read : read[i] \in Node
    BY <1>3, LenProperties
  <2> QED BY <2>1 DEF Node
<1>5. count \in Nat
  <2> DEFINE h == [i \in 1..Len(read) |-> read[i].page]
             N == Len(read)
  <2>1. \A i \in 1..N : h[i] \in Nat
    BY <1>4
  <2>2. reach = {report.count} \cup {h[i] : i \in 1..N}
    BY <1>4
  <2>3. N \in Nat
    BY <1>4
  <2> HIDE DEF h, N
  <2>4. /\ report.count \in reach /\ \A i \in 1..N : h[i] \in reach
        /\ \A n \in reach : n = report.count \/ \E i \in 1..N : n = h[i]
    BY <2>2
  <2>5. reach \subseteq Nat
    BY <2>1, <2>2
  <2> HIDE DEF reach
  <2>6. \E n \in reach : \A m \in reach : m <= n
    BY <2>1, <2>3, <2>4, Largest
  <2>7. count \in reach
    BY <2>6
  <2> QED BY <2>5, <2>7
<1> HIDE DEF count
<1>6. made \in Seq(BlockSet) /\ \A i \in DOMAIN made : made[i].id = i
  BY <1>3, BlocksMade
<1> HIDE DEF made
<1> QED BY <1>1, <1>5, <1>6, OutputApart

\* PyMuPDF: nothing of a scan, the texts of any other PDF.
LEMMA PyMuPDFApart ==
  ASSUME NEW file \in Pdf
  PROVE  PagesApart(PyMuPDF(file).pages)
<1> DEFINE all == Report(file, "whole").nodes
           I == {i \in DOMAIN all : all[i].text # <<>>}
           nodes == IF file.scanned THEN <<>> ELSE Only(all, I)
           kind(n) == IF n.kind = "heading" THEN "heading" ELSE "paragraph"
           made == [i \in DOMAIN nodes |->
                      Block(i, [nodes[i] EXCEPT !.level = 1], kind(nodes[i]), nodes[i].text)]
<1>1. PyMuPDF(file) = Output("pymupdf", Len(file.pages), made)
  BY DEF PyMuPDF, Having
<1>2. Len(file.pages) \in Nat
  BY NodesTyped
<1>3. all \in Seq(Node)
  <2>1. Applicable(file, "whole")
    BY DEF Applicable
  <2> QED BY <2>1, ReportTyped
<1> HIDE DEF all, I
<1>4. nodes \in Seq(Node)
  <2>1. Only(all, I) \in Seq(Node)
    BY <1>3, OnlyElements
  <2> QED BY <2>1
<1> HIDE DEF nodes
<1>5. made = [i \in DOMAIN nodes |-> made[i]] /\ DOMAIN made = DOMAIN nodes
  OBVIOUS
<1>6. \A i \in DOMAIN nodes : made[i] \in BlockSet /\ made[i].id = i
  <2> TAKE i \in DOMAIN nodes
  <2> DEFINE node == nodes[i]
             first == [node EXCEPT !.level = 1]
             k == kind(node)
  <2>1. node \in Node /\ i \in Nat
    BY <1>4, LenProperties
  <2>2. made[i] = Block(i, first, k, node.text)
    OBVIOUS
  <2>3. k \in Kind
    BY DEF Kind
  <2> HIDE DEF node, made, k
  <2>4. first \in Node /\ node.text \in Text
    <3>1. 1 \in Levels
      BY DEF Levels
    <3> QED BY <2>1, <3>1 DEF Node
  <2> HIDE DEF first
  <2>5. Block(i, first, k, node.text) \in BlockSet /\ Block(i, first, k, node.text).id = i
    BY <2>1, <2>3, <2>4, MadeBlock
  <2> QED BY <2>2, <2>5
<1> HIDE DEF made
<1>7. made \in Seq(BlockSet)
  BY <1>4, <1>5, <1>6, Mapped
<1> QED BY <1>1, <1>2, <1>5, <1>6, <1>7, OutputApart

\* PaddleOCR: what stands on the pages that were counted.
LEMMA PaddleOCRApart ==
  ASSUME NEW report, report.count \in Nat, report.nodes \in Seq(Node)
  PROVE  PagesApart(PaddleOCR(report).pages)
<1> DEFINE all == report.nodes
           I == {i \in DOMAIN all : all[i].text # <<>> /\ all[i].page <= report.count}
           nodes == Only(all, I)
           scored(n) == [n EXCEPT !.score = IF @ = None THEN 100 ELSE @]
           made == [i \in DOMAIN nodes |->
                      Block(i, scored(nodes[i]), "paragraph", nodes[i].text)]
<1>1. PaddleOCR(report) = Output("paddleocr", report.count, made)
  BY DEF PaddleOCR, Having
<1> HIDE DEF I
<1>2. nodes \in Seq(Node)
  BY OnlyElements
<1> HIDE DEF nodes
<1>3. made = [i \in DOMAIN nodes |-> made[i]] /\ DOMAIN made = DOMAIN nodes
  OBVIOUS
<1>4. \A i \in DOMAIN nodes : made[i] \in BlockSet /\ made[i].id = i
  <2> TAKE i \in DOMAIN nodes
  <2> DEFINE node == nodes[i]
             best == IF node.score = None THEN 100 ELSE node.score
             read == [node EXCEPT !.score = best]
             k == "paragraph"
  <2>1. node \in Node /\ i \in Nat
    BY <1>2, LenProperties
  <2>2. made[i] = Block(i, read, k, node.text)
    OBVIOUS
  <2>3. k \in Kind
    BY DEF Kind
  <2> HIDE DEF node, made, k
  <2>4. best \in Int
    BY <2>1 DEF Node
  <2> HIDE DEF best
  <2>5. read \in Node /\ node.text \in Text
    BY <2>1, <2>4 DEF Node
  <2> HIDE DEF read
  <2>6. Block(i, read, k, node.text) \in BlockSet /\ Block(i, read, k, node.text).id = i
    BY <2>1, <2>3, <2>5, MadeBlock
  <2> QED BY <2>2, <2>6
<1> HIDE DEF made
<1>5. made \in Seq(BlockSet)
  BY <1>2, <1>3, <1>4, Mapped
<1> QED BY <1>1, <1>3, <1>4, <1>5, OutputApart

\* So does each adapter of a chain.
LEMMA ParsedApart ==
  ASSUME NEW parser \in Parsers, NEW file \in Pdf, NEW flaw, Applicable(file, flaw)
  PROVE  PagesApart(Parsed(parser, file, flaw).pages)
<1> DEFINE report == Report(file, flaw)
<1>1. report.count \in Nat /\ report.nodes \in Seq(Node)
  BY ReportTyped
<1>2. PagesApart(OpenDataLoader(report).pages)
  BY <1>1, OpenDataLoaderApart
<1>3. PagesApart(Docling(report).pages)
  BY <1>1, DoclingApart
<1>4. PagesApart(PyMuPDF(file).pages)
  BY PyMuPDFApart
<1>5. PagesApart(PaddleOCR(report).pages)
  BY <1>1, PaddleOCRApart
<1> HIDE DEF report
<1>6. CASE parser = "opendataloader"
  BY <1>2, <1>6 DEF Parsed, report
<1>7. CASE parser = "docling"
  BY <1>3, <1>7 DEF Parsed, report
<1>8. CASE parser = "pymupdf"
  BY <1>4, <1>8 DEF Parsed
<1>9. CASE parser = "paddleocr"
  BY <1>5, <1>9 DEF Parsed, report
<1> QED BY <1>6, <1>7, <1>8, <1>9 DEF Parsers
-----------------------------------------------------------------------------
(* The gate.                                                               *)

\* The text of blocks is the text of each of them.
LEMMA TextOfHolds ==
  ASSUME NEW blocks \in Seq(BlockSet)
  PROVE  /\ TextOf(blocks) \in Text
         /\ ToSet(TextOf(blocks)) = UNION {ToSet(x.text) : x \in ToSet(blocks)}
<1> DEFINE f == [i \in DOMAIN blocks |-> blocks[i].text]
<1>1. TextOf(blocks) = FlattenSeq(f)
  BY DEF TextOf
<1>2. f = [i \in DOMAIN blocks |-> f[i]] /\ \A i \in DOMAIN blocks : f[i] = blocks[i].text
  OBVIOUS
<1> HIDE DEF f
<1>3. \A i \in DOMAIN blocks : f[i] \in Text
  <2> TAKE i \in DOMAIN blocks
  <2>1. blocks[i] \in BlockSet
    BY LenProperties
  <2> QED BY <1>2, <2>1 DEF BlockSet
<1>4. f \in Seq(Seq(Token)) /\ DOMAIN f = DOMAIN blocks
  BY <1>2, <1>3, Mapped DEF Text
<1>5. FlattenSeq(f) \in Text /\ ToSet(FlattenSeq(f)) = UNION {ToSet(f[i]) : i \in DOMAIN f}
  BY <1>4, FlattenElements DEF Text
<1>6. {ToSet(f[i]) : i \in DOMAIN f} = {ToSet(x.text) : x \in ToSet(blocks)}
  <2>1. ToSet(blocks) = {blocks[i] : i \in DOMAIN blocks}
    BY DEF ToSet
  <2>2. ASSUME NEW i \in DOMAIN f
        PROVE  \E x \in ToSet(blocks) : ToSet(f[i]) = ToSet(x.text)
    <3>1. f[i] = blocks[i].text /\ blocks[i] \in ToSet(blocks)
      BY <1>2, <1>4, <2>1
    <3> QED BY <3>1
  <2>3. ASSUME NEW x \in ToSet(blocks)
        PROVE  \E i \in DOMAIN f : ToSet(f[i]) = ToSet(x.text)
    <3>1. PICK i \in DOMAIN blocks : x = blocks[i]
      BY <2>1
    <3>2. i \in DOMAIN f /\ f[i] = x.text
      BY <1>2, <1>4, <3>1
    <3> QED BY <3>2
  <2>4. {ToSet(f[i]) : i \in DOMAIN f} \subseteq {ToSet(x.text) : x \in ToSet(blocks)}
    BY <2>2
  <2>5. {ToSet(x.text) : x \in ToSet(blocks)} \subseteq {ToSet(f[i]) : i \in DOMAIN f}
    BY <2>3
  <2> QED BY <2>4, <2>5
<1> QED BY <1>1, <1>5, <1>6

\* The marked tokens of a text.
LEMMA MarkedHolds ==
  ASSUME NEW text \in Text, NEW mark
  PROVE  ToSet(Marked(text, mark)) = {t \in ToSet(text) : mark \in Marks[t]}
<1> DEFINE I == {i \in DOMAIN text : mark \in Marks[text[i]]}
<1>1. Marked(text, mark) = Only(text, I)
  BY DEF Marked, Having
<1>2. ToSet(Only(text, I)) = {text[i] : i \in I \cap DOMAIN text}
  BY OnlyElements DEF Text
<1> QED BY <1>1, <1>2 DEF ToSet

\* What passes the gate has every number and every formula the verifier saw.
LEMMA GateHolds ==
  ASSUME NEW output, PagesApart(output.pages), NEW evidence, evidence.text \in Text,
         Passed(Issues(output, evidence)), NEW mark \in {"number", "formula"},
         NEW t \in ToSet(Marked(evidence.text, mark))
  PROVE  /\ mark \in Marks[t] /\ "nul" \notin Marks[t]
         /\ \E x \in ToSet(FlattenSeq(output.pages)) : t \in ToSet(x.text)
<1> DEFINE text == TextOf(BlocksOf(output))
           blocks == FlattenSeq(output.pages)
<1>1. blocks \in Seq(BlockSet) /\ text = TextOf(blocks)
  BY FlattenApart DEF BlocksOf
<1>2. Missing(evidence.text, text, "number")
        => "NUMERIC_TOKEN_MISMATCH" \in Issues(output, evidence)
  BY DEF Issues
<1>3. Missing(evidence.text, text, "formula")
        => "FORMULA_SYMBOL_MISMATCH" \in Issues(output, evidence)
  BY DEF Issues
<1> HIDE DEF text, blocks
<1>4. ~Missing(evidence.text, text, mark)
  <2>1. Severity("NUMERIC_TOKEN_MISMATCH") # "warning"
    BY DEF Severity
  <2>2. Severity("FORMULA_SYMBOL_MISMATCH") # "warning"
    BY DEF Severity
  <2> QED BY <1>2, <1>3, <2>1, <2>2 DEF Passed
<1>5. t \in ToSet(Marked(text, mark))
  BY <1>4 DEF Missing
<1>6. text \in Text /\ ToSet(text) = UNION {ToSet(x.text) : x \in ToSet(blocks)}
  BY <1>1, TextOfHolds
<1>7. t \in ToSet(text) /\ mark \in Marks[t]
  BY <1>5, <1>6, MarkedHolds
<1>8. t \in DOMAIN Marks
  BY <1>6, <1>7, Holds DEF Text, Token
<1>9. "nul" \notin Marks[t]
  BY <1>7, <1>8, ParsingBounds
<1> QED BY <1>6, <1>7, <1>9 DEF blocks
-----------------------------------------------------------------------------
(* What holds of every run.                                                *)

\* A result stems from an output that passed the gate.
Stems ==
  \/ result.cut = NoChunks
  \/ \E output :
       /\ PagesApart(output.pages)
       /\ Passed(Issues(output, seen))
       /\ result.canonical = Canonical(output)
       /\ result.cut = Chunk(Canonical(output), Issues(output, seen))

\* What every step keeps: the file and the chain are what the run began with,
\* and there is no result before the run is done.
IInv ==
  /\ pdf \in Pdf /\ chain \in Seq(Parsers) /\ index \in 1..Len(chain)
  /\ seen.text \in Text
  /\ stage # "done" => result = NoResult
  /\ Stems

\* A result without chunks stems from nothing.
LEMMA NothingYet ==
  ASSUME result.cut = NoChunks
  PROVE  Stems
BY DEF Stems

\* The first result has no chunks.
LEMMA NoResultCut == NoResult.cut = NoChunks
BY DEF NoResult

\* A run begins so, with the first adapter of a chain that is not empty.
LEMMA InitIInv == Init => IInv
<1> SUFFICES ASSUME Init PROVE IInv
  OBVIOUS
<1>1. pdf \in Pdf
  BY PdfsAssumption DEF Init, Pdf
<1>2. chain \in Seq(Parsers) /\ chain # <<>>
  BY EngineBounds DEF Init
<1>3. 1 \in 1..Len(chain)
  <2>1. Len(chain) \in Nat /\ Len(chain) # 0
    BY <1>2, EmptySeq, LenProperties
  <2> QED BY <2>1
<1>4. <<>> \in Text
  BY DEF Text
<1>5. seen.text \in Text /\ result = NoResult /\ index = 1
  BY <1>4 DEF Init, NoVerification
<1> QED BY <1>1, <1>2, <1>3, <1>5, NothingYet, NoResultCut DEF IInv

\* The next adapter is one of the chain, and without one nothing is cut.
LEMMA AdapterKeeps ==
  ASSUME index \in 1..Len(chain), chain \in Seq(Parsers), NextAdapter,
         UNCHANGED <<pdf, chain, seen>>, result = NoResult
  PROVE  /\ index' \in 1..Len(chain')
         /\ result'.cut = NoChunks /\ (stage' # "done" => result' = NoResult)
<1>1. Len(chain) \in Nat
  BY LenProperties
<1>2. CASE index < Len(chain)
  BY <1>1, <1>2, NoResultCut DEF NextAdapter
<1>3. CASE ~(index < Len(chain))
  <2>1. /\ stage' = "done" /\ result' = [NoResult EXCEPT !.status = FailedStatus]
        /\ index' = index
    BY <1>3 DEF NextAdapter
  <2>2. result'.cut = NoChunks
    BY <2>1 DEF NoResult
  <2> QED BY <2>1, <2>2
<1> QED BY <1>2, <1>3

\* Verifying keeps it, and each way an attempt may end.
LEMMA NextIInv == IInv /\ [Next]_vars => IInv'
<1> SUFFICES ASSUME IInv, [Next]_vars PROVE IInv'
  OBVIOUS
<1>1. /\ pdf \in Pdf /\ chain \in Seq(Parsers) /\ index \in 1..Len(chain)
      /\ seen.text \in Text /\ (stage # "done" => result = NoResult)
  BY DEF IInv
<1>2. ASSUME UNCHANGED <<pdf, chain, seen>>, stage # "done", NextAdapter PROVE IInv'
  <2>1. /\ index' \in 1..Len(chain') /\ result'.cut = NoChunks
        /\ (stage' # "done" => result' = NoResult)
    BY <1>1, <1>2, AdapterKeeps
  <2>2. Stems'
    BY <2>1 DEF Stems
  <2> QED BY <1>1, <1>2, <2>1, <2>2 DEF IInv
<1>3. CASE Verify
  <2>1. seen'.text \in Text
    <3>1. PagesApart(PyMuPDF(pdf).pages)
      BY <1>1, PyMuPDFApart
    <3>2. TextOf(BlocksOf(PyMuPDF(pdf))) \in Text
      BY <3>1, FlattenApart, TextOfHolds DEF BlocksOf
    <3>3. <<>> \in Text
      BY DEF Text
    <3>4. Verified(pdf).text \in Text
      BY <3>2 DEF Verified
    <3>5. NoVerification.text \in Text
      BY <3>3 DEF NoVerification
    <3> QED BY <1>3, <3>4, <3>5 DEF Verify
  <2>2. result' = NoResult /\ result'.cut = NoChunks
    BY <1>1, <1>3, NoResultCut DEF Verify
  <2>3. Stems'
    BY <2>2 DEF Stems
  <2> QED BY <1>1, <1>3, <2>1, <2>2, <2>3 DEF IInv, Verify
<1>4. CASE GiveUp
  BY <1>2, <1>4 DEF GiveUp
<1>5. CASE TransientError
  <2>1. CASE attempt <= MaxRetries
    <3>1. UNCHANGED <<pdf, chain, seen, stage, index, result>>
      BY <1>5, <2>1 DEF TransientError
    <3> QED BY <3>1 DEF IInv, Stems
  <2>2. CASE ~(attempt <= MaxRetries)
    BY <1>2, <1>5, <2>2 DEF TransientError
  <2> QED BY <2>1, <2>2
<1>6. ASSUME NEW flaw \in Flaws, Parse(flaw) PROVE IInv'
  <2> DEFINE output == Parsed(chain[index], pdf, flaw)
             issues == Issues(output, seen)
  <2>1. /\ stage = "parse" /\ Applicable(pdf, flaw) /\ UNCHANGED <<pdf, chain, seen>>
        /\ IF Passed(issues)
           THEN /\ result' = [status |-> IF ReviewRequired(issues)
                                         THEN "review_required" ELSE "canonicalized",
                              canonical |-> Canonical(output), issues |-> issues,
                              cut |-> Chunk(Canonical(output), issues)]
                /\ stage' = "done"
                /\ UNCHANGED <<index, attempt>>
           ELSE NextAdapter
    BY <1>6 DEF Parse
  <2>2. PagesApart(output.pages)
    <3>1. chain[index] \in Parsers
      BY <1>1, LenProperties
    <3> QED BY <1>1, <2>1, <3>1, ParsedApart
  <2> HIDE DEF output
  <2>3. CASE Passed(issues)
    <3>1. /\ result'.canonical = Canonical(output) /\ stage' = "done" /\ index' = index
          /\ result'.cut = Chunk(Canonical(output), Issues(output, seen))
      BY <2>1, <2>3
    <3>2. seen' = seen /\ pdf' = pdf /\ chain' = chain
      BY <2>1
    <3>3. Stems'
      BY <2>2, <2>3, <3>1, <3>2 DEF Stems
    <3> QED BY <1>1, <3>1, <3>2, <3>3 DEF IInv
  <2>4. CASE ~Passed(issues)
    BY <1>2, <2>1, <2>4
  <2> QED BY <2>3, <2>4
<1>7. CASE Done \/ UNCHANGED vars
  <2>1. UNCHANGED vars
    BY <1>7 DEF Done
  <2> QED BY <2>1 DEF IInv, Stems, vars
<1> QED BY <1>3, <1>4, <1>5, <1>6, <1>7 DEF Next
-----------------------------------------------------------------------------
(* The properties of the runs.                                             *)

\* The children among chunks.
LEMMA ChildrenAre ==
  ASSUME result.cut.chunks \in Seq(ChunkSet)
  PROVE  /\ Children \in Seq(ChunkSet)
         /\ ToSet(Children) = {c \in ToSet(result.cut.chunks) : c.kind = "child"}
         /\ \A i \in DOMAIN Children : Children[i] \in ToSet(Children)
<1> DEFINE chunks == result.cut.chunks
           I == {i \in DOMAIN chunks : chunks[i].kind = "child"}
<1>1. Children = Only(chunks, I)
  BY DEF Children, Having
<1>2. Only(chunks, I) \in Seq(ChunkSet) /\ ToSet(Only(chunks, I)) = {chunks[i] : i \in I}
  <2>1. I \cap DOMAIN chunks = I
    OBVIOUS
  <2> HIDE DEF I, chunks
  <2>2. chunks \in Seq(ChunkSet)
    BY DEF chunks
  <2> QED BY <2>1, <2>2, OnlyElements
<1>3. {chunks[i] : i \in I} = {c \in ToSet(chunks) : c.kind = "child"}
  BY DEF ToSet
<1> HIDE DEF I
<1>4. \A i \in DOMAIN Children : Children[i] \in ToSet(Children)
  BY DEF ToSet
<1> QED BY <1>1, <1>2, <1>3, <1>4 DEF chunks

\* Without a cut there is no child.
LEMMA NoChildren ==
  ASSUME result.cut = NoChunks
  PROVE  /\ result.cut.chunks = <<>> /\ result.cut.answer = "none"
         /\ DOMAIN result.cut.chunks = {} /\ DOMAIN Children = {}
<1>1. result.cut.chunks = <<>> /\ result.cut.answer = "none"
  BY DEF NoChunks
<1>2. result.cut.chunks \in Seq(ChunkSet) /\ ToSet(<<>>) = {} /\ DOMAIN <<>> = {}
  BY <1>1 DEF ToSet
<1>3. ToSet(Children) = {} /\ \A i \in DOMAIN Children : Children[i] \in ToSet(Children)
  BY <1>1, <1>2, ChildrenAre
<1> QED BY <1>1, <1>2, <1>3

\* What is cut is the body of the canonical document, well cut, and comes
\* from an output that the gate has passed.
LEMMA CutWell ==
  ASSUME IInv, result.cut # NoChunks
  PROVE  /\ WellCut(result.cut, SemanticUnits(result.canonical).units, Body)
         /\ FlattenSeq(result.canonical) \in Seq(BlockSet)
         /\ \E output : /\ PagesApart(output.pages) /\ Passed(Issues(output, seen))
                        /\ result.canonical = Canonical(output)
<1>1. PICK output : /\ PagesApart(output.pages) /\ Passed(Issues(output, seen))
                    /\ result.canonical = Canonical(output)
                    /\ result.cut = Chunk(Canonical(output), Issues(output, seen))
  BY DEF IInv, Stems
<1> DEFINE canonical == Canonical(output)
           b == FlattenSeq(canonical)
           issues == Issues(output, seen)
<1>2. PagesApart(canonical)
  BY <1>1, CanonicalApart
<1>3. result.canonical = canonical /\ result.cut = Chunk(canonical, issues)
  BY <1>1
<1> HIDE DEF canonical, issues
<1>4. b \in Seq(BlockSet) /\ Distinct(b)
  BY <1>2, FlattenApart
<1>5. WellCut(Chunk(canonical, issues), SemanticUnits(canonical).units,
              Only(b, BodyPlaces(b)))
  BY <1>4, ChunksCover
<1>6. Body = Only(b, BodyPlaces(b))
  BY <1>3 DEF Body, Having, BodyPlaces
<1> HIDE DEF b
<1>7. WellCut(result.cut, SemanticUnits(result.canonical).units, Body)
  BY <1>3, <1>5, <1>6
<1> QED BY <1>1, <1>3, <1>4, <1>7 DEF b

\* The limits follow from how the units, windows and groups are made: a group
\* is too long only with a unit that is, and such a unit has grown.
LEMMA IInvLimits == IInv => WithinLimits
<1> SUFFICES ASSUME IInv PROVE WithinLimits
  OBVIOUS
<1> DEFINE chunks == result.cut.chunks
<1>1. CASE result.cut = NoChunks
  BY <1>1, NoChildren DEF WithinLimits
<1>2. CASE result.cut # NoChunks
  <2>1. /\ result.cut.answer = "torn" =>
             \E u \in ToSet(SemanticUnits(result.canonical).units) : Grown(u)
        /\ \A c \in ToSet(chunks) : Sized(c)
    BY <1>2, CutWell DEF WellCut
  <2>2. \A i \in DOMAIN chunks : chunks[i] \in ToSet(chunks)
    BY DEF ToSet
  <2> QED BY <2>1, <2>2 DEF WithinLimits, Sized
<1> QED BY <1>1, <1>2

\* A proviso's children have what it follows, as the units had.
LEMMA IInvAttached == IInv => ProvisoStaysAttached
<1> SUFFICES ASSUME IInv PROVE ProvisoStaysAttached
  OBVIOUS
<1>1. CASE result.cut = NoChunks
  BY <1>1, NoChildren DEF ProvisoStaysAttached
<1>2. CASE result.cut # NoChunks
  <2>1. /\ result.cut.chunks \in Seq(ChunkSet)
        /\ \A i \in 2..Len(Body) : OpensWithProviso(Body[i].text) =>
             \A c \in ToSet(result.cut.chunks) :
               Body[i] \in c.blocks => Body[i - 1] \in c.blocks
    BY <1>2, CutWell DEF WellCut
  <2>2. \A c \in DOMAIN Children : Children[c] \in ToSet(result.cut.chunks)
    BY <2>1, ChildrenAre
  <2> QED BY <2>1, <2>2 DEF ProvisoStaysAttached
<1> QED BY <1>1, <1>2

\* The blocks of a document are its headings, its body and empty ones.
LEMMA BodyOrHeading ==
  ASSUME FlattenSeq(result.canonical) \in Seq(BlockSet)
  PROVE  /\ Body \in Seq(BlockSet) /\ Headings \in Seq(BlockSet)
         /\ \A y \in ToSet(FlattenSeq(result.canonical)) :
              y.text # <<>> => y \in ToSet(Body) \/ y \in ToSet(Headings)
<1> DEFINE b == FlattenSeq(result.canonical)
           I == {i \in DOMAIN b : b[i].kind # "heading" /\ b[i].text # <<>>}
           J == {i \in DOMAIN b : b[i].kind = "heading"}
<1>1. Body = Only(b, I) /\ Headings = Only(b, J)
  BY DEF Body, Headings, Having
<1>2. b \in Seq(BlockSet) /\ ToSet(b) = {b[i] : i \in DOMAIN b}
  BY DEF ToSet
<1>3. I \cap DOMAIN b = I /\ J \cap DOMAIN b = J
  OBVIOUS
<1>4. \A i \in DOMAIN b : b[i].text # <<>> => i \in I \/ i \in J
  OBVIOUS
<1> HIDE DEF b, I, J
<1>5. Only(b, I) \in Seq(BlockSet) /\ ToSet(Only(b, I)) = {b[i] : i \in I}
  BY <1>2, <1>3, OnlyElements
<1>6. Only(b, J) \in Seq(BlockSet) /\ ToSet(Only(b, J)) = {b[i] : i \in J}
  BY <1>2, <1>3, OnlyElements
<1>7. \A y \in ToSet(b) : y.text # <<>> => y \in ToSet(Body) \/ y \in ToSet(Headings)
  BY <1>1, <1>2, <1>4, <1>5, <1>6
<1> QED BY <1>1, <1>5, <1>6, <1>7 DEF b

\* The gate has found the word in a block, the canonical document has kept
\* that block, and the chunker has lost no word of the body but of a block it
\* has split.
LEMMA IInvEvidence == IInv => EvidenceReachesTheIndex
<1> SUFFICES ASSUME IInv, result.cut.answer = "chunked",
                    NEW mark \in {"number", "formula"}, NEW t \in ToSet(Marked(seen.text, mark))
             PROVE  \/ \E i \in DOMAIN Children : t \in ToSet(Children[i].text)
                    \/ /\ t \in ToSet(TextOf(Headings))
                       /\ t \notin ToSet(TextOf(Body))
                    \/ \E u \in ToSet(SemanticUnits(result.canonical).units) :
                         \E z \in ToSet(u.blocks) : MayBeLost(u, z, t)
  BY DEF EvidenceReachesTheIndex
<1> DEFINE units == SemanticUnits(result.canonical).units
<1> HIDE DEF units
<1> DEFINE b == FlattenSeq(result.canonical)
<1>1. result.cut # NoChunks
  BY NoChildren
<1>2. PICK output : /\ PagesApart(output.pages) /\ Passed(Issues(output, seen))
                    /\ result.canonical = Canonical(output)
  BY <1>1, CutWell
<1>3. /\ "nul" \notin Marks[t]
      /\ \E x \in ToSet(FlattenSeq(output.pages)) : t \in ToSet(x.text)
  BY <1>2, GateHolds DEF IInv
<1>4. PICK x \in ToSet(FlattenSeq(output.pages)) : t \in ToSet(x.text)
  BY <1>3
<1>5. x \in BlockSet /\ Cleaned(x) \in ToSet(b)
  <2>1. FlattenSeq(output.pages) \in Seq(BlockSet)
    BY <1>2, FlattenApart
  <2> QED BY <1>2, <2>1, CanonicalApart, Holds
<1>6. t \in ToSet(Cleaned(x).text)
  BY <1>3, <1>4, <1>5, CleanedTyped
<1>7. PICK y \in ToSet(b) : t \in ToSet(y.text)
  BY <1>5, <1>6
<1>8. y.text # <<>>
  BY <1>7 DEF ToSet
<1>9. b \in Seq(BlockSet)
  BY <1>1, CutWell
<1>10. /\ Body \in Seq(BlockSet) /\ Headings \in Seq(BlockSet)
       /\ y \in ToSet(Body) \/ y \in ToSet(Headings)
  BY <1>7, <1>8, <1>9, BodyOrHeading
<1>11. /\ ToSet(TextOf(Body)) = UNION {ToSet(z.text) : z \in ToSet(Body)}
       /\ ToSet(TextOf(Headings)) = UNION {ToSet(z.text) : z \in ToSet(Headings)}
  BY <1>10, TextOfHolds
<1>12. CASE t \in ToSet(TextOf(Body))
  <2>1. PICK z \in ToSet(Body) : t \in ToSet(z.text)
    BY <1>11, <1>12
  <2>2. /\ result.cut.chunks \in Seq(ChunkSet)
        /\ \/ Lost(units, z, t)
           \/ \E c \in ToSet(result.cut.chunks) : c.kind = "child" /\ t \in ToSet(c.text)
    BY <1>1, <2>1, CutWell DEF WellCut, units
  <2>3. CASE Lost(units, z, t)
    BY <2>3 DEF Lost, units
  <2>4. CASE \E c \in ToSet(result.cut.chunks) : c.kind = "child" /\ t \in ToSet(c.text)
    <3>1. PICK c \in ToSet(result.cut.chunks) : c.kind = "child" /\ t \in ToSet(c.text)
      BY <2>4
    <3>2. c \in ToSet(Children)
      BY <2>2, <3>1, ChildrenAre
    <3>3. PICK i \in DOMAIN Children : Children[i] = c
      BY <3>2 DEF ToSet
    <3> QED BY <3>1, <3>3
  <2> QED BY <2>2, <2>3, <2>4
<1>13. CASE t \notin ToSet(TextOf(Body))
  <2>1. y \in ToSet(Headings)
    BY <1>7, <1>10, <1>11, <1>13
  <2> QED BY <1>7, <1>11, <1>13, <2>1
<1> QED BY <1>12, <1>13

\* Of _build_chunk and _group_units: no chunk is too long for the embedding
\* model, and a group is refused for nothing but a part of a split block that
\* has grown in decoding, whatever PDF, flaws, chain, vocabulary, tokenizer
\* and limits there are.
THEOREM LimitsHold == Spec => []WithinLimits
BY InitIInv, NextIInv, IInvLimits, PTL DEF Spec

\* Of the gate and the chunker: each number and each formula that the
\* verifier has read reaches a chunk that is embedded, or stood in a heading,
\* or stood in a block that was split with an overlap too small for it or
\* decoded to something else.
THEOREM EvidenceIndexed == Spec => []EvidenceReachesTheIndex
BY InitIInv, NextIInv, IInvEvidence, PTL DEF Spec

\* Of _semantic_units: a child that cites a proviso cites the block before.
THEOREM ProvisosAttached == Spec => []ProvisoStaysAttached
BY InitIInv, NextIInv, IInvAttached, PTL DEF Spec
=============================================================================
