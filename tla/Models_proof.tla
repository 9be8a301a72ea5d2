----------------------------- MODULE Models_proof -----------------------------
(***************************************************************************)
(* Proofs about the two components that ask models and keep what they say  *)
(* in order, for any operators, sources, models, chunks and bounds.        *)
(* Forecasting: what a run stored can be computed again, although          *)
(* snapshots share rows, and one champion at most has earned its place.    *)
(* GroundedAnswer: an answer rests on parents of one moment, a vector that *)
(* is used again was made for the same question and is fresh, and no       *)
(* evidence is lost or put behind worse on its way into the context.  Both *)
(* rest on one fact about sorting: it loses nothing and repeats nothing.   *)
(***************************************************************************)
EXTENDS Forecasting, GroundedAnswer,
        FiniteSetTheorems, SequenceTheorems, WellFoundedInduction, TLAPS

-----------------------------------------------------------------------------
(* Sorting.                                                                *)

\* A sequence that lists S once each, in the order in which low[x] is what
\* comes before x.
InOrder(q, S, low) ==
  /\ q \in Seq(S) /\ ToSet(q) = S
  /\ \A i, j \in DOMAIN q : i < j <=> q[i] \in low[q[j]]

\* A strict total order on a finite set gives its elements the places from 1
\* on, one each, so that sorting loses nothing and repeats nothing.
LEMMA SortsCompletely ==
  ASSUME NEW S, IsFiniteSet(S), NEW low \in [S -> SUBSET S],
         \A x \in S : x \notin low[x],
         \A x, y \in S : x = y \/ x \in low[y] \/ y \in low[x],
         \A x, y \in S : x \in low[y] => low[x] \subseteq low[y]
  PROVE  InOrder(Listed(S, [x \in S |-> 1 + Cardinality(low[x])]), S, low)
<1> DEFINE n == Cardinality(S)
           place == [x \in S |-> 1 + Cardinality(low[x])]
           q == Listed(S, place)
<1>1. n \in Nat
  BY FS_CardinalityType
<1>2. ASSUME NEW x \in S
      PROVE  /\ IsFiniteSet(low[x]) /\ Cardinality(low[x]) \in Nat
             /\ place[x] = 1 + Cardinality(low[x]) /\ place[x] \in 1..n
  <2>1. low[x] \subseteq S /\ low[x] # S
    OBVIOUS
  <2>2. IsFiniteSet(low[x]) /\ Cardinality(low[x]) <= n /\ Cardinality(low[x]) # n
    BY <2>1, FS_Subset
  <2>3. Cardinality(low[x]) \in Nat
    BY <2>2, FS_CardinalityType
  <2> QED BY <1>1, <2>2, <2>3
<1>3. ASSUME NEW x \in S, NEW y \in S, x \in low[y] PROVE place[x] < place[y]
  <2>1. low[x] \subseteq low[y] /\ low[x] # low[y]
    BY <1>3
  <2>2. Cardinality(low[x]) <= Cardinality(low[y]) /\ Cardinality(low[x]) # Cardinality(low[y])
    BY <1>2, <2>1, FS_Subset
  <2> QED BY <1>2, <2>2
<1> HIDE DEF place
<1>4. \A x, y \in S : place[x] = place[y] => x = y
  <2> SUFFICES ASSUME NEW x \in S, NEW y \in S, place[x] = place[y], x # y PROVE FALSE
    OBVIOUS
  <2>1. place[x] \in 1..n /\ place[y] \in 1..n
    BY <1>2
  <2> QED BY <1>1, <1>3, <2>1
<1>5. place \in Surjection(S, 1..n)
  <2>1. place \in [S -> 1..n]
    BY <1>2 DEF place
  <2>2. IsFiniteSet(1..n) /\ Cardinality(1..n) = n
    BY <1>1, FS_Interval
  <2>3. place \in Injection(S, 1..n)
    BY <1>4, <2>1 DEF Injection, IsInjective
  <2> QED BY <2>2, <2>3, FS_Injection
<1>6. \A i \in 1..n : q[i] \in S /\ place[q[i]] = i
  <2> SUFFICES ASSUME NEW i \in 1..n PROVE q[i] \in S /\ place[q[i]] = i
    OBVIOUS
  <2>1. \E x \in S : place[x] = i
    BY <1>5 DEF Surjection
  <2>2. q[i] = CHOOSE x \in S : place[x] = i
    BY DEF Listed
  <2> QED BY <2>1, <2>2
<1>7. q \in [1..n -> S]
  BY <1>6 DEF Listed
<1> HIDE DEF q, n
<1>8. q \in Seq(S) /\ DOMAIN q = 1..n
  BY <1>1, <1>7
<1>9. ToSet(q) = S
  <2>1. \A x \in S : \E i \in 1..n : q[i] = x
    <3> TAKE x \in S
    <3>1. place[x] \in 1..n
      BY <1>2
    <3> QED BY <1>4, <1>6, <3>1
  <2> QED BY <1>6, <1>8, <2>1 DEF ToSet
<1>10. \A i, j \in DOMAIN q : i < j <=> q[i] \in low[q[j]]
  <2> SUFFICES ASSUME NEW i \in 1..n, NEW j \in 1..n PROVE i < j <=> q[i] \in low[q[j]]
    BY <1>8
  <2>1. /\ q[i] \in S /\ q[j] \in S /\ place[q[i]] = i /\ place[q[j]] = j
        /\ i \in Int /\ j \in Int
    BY <1>1, <1>6
  <2>2. q[i] \in low[q[j]] => i < j
    BY <1>3, <2>1
  <2>3. q[j] \in low[q[i]] => j < i
    BY <1>3, <2>1
  <2>4. q[i] = q[j] => i = j
    BY <2>1
  <2> QED BY <2>1, <2>2, <2>3, <2>4
<1> QED BY <1>8, <1>9, <1>10 DEF InOrder, q, place

-----------------------------------------------------------------------------
(* Forecasting.                                                            *)

\* The rows of a snapshot are in the store, under it or an earlier one.
Ids(s) == {RowId(r, s.cutoff) : r \in s.rows}
Settled(s) == Ids(s) \subseteq DOMAIN rows

\* What the version of a model says from the rows stored under its snapshot.
Said(v) == Predictions(v[1], v[2], Series(StoredUnder(v[2])), Horizon)

\* Snapshots are in the order of the moments at which they were begun, no
\* two of which are equal.
SnapshotsStamped ==
  /\ clock \in Nat
  /\ snapshots \in Seq(ToSet(snapshots))
  /\ \A x \in ToSet(snapshots) : x.at \in Nat /\ x.at < clock /\ Settled(x.id)
  /\ \A x, y \in ToSet(snapshots) : x.at = y.at => x = y

\* A run selected the best of its models on the rows of its snapshot.
RunEarned(r) ==
  /\ Settled(r.snapshot)
  /\ r.selected = <<SelectChampion(r.models, Series(StoredUnder(r.snapshot))), r.snapshot>>
  /\ Said(r.selected) \subseteq predictions

RunsEarned == \A r \in runs : RunEarned(r)

\* Predictions are stored all together and are what their version says.
Kept(p) ==
  /\ Settled(p.version[2])
  /\ p \in Said(p.version) /\ Said(p.version) \subseteq predictions

PredictionsKept == \A p \in predictions : Kept(p)

ChampionsKnown ==
  /\ Cardinality(champions) <= 1
  /\ \A v \in champions : \E r \in runs : r.selected = v

\* What a command has read is still so when it commits.
Fits(c) ==
  /\ c.command = "build" =>
       /\ c.at \in Nat /\ c.at < clock
       /\ \A x \in ToSet(snapshots) : x.at # c.at
  /\ c.command = "train" =>
       Settled(c.snapshot) /\ c.series = Series(StoredUnder(c.snapshot))
  /\ c.command = "promote" => \E r \in runs : r.selected = c.version

OpsFit == DOMAIN op = Workers /\ \A w \in Workers : \A c : op[w] = c => Fits(c)

OpsApart ==
  \A v, w \in Workers :
    v # w /\ op[v].command = "build" /\ op[w].command = "build" => op[v].at # op[w].at

Inductive ==
  SnapshotsStamped /\ RunsEarned /\ PredictionsKept /\ ChampionsKnown /\ OpsFit /\ OpsApart
-----------------------------------------------------------------------------
(* Forecasting: operators.                                                 *)

\* ORDER BY created_at lists a finite set of snapshots completely: moments
\* that differ have as many different ranks as there are snapshots.
LEMMA RankedByTime ==
  ASSUME NEW S, IsFiniteSet(S), \A x \in S : x.at \in Nat,
         \A x, y \in S : x.at = y.at => x = y
  PROVE  /\ Ranked(S, LAMBDA x, y : x.at < y.at) \in Seq(S)
         /\ ToSet(Ranked(S, LAMBDA x, y : x.at < y.at)) = S
<1> DEFINE low == [x \in S |-> {y \in S : y.at < x.at}]
           q == Listed(S, [x \in S |-> 1 + Cardinality(low[x])])
<1>1. Ranked(S, LAMBDA x, y : x.at < y.at) = q
  <2>1. \A x \in S : {y \in S : y.at < x.at} = low[x]
    OBVIOUS
  <2> HIDE DEF low
  <2> QED BY <2>1 DEF Ranked
<1>2. low \in [S -> SUBSET S] /\ \A x, y \in S : y \in low[x] <=> y.at < x.at
  OBVIOUS
<1> HIDE DEF low
<1>3. /\ \A x \in S : x \notin low[x]
      /\ \A x, y \in S : x = y \/ x \in low[y] \/ y \in low[x]
      /\ \A x, y \in S : x \in low[y] => low[x] \subseteq low[y]
  BY <1>2
<1>4. InOrder(q, S, low)
  BY <1>2, <1>3, SortsCompletely
<1> QED BY <1>1, <1>4 DEF InOrder

\* There are finitely many snapshots.
LEMMA StampedFinite == SnapshotsStamped => IsFiniteSet(ToSet(snapshots))
<1> SUFFICES ASSUME SnapshotsStamped PROVE IsFiniteSet(ToSet(snapshots))
  OBVIOUS
<1>1. Len(snapshots) \in Nat /\ DOMAIN snapshots = 1..Len(snapshots)
      /\ snapshots \in [1..Len(snapshots) -> ToSet(snapshots)]
  BY DEF SnapshotsStamped
<1>2. snapshots \in Surjection(1..Len(snapshots), ToSet(snapshots))
  BY <1>1 DEF Surjection, ToSet
<1>3. IsFiniteSet(1..Len(snapshots))
  BY <1>1, FS_Interval
<1> QED BY <1>2, <1>3, FS_Surjection

\* The predictions of a version carry it.
LEMMA OwnVersion ==
  ASSUME NEW m, NEW s, NEW series, NEW horizon, NEW p \in Predictions(m, s, series, horizon)
  PROVE  p.version = <<m, s>> /\ p.ahead \in 1..horizon
BY DEF Predictions

\* A forecast that looks further ahead says the same of the months both
\* look at: what is said of a month does not depend on the horizon.
LEMMA SaidAhead ==
  ASSUME NEW m, NEW s, NEW series, NEW h \in Nat, NEW k \in Nat,
         NEW p \in Predictions(m, s, series, h), p.ahead <= k
  PROVE  p \in Predictions(m, s, series, k)
<1> DEFINE said(e, n) == ForecastValues(m, Values(series[e]), n)
<1>1. ASSUME NEW e, NEW i \in 1..h, i <= k PROVE said(e, h)[i] = said(e, k)[i]
  <2>1. i \in 1..k
    BY <1>1
  <2> QED BY <2>1 DEF ForecastValues, SeasonalNaive
<1>2. PICK e \in Freshest(series), i \in 1..h :
        p = [entity |-> e, month |-> Last(series[e]).month + i, ahead |-> i,
             value |-> said(e, h)[i], version |-> <<m, s>>]
  BY DEF Predictions
<1>3. i \in 1..k
  BY <1>2
<1>4. said(e, h)[i] = said(e, k)[i]
  BY <1>1, <1>3
<1> HIDE DEF said
<1>5. p = [entity |-> e, month |-> Last(series[e]).month + i, ahead |-> i,
           value |-> said(e, k)[i], version |-> <<m, s>>]
  BY <1>2, <1>4
<1> QED BY <1>3, <1>5 DEF Predictions, said
-----------------------------------------------------------------------------
(* The store grows; what is settled stays.                                 *)

Stays == \A t : Settled(t) => Settled(t)' /\ StoredUnder(t)' = StoredUnder(t)

\* ON CONFLICT DO NOTHING: no row that is there is moved, and a snapshot
\* whose rows are all there gets no more.
LEMMA StoredKept ==
  ASSUME NEW s, rows' = Stored(Ids(s), s)
  PROVE  Stays /\ Settled(s)'
<1>1. /\ DOMAIN rows' = DOMAIN rows \cup Ids(s)
      /\ \A i \in DOMAIN rows : rows'[i] = rows[i]
      /\ \A i \in Ids(s) \ DOMAIN rows : rows'[i] = s
  BY DEF Stored
<1>2. Settled(s)'
  BY <1>1 DEF Settled, Ids
<1>3. ASSUME NEW t, Settled(t)
      PROVE  Settled(t)' /\ StoredUnder(t)' = StoredUnder(t)
  <2>1. Settled(t)'
    BY <1>1, <1>3 DEF Settled, Ids
  <2>2. {i \in DOMAIN rows' : rows'[i] = t} = {i \in DOMAIN rows : rows[i] = t}
    <3>1. CASE t = s
      BY <1>1, <1>3, <3>1 DEF Settled
    <3>2. CASE t # s
      BY <1>1, <3>2
    <3> QED BY <3>1, <3>2
  <2> QED BY <2>1, <2>2 DEF StoredUnder
<1> QED BY <1>2, <1>3 DEF Stays

\* Nothing is stored.
LEMMA RowsSame == rows' = rows => Stays
BY DEF Stays, Settled, StoredUnder, Ids

\* What a version says rests on the rows of its snapshot.
LEMMA SaidKept ==
  ASSUME Stays, NEW v, Settled(v[2])
  PROVE  Said(v)' = Said(v)
BY DEF Stays, Said
-----------------------------------------------------------------------------
(* Steps of one operator.                                                  *)

\* What the store says of runs, predictions and champions stays true when
\* these do not change.
LEMMA JudgedKept ==
  ASSUME Inductive, Stays, UNCHANGED <<runs, predictions, champions>>
  PROVE  RunsEarned' /\ PredictionsKept' /\ ChampionsKnown'
<1>1. ASSUME NEW r \in runs PROVE RunEarned(r)'
  <2>1. RunEarned(r)
    BY DEF Inductive, RunsEarned
  <2>2. Settled(r.snapshot)' /\ StoredUnder(r.snapshot)' = StoredUnder(r.snapshot)
    BY <2>1 DEF RunEarned, Stays
  <2>3. r.selected[2] = r.snapshot
    BY <2>1 DEF RunEarned
  <2>4. Said(r.selected)' = Said(r.selected)
    BY <2>1, <2>3, SaidKept DEF RunEarned
  <2> QED BY <2>1, <2>2, <2>4 DEF RunEarned
<1>2. ASSUME NEW p \in predictions PROVE Kept(p)'
  <2>1. Kept(p)
    BY DEF Inductive, PredictionsKept
  <2>2. Settled(p.version[2])' /\ Said(p.version)' = Said(p.version)
    BY <2>1, SaidKept DEF Kept, Stays
  <2> QED BY <2>1, <2>2 DEF Kept
<1>3. ChampionsKnown'
  BY DEF Inductive, ChampionsKnown
<1> QED BY <1>1, <1>2, <1>3 DEF RunsEarned, PredictionsKept

\* What another operator has read stays what it was.
LEMMA FitsKept ==
  ASSUME Stays, clock' = clock \/ (clock \in Nat /\ clock' = clock + 1),
         snapshots' = snapshots, NEW c, Fits(c),
         \A r \in runs : \E q \in runs' : q.selected = r.selected
  PROVE  Fits(c)'
<1>1. c.command = "build" => c.at \in Nat /\ c.at < clock'
                              /\ \A x \in ToSet(snapshots) : x.at # c.at
  BY DEF Fits
<1>2. c.command = "train" =>
        Settled(c.snapshot)' /\ c.series = Series(StoredUnder(c.snapshot)')
  BY DEF Fits, Stays
<1>3. c.command = "promote" => \E r \in runs' : r.selected = c.version
  BY DEF Fits
<1> QED BY <1>1, <1>2, <1>3 DEF Fits

\* Nor is a moment given twice when no snapshot is stored.
LEMMA StampedKept ==
  ASSUME SnapshotsStamped, Stays, clock' = clock \/ clock' = clock + 1, snapshots' = snapshots
  PROVE  SnapshotsStamped'
BY DEF SnapshotsStamped, Stays

\* A command that begins: its moment is before no other's.
LEMMA StartsKept ==
  ASSUME Inductive, NEW w \in Workers, NEW c, Starts(w, c), Fits(c)',
         c.command = "build" => c.at = clock
  PROVE  Inductive'
<1>1. /\ clock' = clock + 1 /\ op' = [op EXCEPT ![w] = c] /\ clock \in Nat
      /\ UNCHANGED <<snapshots, rows, runs, predictions, champions>>
  BY DEF Starts, Inductive, SnapshotsStamped
<1>2. Stays
  BY <1>1, RowsSame
<1>3. SnapshotsStamped' /\ RunsEarned' /\ PredictionsKept' /\ ChampionsKnown'
  BY <1>1, <1>2, StampedKept, JudgedKept DEF Inductive
<1>4. /\ DOMAIN op' = Workers /\ op'[w] = c
      /\ \A v \in Workers : v # w => op'[v] = op[v]
  BY <1>1 DEF Inductive, OpsFit
<1>5. ASSUME NEW v \in Workers, NEW d, v # w, op[v] = d PROVE Fits(d)'
  <2>1. Fits(d)
    BY <1>5 DEF Inductive, OpsFit
  <2> QED BY <1>1, <1>2, <2>1, FitsKept
<1>6. OpsFit'
  BY <1>4, <1>5 DEF OpsFit
<1>7. OpsApart'
  <2>1. \A v \in Workers : op[v].command = "build" => op[v].at \in Nat /\ op[v].at < clock
    BY DEF Inductive, OpsFit, Fits
  <2>2. \A v \in Workers : v # w /\ op[v].command = "build" => op[v].at # clock
    BY <1>1, <2>1
  <2> QED BY <1>4, <2>2 DEF Inductive, OpsApart
<1> QED BY <1>3, <1>6, <1>7 DEF Inductive

\* A command that ends leaves the others as they were.
LEMMA EndsKept ==
  ASSUME Inductive, NEW w \in Workers, op' = [op EXCEPT ![w] = Idle],
         \A v \in Workers : \A c : v # w /\ op[v] = c => Fits(c)'
  PROVE  OpsFit' /\ OpsApart'
<1>1. Idle.command = "none"
  BY DEF Idle
<1>2. /\ DOMAIN op' = Workers /\ op'[w] = Idle
      /\ \A v \in Workers : v # w => op'[v] = op[v]
  BY DEF Inductive, OpsFit
<1> HIDE DEF Idle
<1>3. Fits(Idle)'
  BY <1>1 DEF Fits
<1>4. ASSUME NEW v \in Workers, NEW c, op'[v] = c PROVE Fits(c)'
  <2>1. CASE v # w
    BY <1>2, <1>4, <2>1
  <2>2. CASE v = w
    <3>1. c.command = "none"
      BY <1>1, <1>2, <1>4, <2>2
    <3> QED BY <3>1 DEF Fits
  <2> QED BY <2>1, <2>2
<1>5. OpsFit'
  BY <1>2, <1>4 DEF OpsFit
<1>6. OpsApart'
  BY <1>1, <1>2 DEF Inductive, OpsApart
<1> QED BY <1>5, <1>6

\* Building stores the rows that are missing and the snapshot, if it is new.
LEMMA BuildKept == ASSUME Inductive, NEW w \in Workers, BuildCommit(w) PROVE Inductive'
<1>1. PICK c : c = op[w]
  OBVIOUS
<1> DEFINE s == c.snapshot
           new == [id |-> s, at |-> c.at]
           all == ToSet(snapshots) \cup {new}
<1>2. /\ rows' = Stored(Ids(s), s) /\ op' = [op EXCEPT ![w] = Idle]
      /\ snapshots' = IF s \in Known THEN snapshots ELSE Ranked(all, LAMBDA x, y : x.at < y.at)
      /\ UNCHANGED <<source, runs, predictions, champions, clock>>
      /\ c.command = "build"
  BY <1>1 DEF BuildCommit, Ids
<1>3. Stays /\ Settled(s)'
  BY <1>2, StoredKept
<1>4. RunsEarned' /\ PredictionsKept' /\ ChampionsKnown'
  BY <1>2, <1>3, JudgedKept
<1>5. c.at \in Nat /\ c.at < clock /\ \A x \in ToSet(snapshots) : x.at # c.at
  BY <1>1, <1>2 DEF Inductive, OpsFit, Fits
<1>6. new.at = c.at /\ new.id = s
  OBVIOUS
<1> HIDE DEF new
<1>7. /\ ToSet(snapshots') \subseteq all /\ snapshots' \in Seq(ToSet(snapshots'))
  <2>1. CASE s \in Known
    BY <1>2, <2>1 DEF Inductive, SnapshotsStamped
  <2>2. CASE s \notin Known
    <3>1. IsFiniteSet(all)
      BY StampedFinite, FS_AddElement DEF Inductive
    <3>2. \A x \in all : x.at \in Nat
      BY <1>5, <1>6 DEF Inductive, SnapshotsStamped
    <3>3. \A x, y \in all : x.at = y.at => x = y
      BY <1>5, <1>6 DEF Inductive, SnapshotsStamped
    <3> HIDE DEF all
    <3>4. /\ Ranked(all, LAMBDA x, y : x.at < y.at) \in Seq(all)
          /\ ToSet(Ranked(all, LAMBDA x, y : x.at < y.at)) = all
      BY <3>1, <3>2, <3>3, RankedByTime
    <3>5. snapshots' = Ranked(all, LAMBDA x, y : x.at < y.at)
      BY <1>2, <2>2
    <3> QED BY <3>4, <3>5
  <2> QED BY <2>1, <2>2
<1>8. SnapshotsStamped'
  <2>1. \A x \in all : x.at \in Nat /\ x.at < clock /\ Settled(x.id)'
    BY <1>3, <1>5, <1>6 DEF Inductive, SnapshotsStamped, Stays
  <2>2. \A x, y \in all : x.at = y.at => x = y
    BY <1>5, <1>6 DEF Inductive, SnapshotsStamped
  <2> HIDE DEF all
  <2> QED BY <1>2, <1>7, <2>1, <2>2 DEF Inductive, SnapshotsStamped
<1>9. ASSUME NEW v \in Workers, NEW d, v # w, op[v] = d PROVE Fits(d)'
  <2>1. Fits(d)
    BY <1>9 DEF Inductive, OpsFit
  <2>2. d.command = "build" =>
          d.at \in Nat /\ d.at < clock' /\ \A x \in ToSet(snapshots') : x.at # d.at
    <3>1. d.command = "build" => d.at # c.at
      BY <1>1, <1>2, <1>9 DEF Inductive, OpsApart
    <3> QED BY <1>2, <1>6, <1>7, <2>1, <3>1 DEF Fits
  <2>3. d.command = "train" =>
          Settled(d.snapshot)' /\ d.series = Series(StoredUnder(d.snapshot)')
    BY <1>3, <2>1 DEF Fits, Stays
  <2>4. d.command = "promote" => \E r \in runs' : r.selected = d.version
    BY <1>2, <2>1 DEF Fits
  <2> QED BY <2>2, <2>3, <2>4 DEF Fits
<1>10. OpsFit' /\ OpsApart'
  BY <1>2, <1>9, EndsKept
<1> QED BY <1>4, <1>8, <1>10 DEF Inductive

\* The commands that leave snapshots and rows alone.
LEMMA OthersFit ==
  ASSUME Inductive, UNCHANGED <<snapshots, rows, clock>>,
         \A r \in runs : \E q \in runs' : q.selected = r.selected
  PROVE  /\ Stays /\ SnapshotsStamped'
         /\ \A v \in Workers : \A c : op[v] = c => Fits(c)'
<1>1. Stays
  BY RowsSame
<1>2. SnapshotsStamped'
  BY <1>1, StampedKept DEF Inductive
<1>3. ASSUME NEW v \in Workers, NEW c, op[v] = c PROVE Fits(c)'
  <2>1. Fits(c)
    BY <1>3 DEF Inductive, OpsFit
  <2>2. clock' = clock /\ snapshots' = snapshots
    OBVIOUS
  <2> QED BY <1>1, <2>1, <2>2, FitsKept
<1> QED BY <1>1, <1>2, <1>3

\* A run that is trained again selects the same version, and the predictions
\* of a version are stored all together or are all there.
LEMMA TrainKept == ASSUME Inductive, NEW w \in Workers, TrainCommit(w) PROVE Inductive'
<1>1. PICK c : c = op[w]
  OBVIOUS
<1> DEFINE s     == c.snapshot
           model == SelectChampion(c.models, c.series)
           v     == <<model, s>>
           run   == [snapshot |-> s, models |-> c.models, selected |-> v, completed |-> c.at]
           same  == {r \in runs : r.snapshot = s /\ r.models = c.models}
           said  == Predictions(model, s, c.series, Horizon)
           fresh == {p \in said : \A q \in predictions :
                       <<q.entity, q.month, q.version>> # <<p.entity, p.month, p.version>>}
<1>2. /\ c.command = "train" /\ op' = [op EXCEPT ![w] = Idle]
      /\ runs' = (runs \ same) \cup {run} /\ predictions' = predictions \cup fresh
      /\ UNCHANGED <<source, snapshots, rows, champions, clock>>
  BY <1>1, Zenon DEF TrainCommit
<1>3. Settled(s) /\ c.series = Series(StoredUnder(s))
  BY <1>1, <1>2 DEF Inductive, OpsFit, Fits
<1>4. run.snapshot = s /\ run.models = c.models /\ run.selected = v
  OBVIOUS
<1>5. v[1] = model /\ v[2] = s
  OBVIOUS
<1>6. said = Said(v)
  BY <1>3, <1>5 DEF Said
<1>7. \A p \in said : p.version = v
  BY OwnVersion
<1>8. \A r \in same : r.selected = v
  BY <1>3 DEF Inductive, RunsEarned, RunEarned
<1> HIDE DEF run, v, model
<1>9. \A r \in runs : \E q \in runs' : q.selected = r.selected
  BY <1>2, <1>4, <1>8
<1>10. said \subseteq predictions'
  <2>1. CASE \E q \in predictions : q.version = v
    <3>1. Said(v) \subseteq predictions
      BY <2>1 DEF Inductive, PredictionsKept, Kept
    <3> QED BY <1>2, <1>6, <3>1
  <2>2. CASE ~ \E q \in predictions : q.version = v
    <3>1. \A p \in said : p \in fresh
      <4> SUFFICES ASSUME NEW p \in said, NEW q \in predictions
                   PROVE  <<q.entity, q.month, q.version>> # <<p.entity, p.month, p.version>>
        OBVIOUS
      <4>1. q.version # p.version
        BY <1>7, <2>2
      <4> HIDE DEF said
      <4> QED BY <4>1
    <3> HIDE DEF fresh
    <3> QED BY <1>2, <3>1
  <2> QED BY <2>1, <2>2
<1>11. fresh \subseteq said
  OBVIOUS
<1> HIDE DEF said, fresh
<1>12. Stays /\ SnapshotsStamped' /\ \A x \in Workers : \A d : op[x] = d => Fits(d)'
  BY <1>2, <1>9, OthersFit
<1>13. OpsFit' /\ OpsApart'
  BY <1>2, <1>12, EndsKept
<1>14. Settled(s)' /\ StoredUnder(s)' = StoredUnder(s) /\ Said(v)' = Said(v)
  BY <1>3, <1>5, <1>12, SaidKept DEF Stays
<1>15. ASSUME NEW r \in runs' PROVE RunEarned(r)'
  <2>1. CASE r = run
    <3>1. r.selected = <<SelectChampion(r.models, Series(StoredUnder(r.snapshot)')), r.snapshot>>
      BY <1>3, <1>4, <1>14, <2>1 DEF v, model
    <3>2. Settled(r.snapshot)' /\ Said(r.selected)' \subseteq predictions'
      BY <1>4, <1>6, <1>10, <1>14, <2>1
    <3> QED BY <3>1, <3>2 DEF RunEarned
  <2>2. CASE r \in runs
    <3>1. RunEarned(r)
      BY <2>2 DEF Inductive, RunsEarned
    <3>2. Settled(r.snapshot)' /\ StoredUnder(r.snapshot)' = StoredUnder(r.snapshot)
      BY <1>12, <3>1 DEF RunEarned, Stays
    <3>3. r.selected[2] = r.snapshot
      BY <3>1 DEF RunEarned
    <3>4. Said(r.selected)' = Said(r.selected)
      BY <1>12, <3>1, <3>3, SaidKept DEF RunEarned
    <3> QED BY <1>2, <3>1, <3>2, <3>4 DEF RunEarned
  <2> QED BY <1>2, <2>1, <2>2
<1>16. ASSUME NEW p \in predictions' PROVE Kept(p)'
  <2>1. CASE p \in predictions
    <3>1. Kept(p)
      BY <2>1 DEF Inductive, PredictionsKept
    <3>2. Settled(p.version[2])' /\ Said(p.version)' = Said(p.version)
      BY <1>12, <3>1, SaidKept DEF Kept, Stays
    <3> QED BY <1>2, <3>1, <3>2 DEF Kept
  <2>2. CASE p \in fresh
    <3>1. p \in said /\ p.version = v
      BY <1>7, <1>11, <2>2
    <3> QED BY <1>5, <1>6, <1>10, <1>14, <3>1 DEF Kept
  <2> QED BY <1>2, <2>1, <2>2
<1>17. ChampionsKnown'
  BY <1>2, <1>9 DEF Inductive, ChampionsKnown
<1> QED BY <1>12, <1>13, <1>15, <1>16, <1>17 DEF Inductive, RunsEarned, PredictionsKept

\* The index allows one champion; another promotion in the meantime is why
\* the rows that were to be retired may not be all there are.
LEMMA PromoteKept == ASSUME Inductive, NEW w \in Workers, PromoteCommit(w) PROVE Inductive'
<1>1. PICK c : c = op[w]
  OBVIOUS
<1> DEFINE next == (champions \ c.retires) \cup {c.version}
<1>2. /\ c.command = "promote" /\ op' = [op EXCEPT ![w] = Idle]
      /\ champions' = IF Unique(next) THEN next ELSE champions
      /\ UNCHANGED <<source, snapshots, rows, runs, predictions, clock>>
  BY <1>1 DEF PromoteCommit
<1>3. Stays /\ SnapshotsStamped' /\ OpsFit' /\ OpsApart'
  BY <1>2, OthersFit, EndsKept
<1>4. \E r \in runs : r.selected = c.version
  BY <1>1, <1>2 DEF Inductive, OpsFit, Fits
<1>5. \A v \in next : \E r \in runs : r.selected = v
  BY <1>4 DEF Inductive, ChampionsKnown
<1>6. ChampionsKnown'
  BY <1>2, <1>5 DEF Inductive, ChampionsKnown, Unique
<1>7. RunsEarned' /\ PredictionsKept'
  <2>1. \A r \in runs : RunEarned(r)'
    BY <1>2 DEF Inductive, RunsEarned, RunEarned, Settled, Said, StoredUnder
  <2>2. \A p \in predictions : Kept(p)'
    BY <1>2 DEF Inductive, PredictionsKept, Kept, Settled, Said, StoredUnder
  <2> QED BY <1>2, <2>1, <2>2 DEF RunsEarned, PredictionsKept
<1> QED BY <1>3, <1>6, <1>7 DEF Inductive

\* A command begins with what it reads.
LEMMA BeginsKept ==
  ASSUME Inductive, NEW w \in Workers,
         \/ \E cutoff \in Cutoffs : BuildStart(w, cutoff)
         \/ \E models \in ModelLists, refresh \in BOOLEAN : TrainStart(w, models, refresh)
         \/ \E run \in runs : PromoteStart(w, run)
  PROVE  Inductive'
<1>1. ASSUME NEW c, Starts(w, c)
      PROVE  clock' = clock + 1 /\ clock \in Nat /\ Stays
             /\ UNCHANGED <<snapshots, rows, runs>>
  BY <1>1, RowsSame DEF Starts, Inductive, SnapshotsStamped
<1>2. ASSUME NEW cutoff \in Cutoffs, BuildStart(w, cutoff) PROVE Inductive'
  <2>1. PICK c : c = [command |-> "build", at |-> clock, snapshot |-> Snapshot(source, cutoff)]
    OBVIOUS
  <2>2. Starts(w, c) /\ c.command = "build" /\ c.at = clock
    BY <1>2, <2>1 DEF BuildStart
  <2>3. Fits(c)'
    <3>1. \A x \in ToSet(snapshots) : x.at # clock
      BY DEF Inductive, SnapshotsStamped
    <3> QED BY <1>1, <2>2, <3>1 DEF Fits
  <2> QED BY <2>2, <2>3, StartsKept
<1>3. ASSUME NEW models, NEW refresh, TrainStart(w, models, refresh) PROVE Inductive'
  <2>1. PICK c : c = [command |-> "train", at |-> clock, snapshot |-> Last(snapshots).id,
                      models |-> models, series |-> Series(StoredUnder(Last(snapshots).id))]
    OBVIOUS
  <2>2. Starts(w, c) /\ snapshots # <<>>
    BY <1>3, <2>1 DEF TrainStart
  <2>3. /\ c.command = "train" /\ c.snapshot = Last(snapshots).id
        /\ c.series = Series(StoredUnder(c.snapshot))
    BY <2>1
  <2>4. Settled(c.snapshot)
    <3>1. Last(snapshots) \in ToSet(snapshots)
      BY <2>2 DEF Inductive, SnapshotsStamped, Last, ToSet
    <3> QED BY <2>3, <3>1 DEF Inductive, SnapshotsStamped
  <2>5. Settled(c.snapshot)' /\ c.series = Series(StoredUnder(c.snapshot)')
    BY <1>1, <2>2, <2>3, <2>4 DEF Stays
  <2>6. Fits(c)'
    BY <2>3, <2>5 DEF Fits
  <2> QED BY <2>2, <2>3, <2>6, StartsKept
<1>4. ASSUME NEW run \in runs, PromoteStart(w, run) PROVE Inductive'
  <2>1. PICK c : c = [command |-> "promote", version |-> run.selected, retires |-> champions]
    OBVIOUS
  <2>2. Starts(w, c) /\ c.command = "promote" /\ c.version = run.selected
    BY <1>4, <2>1 DEF PromoteStart
  <2>3. Fits(c)'
    BY <1>1, <2>2 DEF Fits
  <2> QED BY <2>2, <2>3, StartsKept
<1> QED BY <1>2, <1>3, <1>4

\* The empty store.
LEMMA InitHolds == Init => Inductive
<1> SUFFICES ASSUME Init PROVE Inductive
  OBVIOUS
<1>1. snapshots = <<>> /\ clock = 0 /\ ToSet(snapshots) = {}
  BY DEF Init, ToSet
<1>2. SnapshotsStamped
  BY <1>1 DEF SnapshotsStamped
<1>3. RunsEarned /\ PredictionsKept /\ ChampionsKnown
  BY FS_EmptySet DEF Init, RunsEarned, PredictionsKept, ChampionsKnown
<1>4. OpsFit /\ OpsApart
  <2>1. DOMAIN op = Workers /\ \A w \in Workers : op[w].command = "none"
    BY DEF Init, Idle
  <2> QED BY <2>1 DEF OpsFit, OpsApart, Fits
<1> QED BY <1>2, <1>3, <1>4 DEF Inductive

\* Nothing a proof speaks of changes but the operators' commands.
LEMMA AbortKept ==
  ASSUME Inductive, NEW w \in Workers, Abort(w)
  PROVE  Inductive'
<1>1. op' = [op EXCEPT ![w] = Idle]
      /\ UNCHANGED <<source, snapshots, rows, runs, predictions, champions, clock>>
  BY DEF Abort
<1>2. Stays /\ SnapshotsStamped' /\ OpsFit' /\ OpsApart'
  BY <1>1, OthersFit, EndsKept
<1> QED BY <1>1, <1>2, JudgedKept DEF Inductive

\* Any step, with one case per action.
LEMMA StepKept == Inductive /\ [Next]_vars => Inductive'
<1> SUFFICES ASSUME Inductive, [Next]_vars PROVE Inductive'
  OBVIOUS
<1>1. CASE UNCHANGED <<snapshots, rows, runs, predictions, champions, op, clock>>
  <2>1. Stays /\ SnapshotsStamped' /\ \A v \in Workers : \A c : op[v] = c => Fits(c)'
    BY <1>1, OthersFit
  <2>2. OpsFit' /\ OpsApart'
    BY <1>1, <2>1 DEF Inductive, OpsFit, OpsApart
  <2> QED BY <1>1, <2>1, <2>2, JudgedKept DEF Inductive
<1>2. ASSUME NEW w \in Workers,
             \/ \E cutoff \in Cutoffs : BuildStart(w, cutoff)
             \/ \E models \in ModelLists, refresh \in BOOLEAN : TrainStart(w, models, refresh)
             \/ \E run \in runs : PromoteStart(w, run)
      PROVE  Inductive'
  BY <1>2, BeginsKept
<1>3. ASSUME NEW w \in Workers, BuildCommit(w) \/ TrainCommit(w) \/ PromoteCommit(w) \/ Abort(w)
      PROVE  Inductive'
  BY <1>3, BuildKept, TrainKept, PromoteKept, AbortKept
<1> QED BY <1>1, <1>2, <1>3 DEF Next, Correct, vars

\* The invariant of the proofs: what a snapshot's hash names stays in the
\* store under the snapshot it was first stored under, so that runs,
\* predictions and commands under way speak of rows that do not change.
THEOREM InvariantHolds == Spec => []Inductive
BY InitHolds, StepKept, PTL DEF Spec
-----------------------------------------------------------------------------
(* Theorems.                                                               *)

\* Forecasting again from the snapshot of a run tells what the run stored as
\* far as both look ahead, whatever the horizons are, for any corrections of
\* the source, any sharing of rows between snapshots and any overlap of
\* commands.
THEOREM Reproducible == Spec => []ForecastReproducible
<1>1. Inductive => ForecastReproducible
  <2> SUFFICES ASSUME Inductive, NEW r \in runs
               PROVE  {p \in predictions : p.version = r.selected /\ p.ahead <= OnDemandHorizon}
                        = {p \in OnDemand(r.selected) : p.ahead <= Horizon}
    BY DEF ForecastReproducible
  <2>1. RunEarned(r)
    BY DEF Inductive, RunsEarned
  <2>2. r.selected = <<r.selected[1], r.selected[2]>>
    BY <2>1 DEF RunEarned
  <2>3. Horizon \in Nat /\ OnDemandHorizon \in Nat
    BY ForecastBounds
  <2>4. \A p \in Said(r.selected) :
          /\ p.version = r.selected /\ p.ahead <= Horizon
          /\ p.ahead <= OnDemandHorizon => p \in OnDemand(r.selected)
    BY <2>2, <2>3, OwnVersion, SaidAhead DEF Said, OnDemand
  <2>5. \A p \in OnDemand(r.selected) :
          /\ p.version = r.selected /\ p.ahead <= OnDemandHorizon
          /\ p.ahead <= Horizon => p \in Said(r.selected)
    BY <2>2, <2>3, OwnVersion, SaidAhead DEF Said, OnDemand
  <2>6. \A p \in predictions : p.version = r.selected => p \in Said(r.selected)
    BY DEF Inductive, PredictionsKept, Kept
  <2>7. Said(r.selected) \subseteq predictions
    BY <2>1 DEF RunEarned
  <2> QED BY <2>4, <2>5, <2>6, <2>7
<1> QED BY <1>1, InvariantHolds, PTL

\* One champion at most, through any overlap of promotions, and it is the
\* baseline or strictly beats it on the rows its snapshot holds now.
THEOREM OneChampion == Spec => []ChampionEarned
<1>1. Inductive => ChampionEarned
  <2> SUFFICES ASSUME Inductive, NEW v \in champions
               PROVE  v[1] = Naive \/ Wape(v[1], Series(StoredUnder(v[2])))
                                         < Wape(Naive, Series(StoredUnder(v[2])))
    BY DEF ChampionEarned, Inductive, ChampionsKnown
  <2>1. PICK r \in runs : r.selected = v
    BY DEF Inductive, ChampionsKnown
  <2>2. v[1] = SelectChampion(r.models, Series(StoredUnder(v[2])))
    BY <2>1 DEF Inductive, RunsEarned, RunEarned
  <2> QED BY <2>2 DEF SelectChampion
<1> QED BY <1>1, InvariantHolds, PTL

-----------------------------------------------------------------------------
(* Grounded answers: what is found.                                        *)

\* Tuples of two numbers.
LEMMA SmallerPairs ==
  ASSUME NEW a \in Int, NEW b \in Int, NEW c \in Int, NEW d \in Int
  PROVE  Smaller(<<a, b>>, <<c, d>>) <=> a < c \/ (a = c /\ b < d)
  BY DEF Smaller

\* Tuples of three numbers.
LEMMA SmallerTriples ==
  ASSUME NEW a \in Int, NEW b \in Int, NEW c \in Int,
         NEW d \in Int, NEW e \in Int, NEW f \in Int
  PROVE  Smaller(<<a, b, c>>, <<d, e, f>>)
           <=> a < d \/ (a = d /\ b < e) \/ (a = d /\ b = e /\ c < f)
<1> DEFINE s == <<a, b, c>>
           t == <<d, e, f>>
<1>1. DOMAIN s = {1, 2, 3} /\ 1 - 1 = 0 /\ 2 - 1 = 1 /\ 3 - 1 = 2
  OBVIOUS
<1>2. \A j : (j \in 1..0 <=> FALSE) /\ (j \in 1..1 <=> j = 1) /\ (j \in 1..2 <=> j = 1 \/ j = 2)
  OBVIOUS
<1>3. s[1] = a /\ s[2] = b /\ s[3] = c /\ t[1] = d /\ t[2] = e /\ t[3] = f
  OBVIOUS
<1>4. Smaller(s, t) <=> \E i \in DOMAIN s : s[i] < t[i] /\ \A j \in 1..(i - 1) : s[j] = t[j]
  BY DEF Smaller
<1> HIDE DEF s, t
<1>5. Smaller(s, t) <=> \/ s[1] < t[1]
                        \/ s[2] < t[2] /\ s[1] = t[1]
                        \/ s[3] < t[3] /\ s[1] = t[1] /\ s[2] = t[2]
  BY <1>1, <1>2, <1>4
<1> QED BY <1>3, <1>5 DEF s, t

\* Chunks by a number and then by their id.
ById(S, key) ==
  Listed(S, [c \in S |-> 1 + Cardinality({d \in S : Smaller(<<key[d], d>>, <<key[c], c>>)})])

\* Sorting by one number and then by the id lists a set of chunks completely.
LEMMA SortsChunks ==
  ASSUME NEW S \in SUBSET Chunk, NEW key \in [S -> Int]
  PROVE  ById(S, key) \in Seq(S) /\ ToSet(ById(S, key)) = S
<1> DEFINE low == [c \in S |-> {d \in S : Smaller(<<key[d], d>>, <<key[c], c>>)}]
           q == ById(S, key)
<1>1. IsFiniteSet(S) /\ S \subseteq Int
  <2>1. IsFiniteSet(Chunk) /\ Chunk \subseteq Int
    BY RetrievalBounds
  <2> QED BY <2>1, FS_Subset
<1>2. \A c, d \in S : d \in low[c] <=> key[d] < key[c] \/ (key[d] = key[c] /\ d < c)
  BY <1>1, SmallerPairs
<1>3. low \in [S -> SUBSET S]
  OBVIOUS
<1>4. q = Listed(S, [c \in S |-> 1 + Cardinality(low[c])])
  <2>1. [c \in S |-> 1 + Cardinality({d \in S : Smaller(<<key[d], d>>, <<key[c], c>>)})]
          = [c \in S |-> 1 + Cardinality(low[c])]
    OBVIOUS
  <2> HIDE DEF low
  <2> QED BY <2>1 DEF ById
<1> HIDE DEF low
<1>5. \A c, d \in S : key[c] \in Int /\ c \in Int
  BY <1>1
<1>6. /\ \A c \in S : c \notin low[c]
      /\ \A c, d \in S : c = d \/ c \in low[d] \/ d \in low[c]
  BY <1>2, <1>5
<1>7. \A c, d \in S : c \in low[d] => low[c] \subseteq low[d]
  <2> SUFFICES ASSUME NEW c \in S, NEW d \in S, c \in low[d], NEW e \in low[c]
               PROVE  e \in low[d]
    OBVIOUS
  <2>1. e \in S
    BY <1>3
  <2> QED BY <2>1, <1>2, <1>5
<1>8. InOrder(q, S, low)
  <2>1. InOrder(Listed(S, [c \in S |-> 1 + Cardinality(low[c])]), S, low)
    BY <1>1, <1>3, <1>6, <1>7, SortsCompletely
  <2> QED BY <1>4, <2>1
<1> QED BY <1>8 DEF InOrder

\* The first of a list.
LEMMA TopOfList ==
  ASSUME NEW S, NEW q \in Seq(S), NEW n \in Nat
  PROVE  /\ Top(q, n) \in Seq(S) /\ ToSet(Top(q, n)) \subseteq ToSet(q)
         /\ Len(Top(q, n)) <= n
         /\ \A i \in DOMAIN Top(q, n) : i \in DOMAIN q /\ Top(q, n)[i] = q[i]
<1> DEFINE m == IF Len(q) < n THEN Len(q) ELSE n
           t == SubSeq(q, 1, m)
<1>1. m \in Nat /\ m <= Len(q) /\ m <= n /\ \A i \in 1..m : q[i] \in S
  OBVIOUS
<1>2. Top(q, n) = t
  BY DEF Top
<1> HIDE DEF m
<1>3. t \in Seq(S) /\ Len(t) = m /\ \A i \in 1..m : t[i] = q[i]
  BY <1>1, SubSeqProperties
<1> HIDE DEF t
<1>4. ToSet(t) = {t[i] : i \in DOMAIN t} /\ ToSet(q) = {q[i] : i \in DOMAIN q}
  BY DEF ToSet
<1> QED BY <1>1, <1>2, <1>3, <1>4

\* The searches return chunks that the statement may see, no more than asked for.
LEMMA SearchesFind ==
  ASSUME NEW q \in Queries, NEW visible \in SUBSET Chunk
  PROVE  /\ LexicalSearch(Text[q], visible) \in Seq(visible)
         /\ DenseSearch(Text[q], visible) \in Seq(visible)
         /\ Len(LexicalSearch(Text[q], visible)) <= LexicalTop
         /\ Len(DenseSearch(Text[q], visible)) <= DenseTop
<1> DEFINE hits == {c \in visible : Text[q].words[c] > 0}
           words == [c \in hits |-> -Text[q].words[c]]
           near == [c \in visible |-> Text[q].distance[c]]
           byWords == ById(hits, words)
           byNear == ById(visible, near)
<1>1. Text[q].words \in [Chunk -> Int] /\ Text[q].distance \in [Chunk -> Int]
  BY QuestionsAssumption
<1>2. words \in [hits -> Int] /\ near \in [visible -> Int] /\ hits \in SUBSET Chunk
  BY <1>1
<1>3. LexicalSearch(Text[q], visible) = Top(byWords, LexicalTop)
  <2>1. \A c \in hits : {d \in hits : Smaller(<<-Text[q].words[d], d>>, <<-Text[q].words[c], c>>)}
                     = {d \in hits : Smaller(<<words[d], d>>, <<words[c], c>>)}
    OBVIOUS
  <2> QED BY <2>1 DEF LexicalSearch, Ranked, ById
<1>4. DenseSearch(Text[q], visible) = Top(byNear, DenseTop)
  <2>1. \A c \in visible :
          {d \in visible : Smaller(<<Text[q].distance[d], d>>, <<Text[q].distance[c], c>>)}
            = {d \in visible : Smaller(<<near[d], d>>, <<near[c], c>>)}
    OBVIOUS
  <2> QED BY <2>1 DEF DenseSearch, Ranked, ById
<1>5. byWords \in Seq(hits) /\ byNear \in Seq(visible)
  <2> HIDE DEF words, near, hits
  <2> QED BY <1>2, SortsChunks
<1> HIDE DEF byWords, byNear, hits
<1>6. LexicalTop \in Nat /\ DenseTop \in Nat
  BY RetrievalBounds
<1>7. /\ Top(byWords, LexicalTop) \in Seq(hits) /\ Top(byNear, DenseTop) \in Seq(visible)
      /\ Len(Top(byWords, LexicalTop)) <= LexicalTop /\ Len(Top(byNear, DenseTop)) <= DenseTop
  BY <1>5, <1>6, TopOfList
<1>8. \A s : s \in Seq(hits) => s \in Seq(visible)
  BY DEF hits
<1> QED BY <1>3, <1>4, <1>7, <1>8

-----------------------------------------------------------------------------
(* What is made of it.                                                     *)

\* Evidence: hits of F with their ranks and scores, one of each.
Rank == Nat \cup {None}
Evidences(F) ==
  [id : F, lexical : Rank, dense : Rank, rrf : Int, rerank : Int \cup {None}]

Apart(S) == \A x, y \in S : x.id = y.id => x = y

\* Nothing is repeated.
Once(q) == \A i, j \in DOMAIN q : q[i] = q[j] => i = j

\* A list of such evidence.
EvidenceFrom(q, F) == q \in Seq(Evidences(F)) /\ Apart(ToSet(q))

\* A set of numbers has a first one.
LEMMA FirstOne ==
  ASSUME NEW S \in SUBSET Nat, S # {}
  PROVE  \E n \in S : \A m \in S : n <= m
<1> DEFINE R == OpToRel(<, Nat)
<1>1. \E n \in S : \A m \in S : <<m, n>> \notin R
  <2>1. IsWellFoundedOn(R, Nat)
    BY NatLessThanWellFounded
  <2> HIDE DEF R
  <2> QED BY <2>1, WFMin
<1>2. PICK n \in S : \A m \in S : <<m, n>> \notin R
  BY <1>1
<1>3. \A m \in S : n <= m
  <2> SUFFICES ASSUME NEW m \in S PROVE n <= m
    OBVIOUS
  <2>1. n \in Nat /\ m \in Nat /\ ~(m < n)
    BY <1>2 DEF OpToRel
  <2> QED BY <2>1
<1> QED BY <1>3

\* What is built in N steps exists.
Built(h, N, V, base, step) ==
  /\ h \in [0..N -> V]
  /\ h[0] = base
  /\ \A n \in 1..N : h[n] = step[n][h[n - 1]]

\* Whatever the steps are: of those that could not be taken one would be the first.
LEMMA StepsExist ==
  ASSUME NEW N \in Nat, NEW V, NEW base \in V, NEW step \in [1..N -> [V -> V]]
  PROVE  \E h : Built(h, N, V, base, step)
<1> DEFINE bad == {n \in 0..N : ~ \E h : Built(h, n, V, base, step)}
<1> SUFFICES ASSUME bad # {} PROVE FALSE
  OBVIOUS
<1>1. PICK n \in bad : \A m \in bad : n <= m
  <2>1. bad \in SUBSET Nat
    OBVIOUS
  <2> HIDE DEF bad
  <2> QED BY <2>1, FirstOne
<1>2. n \in 0..N /\ ~ \E h : Built(h, n, V, base, step)
  BY <1>1
<1>3. CASE n = 0
  <2> DEFINE h == [m \in 0..0 |-> base]
  <2>1. Built(h, 0, V, base, step)
    BY DEF Built
  <2> QED BY <1>2, <1>3, <2>1
<1>4. CASE n # 0
  <2>1. n - 1 \in 0..N /\ n - 1 \notin bad
    <3> HIDE DEF bad
    <3> QED BY <1>1, <1>2, <1>4
  <2>2. PICK h : Built(h, n - 1, V, base, step)
    BY <2>1
  <2>3. h \in [0..(n - 1) -> V] /\ h[0] = base /\ \A m \in 1..(n - 1) : h[m] = step[m][h[m - 1]]
    BY <2>2 DEF Built
  <2> DEFINE g == [m \in 0..n |-> IF m = n THEN step[n][h[n - 1]] ELSE h[m]]
  <2>4. step[n][h[n - 1]] \in V
    <3>1. n \in 1..N /\ h[n - 1] \in V
      BY <1>2, <1>4, <2>3
    <3> QED BY <3>1
  <2>5. g \in [0..n -> V] /\ g[0] = base
    BY <1>2, <1>4, <2>3, <2>4
  <2>6. \A m \in 1..n : g[m] = step[m][g[m - 1]]
    <3> TAKE m \in 1..n
    <3>1. m \in 0..n /\ m - 1 \in 0..n /\ m - 1 # n /\ (m # n => m \in 1..(n - 1))
      BY <1>2
    <3>2. g[m - 1] = h[m - 1]
      BY <3>1
    <3>3. g[m] = IF m = n THEN step[n][h[n - 1]] ELSE h[m]
      BY <3>1
    <3> HIDE DEF g
    <3> QED BY <2>3, <3>1, <3>2, <3>3
  <2> HIDE DEF g
  <2>7. Built(g, n, V, base, step)
    BY <2>5, <2>6 DEF Built
  <2> QED BY <1>2, <2>7
<1> QED BY <1>3, <1>4

\* What holds at first and is kept by every step holds of all N.
LEMMA StepByStep ==
  ASSUME NEW N \in Nat, NEW G \in SUBSET (0..N), 0 \in G,
         \A n \in 1..N : n - 1 \in G => n \in G
  PROVE  G = 0..N
<1> DEFINE bad == (0..N) \ G
<1> SUFFICES ASSUME bad # {} PROVE FALSE
  OBVIOUS
<1>1. PICK n \in bad : \A m \in bad : n <= m
  <2>1. bad \in SUBSET Nat
    OBVIOUS
  <2> HIDE DEF bad
  <2> QED BY <2>1, FirstOne
<1>2. n \in 0..N /\ n # 0 /\ n \notin G
  BY <1>1
<1>3. n \in 1..N /\ n - 1 \in 0..N /\ n - 1 \notin bad
  <2> HIDE DEF bad
  <2> QED BY <1>1, <1>2
<1> QED BY <1>2, <1>3

\* The deepest rank of either list.
Deepest == IF LexicalTop > DenseTop THEN LexicalTop ELSE DenseTop

\* The common denominator is a multiple of every number a rank divides it by.
LEMMA DenominatorDivides ==
  /\ Denominator \in Nat /\ Denominator > 0
  /\ \A r \in 1..Deepest : \E k \in Nat : Denominator = k * (RrfK + r)
<1> DEFINE N == LexicalTop + DenseTop
           step == [n \in 1..N |-> [p \in Nat |-> p * (RrfK + n)]]
           Solves(h) == h = [n \in 0..N |-> IF n = 0 THEN 1 ELSE h[n - 1] * (RrfK + n)]
           f == CHOOSE h : Solves(h)
<1>1. N \in Nat /\ RrfK \in Nat /\ RrfK > 0 /\ Deepest \in 0..N
  BY RetrievalBounds DEF Deepest
<1>2. Denominator = f[Deepest]
  BY DEF Denominator, Deepest
<1> HIDE DEF N
<1>3. step \in [1..N -> [Nat -> Nat]]
  <2>1. \A n \in 1..N, p \in Nat : p * (RrfK + n) \in Nat
    BY <1>1
  <2> QED BY <2>1
<1>4. PICK h : Built(h, N, Nat, 1, step)
  <2> HIDE DEF step
  <2> QED BY <1>1, <1>3, StepsExist
<1>5. Solves(h)
  <2>1. h \in [0..N -> Nat] /\ h[0] = 1 /\ \A n \in 1..N : h[n] = step[n][h[n - 1]]
    BY <1>4 DEF Built
  <2>2. \A n \in 0..N : h[n] = IF n = 0 THEN 1 ELSE h[n - 1] * (RrfK + n)
    <3> TAKE n \in 0..N
    <3>1. CASE n = 0
      BY <2>1, <3>1
    <3>2. CASE n # 0
      <4>1. n \in 1..N /\ h[n - 1] \in Nat
        BY <1>1, <2>1, <3>2
      <4> QED BY <2>1, <3>2, <4>1
    <3> QED BY <3>1, <3>2
  <2> QED BY <2>1, <2>2
<1>6. Solves(f)
  <2> HIDE DEF Solves
  <2> QED BY <1>5
<1> HIDE DEF f
<1>7. f[0] = 1 /\ \A n \in 1..N : f[n] = f[n - 1] * (RrfK + n)
  BY <1>1, <1>6
<1> DEFINE G == {n \in 0..N : /\ f[n] \in Nat /\ f[n] > 0
                              /\ \A r \in 1..n : \E k \in Nat : f[n] = k * (RrfK + r)}
<1>8. G = 0..N
  <2>1. 0 \in G
    BY <1>1, <1>7
  <2>2. ASSUME NEW n \in 1..N, n - 1 \in G PROVE n \in G
    <3>1. /\ n \in 0..N /\ n \in Nat /\ f[n - 1] \in Nat /\ f[n - 1] > 0
          /\ f[n] = f[n - 1] * (RrfK + n)
          /\ \A r \in 1..(n - 1) : \E k \in Nat : f[n - 1] = k * (RrfK + r)
      BY <1>1, <1>7, <2>2
    <3>2. RrfK + n \in Nat /\ RrfK + n > 0
      BY <1>1, <3>1
    <3>3. \A p \in Nat, q \in Nat : p * q \in Nat /\ (p > 0 /\ q > 0 => p * q > 0)
      OBVIOUS
    <3>4. f[n] \in Nat /\ f[n] > 0
      BY <3>1, <3>2, <3>3
    <3>5. ASSUME NEW r \in 1..n PROVE \E k \in Nat : f[n] = k * (RrfK + r)
      <4>1. CASE r = n
        BY <3>1, <4>1
      <4>2. CASE r # n
        <5>1. r \in 1..(n - 1)
          BY <3>1, <4>2
        <5>2. PICK k \in Nat : f[n - 1] = k * (RrfK + r)
          BY <3>1, <5>1
        <5> DEFINE a == RrfK + n
                   b == RrfK + r
        <5>3. a \in Nat /\ b \in Nat /\ f[n] = (k * b) * a
          BY <1>1, <3>1, <3>2, <5>1, <5>2
        <5> HIDE DEF a, b
        <5>4. k * a \in Nat /\ (k * b) * a = (k * a) * b
          BY <5>3
        <5> QED BY <5>3, <5>4 DEF b
      <4> QED BY <4>1, <4>2
    <3> QED BY <3>1, <3>4, <3>5
  <2>3. G \in SUBSET (0..N)
    OBVIOUS
  <2> HIDE DEF G
  <2> QED BY <1>1, <2>1, <2>2, <2>3, StepByStep
<1> QED BY <1>1, <1>2, <1>8

\* Exact quotients of one number fall as the divisor grows.
LEMMA QuotientsFall ==
  ASSUME NEW d \in Nat, d > 0, NEW a \in Nat, NEW b \in Nat, 0 < a, a < b,
         NEW k \in Nat, d = k * a, NEW l \in Nat, d = l * b
  PROVE  d \div a = k /\ d \div b = l /\ k > l /\ l > 0
<1>1. \A n \in Nat, m \in Nat : m > 0 => (n * m) \div m = n
  OBVIOUS
<1>2. d \div a = k /\ d \div b = l
  BY <1>1
<1>3. l > 0
  OBVIOUS
<1>4. l * a < l * b
  BY <1>3
<1>5. k <= l => k * a <= l * a
  OBVIOUS
<1>6. ~(k <= l)
  BY <1>4, <1>5
<1> QED BY <1>2, <1>3, <1>6

\* A rank is a position, or None; shares of ranks are numbers.
LEMMA RanksTyped ==
  ASSUME NEW F, NEW q \in Seq(F), NEW c
  PROVE  /\ RankIn(q, c) \in Rank
         /\ Share(RankIn(q, c)) \in Int
<1>1. RankIn(q, c) \in Rank
  <2> DEFINE at == {i \in DOMAIN q : q[i] = c}
             r == CHOOSE i \in DOMAIN q : q[i] = c
  <2>1. CASE \E i \in DOMAIN q : q[i] = c
    <3>1. r \in DOMAIN q /\ RankIn(q, c) = r
      BY <2>1 DEF RankIn
    <3> HIDE DEF r
    <3> QED BY <3>1 DEF Rank
  <2>2. CASE ~ \E i \in DOMAIN q : q[i] = c
    BY <2>2 DEF RankIn, Rank
  <2> QED BY <2>1, <2>2
<1>2. ASSUME NEW r \in Nat PROVE Denominator \div (RrfK + r) \in Int
  <2>1. RrfK + r \in Nat /\ RrfK + r > 0
    BY RetrievalBounds
  <2> QED BY <2>1, DenominatorDivides
<1>3. \A r \in Rank : Share(r) \in Int
  BY <1>2 DEF Share, Rank
<1> QED BY <1>1, <1>3

\* There are no more pieces of evidence than chunks.
LEMMA EvidenceFinite ==
  ASSUME NEW S, NEW F \in SUBSET Chunk, S \subseteq Evidences(F), Apart(S)
  PROVE  IsFiniteSet(S)
<1> DEFINE id == [x \in S |-> x.id]
<1>1. \A x \in S : x.id \in Chunk
  BY DEF Evidences
<1>2. id \in Injection(S, Chunk)
  BY <1>1 DEF Apart, Injection, IsInjective
<1>3. IsFiniteSet(Chunk)
  BY RetrievalBounds
<1> QED BY <1>2, <1>3, FS_Injection

\* A part of the evidence is evidence.
LEMMA ApartParts == ASSUME NEW S, NEW T \in SUBSET S, Apart(S) PROVE Apart(T)
  BY DEF Apart

\* Scores and ids are numbers.
LEMMA ScoreTyped ==
  ASSUME NEW F \in SUBSET Chunk, NEW x \in Evidences(F)
  PROVE  Score(x) \in Int /\ x.rrf \in Int /\ x.id \in F /\ x.id \in Int
<1>1. x.id \in F /\ x.rrf \in Int /\ x.rerank \in Int \cup {None}
  BY DEF Evidences
<1>2. Chunk \subseteq Int
  BY RetrievalBounds
<1> QED BY <1>1, <1>2 DEF Score

\* Sorting by the score loses no evidence and repeats none.
LEMMA ScoreOrder ==
  ASSUME NEW F \in SUBSET Chunk, NEW S \in SUBSET Evidences(F), Apart(S)
  PROVE  /\ InScoreOrder(S) \in Seq(S) /\ ToSet(InScoreOrder(S)) = S
         /\ Once(InScoreOrder(S))
<1> DEFINE Before(x, y) == Smaller(<<-Score(x), -x.rrf, x.id>>, <<-Score(y), -y.rrf, y.id>>)
           low == [y \in S |-> {x \in S : Before(x, y)}]
           Less(x, y) == \/ -Score(x) < -Score(y)
                         \/ -Score(x) = -Score(y) /\ -x.rrf < -y.rrf
                         \/ -Score(x) = -Score(y) /\ -x.rrf = -y.rrf /\ x.id < y.id
<1>1. IsFiniteSet(S)
  BY EvidenceFinite
<1>2. \A x \in S : Score(x) \in Int /\ x.rrf \in Int /\ x.id \in Int
  BY ScoreTyped
<1>3. \A x, y \in S : x \in low[y] <=> Less(x, y)
  <2> TAKE x, y \in S
  <2>1. Before(x, y) <=> Less(x, y)
    <3> DEFINE a == -Score(x)
               b == -x.rrf
               c == x.id
               d == -Score(y)
               e == -y.rrf
               g == y.id
    <3>1. a \in Int /\ b \in Int /\ c \in Int /\ d \in Int /\ e \in Int /\ g \in Int
      BY <1>2
    <3> SUFFICES Smaller(<<a, b, c>>, <<d, e, g>>)
                   <=> a < d \/ (a = d /\ b < e) \/ (a = d /\ b = e /\ c < g)
      OBVIOUS
    <3> HIDE DEF a, b, c, d, e, g
    <3> QED BY <3>1, SmallerTriples
  <2> HIDE DEF Before, Less
  <2> QED BY <2>1
<1>4. low \in [S -> SUBSET S]
  OBVIOUS
<1>5. InScoreOrder(S) = Listed(S, [y \in S |-> 1 + Cardinality(low[y])])
  <2>1. \A y \in S : low[y] = {x \in S : Before(x, y)}
    OBVIOUS
  <2> HIDE DEF low
  <2> QED BY <2>1 DEF InScoreOrder, Ranked
<1> HIDE DEF low
<1>6. \A x, y \in S : x.id = y.id => x = y
  BY DEF Apart
<1>7. /\ \A x \in S : x \notin low[x]
      /\ \A x, y \in S : x = y \/ x \in low[y] \/ y \in low[x]
  BY <1>2, <1>3, <1>6
<1>8. \A x, y \in S : x \in low[y] => low[x] \subseteq low[y]
  <2> SUFFICES ASSUME NEW x \in S, NEW y \in S, x \in low[y], NEW z \in low[x]
               PROVE  z \in low[y]
    OBVIOUS
  <2>1. z \in S
    BY <1>4
  <2> QED BY <2>1, <1>2, <1>3
<1>9. InOrder(Listed(S, [y \in S |-> 1 + Cardinality(low[y])]), S, low)
  BY <1>1, <1>4, <1>7, <1>8, SortsCompletely
<1> DEFINE q == InScoreOrder(S)
<1>10. InOrder(q, S, low)
  BY <1>5, <1>9
<1>11. /\ q \in Seq(S) /\ ToSet(q) = S
       /\ \A i, j \in DOMAIN q : i < j => q[i] \in low[q[j]]
  <2> HIDE DEF q
  <2> QED BY <1>10 DEF InOrder
<1> HIDE DEF q
<1>12. Once(q)
  <2> SUFFICES ASSUME NEW i \in DOMAIN q, NEW j \in DOMAIN q, i < j PROVE q[i] # q[j]
    <3>1. DOMAIN q \subseteq Nat
      BY <1>11
    <3>2. ASSUME NEW i \in DOMAIN q, NEW j \in DOMAIN q, i # j PROVE i < j \/ j < i
      BY <3>1, <3>2
    <3> QED BY <3>2 DEF Once
  <2>1. q[j] \in S /\ q[i] \in low[q[j]]
    BY <1>11
  <2> QED BY <1>7, <2>1
<1> QED BY <1>11, <1>12 DEF q

\* What the fusion makes of a chunk that one of the searches found.
Hit(lexical, dense, c) ==
  [id |-> c, lexical |-> RankIn(lexical, c), dense |-> RankIn(dense, c),
   rrf |-> Share(RankIn(lexical, c)) + Share(RankIn(dense, c)), rerank |-> None]

\* The fusion ranks every hit of either search once, by its score and its id.
LEMMA FusedFrom ==
  ASSUME NEW F \in SUBSET Chunk, NEW lexical \in Seq(F), NEW dense \in Seq(F)
  PROVE  /\ EvidenceFrom(Fused(lexical, dense), F)
         /\ \A i \in DOMAIN Fused(lexical, dense) :
              \E c \in ToSet(lexical) \cup ToSet(dense) :
                Fused(lexical, dense)[i] = Hit(lexical, dense, c)
         /\ \A i, j \in DOMAIN Fused(lexical, dense) :
              i < j => LET x == Fused(lexical, dense)[i]
                           y == Fused(lexical, dense)[j]
                       IN  -x.rrf < -y.rrf \/ (-x.rrf = -y.rrf /\ x.id < y.id)
<1> DEFINE found == ToSet(lexical) \cup ToSet(dense)
           hits == {Hit(lexical, dense, c) : c \in found}
           low == [y \in hits |-> {x \in hits : Smaller(<<-x.rrf, x.id>>, <<-y.rrf, y.id>>)}]
           all == Listed(hits, [y \in hits |->
                    1 + Cardinality({x \in hits : Smaller(<<-x.rrf, x.id>>, <<-y.rrf, y.id>>)})])
<1>1. found \subseteq F
  <2>1. ToSet(lexical) \subseteq F /\ ToSet(dense) \subseteq F
    BY DEF ToSet
  <2> QED BY <2>1
<1>2. \A c \in found : Hit(lexical, dense, c) \in Evidences(F)
  <2> TAKE c \in found
  <2>1. /\ RankIn(lexical, c) \in Rank /\ RankIn(dense, c) \in Rank
        /\ Share(RankIn(lexical, c)) \in Int /\ Share(RankIn(dense, c)) \in Int
    BY RanksTyped
  <2> HIDE DEF found
  <2> QED BY <1>1, <2>1 DEF Evidences, Hit
<1>3. hits \in SUBSET Evidences(F) /\ Apart(hits)
  BY <1>2 DEF Apart, Hit
<1>4. IsFiniteSet(hits)
  BY <1>3, EvidenceFinite
<1> HIDE DEF hits
<1>5. \A x \in hits : x.rrf \in Int /\ x.id \in Int
  BY <1>3, ScoreTyped
<1>6. \A x, y \in hits : x \in low[y] <=> -x.rrf < -y.rrf \/ (-x.rrf = -y.rrf /\ x.id < y.id)
  <2> TAKE x, y \in hits
  <2>1. -x.rrf \in Int /\ -y.rrf \in Int /\ x.id \in Int /\ y.id \in Int
    BY <1>5
  <2> QED BY <2>1, SmallerPairs
<1>7. low \in [hits -> SUBSET hits]
  OBVIOUS
<1>8. all = Listed(hits, [y \in hits |-> 1 + Cardinality(low[y])])
  <2>1. \A y \in hits : low[y] = {x \in hits : Smaller(<<-x.rrf, x.id>>, <<-y.rrf, y.id>>)}
    OBVIOUS
  <2> HIDE DEF low
  <2> QED BY <2>1
<1> HIDE DEF low
<1>9. \A x, y \in hits : x.id = y.id => x = y
  BY <1>3 DEF Apart
<1>10. /\ \A x \in hits : x \notin low[x]
       /\ \A x, y \in hits : x = y \/ x \in low[y] \/ y \in low[x]
  BY <1>5, <1>6, <1>9
<1>11. \A x, y \in hits : x \in low[y] => low[x] \subseteq low[y]
  <2> SUFFICES ASSUME NEW x \in hits, NEW y \in hits, x \in low[y], NEW z \in low[x]
               PROVE  z \in low[y]
    OBVIOUS
  <2>1. z \in hits
    BY <1>7
  <2>2. /\ x.rrf \in Int /\ y.rrf \in Int /\ z.rrf \in Int
        /\ x.id \in Int /\ y.id \in Int /\ z.id \in Int
    BY <1>5, <2>1
  <2>3. /\ -x.rrf < -y.rrf \/ (-x.rrf = -y.rrf /\ x.id < y.id)
        /\ -z.rrf < -x.rrf \/ (-z.rrf = -x.rrf /\ z.id < x.id)
    BY <1>6, <2>1
  <2>4. -z.rrf < -y.rrf \/ (-z.rrf = -y.rrf /\ z.id < y.id)
    BY <2>2, <2>3
  <2> QED BY <1>6, <2>1, <2>4
<1>12. InOrder(Listed(hits, [y \in hits |-> 1 + Cardinality(low[y])]), hits, low)
  BY <1>4, <1>7, <1>10, <1>11, SortsCompletely
<1>13. all \in Seq(hits) /\ ToSet(all) = hits
  BY <1>8, <1>12 DEF InOrder
<1>14. Fused(lexical, dense) = Top(all, RerankInput)
  BY DEF Fused, Ranked, Hit, hits
<1>15. \A i, j \in DOMAIN all : i < j => all[i] \in low[all[j]]
  BY <1>8, <1>12 DEF InOrder
<1> HIDE DEF all
<1>16. RerankInput \in Nat
  BY RetrievalBounds
<1> DEFINE f == Top(all, RerankInput)
<1>17. /\ f \in Seq(hits) /\ ToSet(f) \subseteq hits
       /\ \A i \in DOMAIN f : i \in DOMAIN all /\ f[i] = all[i] /\ f[i] \in hits
  <2>1. /\ f \in Seq(hits) /\ ToSet(f) \subseteq hits
        /\ \A i \in DOMAIN f : i \in DOMAIN all /\ f[i] = all[i]
    BY <1>13, <1>16, TopOfList
  <2> HIDE DEF f
  <2> QED BY <2>1
<1> HIDE DEF f
<1>18. EvidenceFrom(f, F)
  <2>1. f \in Seq(Evidences(F))
    BY <1>3, <1>17
  <2> QED BY <1>3, <1>17, <2>1, ApartParts DEF EvidenceFrom
<1>19. \A i \in DOMAIN f : \E c \in found : f[i] = Hit(lexical, dense, c)
  BY <1>17 DEF hits
<1>20. \A i, j \in DOMAIN f :
         i < j => -f[i].rrf < -f[j].rrf \/ (-f[i].rrf = -f[j].rrf /\ f[i].id < f[j].id)
  BY <1>15, <1>6, <1>17
<1>21. Fused(lexical, dense) = f
  BY <1>14 DEF f
<1> QED BY <1>18, <1>19, <1>20, <1>21

\* A rank that is no worse.
NoWorse(r, s) == s = None \/ (r # None /\ r <= s)

\* A better rank has a greater share, and equal shares are of equal ranks.
LEMMA SharesFall ==
  ASSUME NEW r \in (1..Deepest) \cup {None}, NEW s \in (1..Deepest) \cup {None}, NoWorse(r, s)
  PROVE  /\ Share(r) \in Nat /\ Share(s) \in Nat /\ Share(s) <= Share(r)
         /\ Share(r) = Share(s) => r = s
<1>1. Deepest \in Nat /\ RrfK \in Nat /\ RrfK > 0 /\ None \notin Int /\ Share(None) = 0
  BY RetrievalBounds DEF Deepest, Share
<1>2. ASSUME NEW n \in 1..Deepest
      PROVE  /\ n # None /\ n \in Nat /\ RrfK + n \in Nat /\ 0 < RrfK + n
             /\ \E k \in Nat : Denominator = k * (RrfK + n)
             /\ Share(n) = Denominator \div (RrfK + n)
  <2>1. n # None /\ n \in Nat /\ RrfK + n \in Nat /\ 0 < RrfK + n
    BY <1>1
  <2>2. \E k \in Nat : Denominator = k * (RrfK + n)
    BY DenominatorDivides
  <2> QED BY <2>1, <2>2 DEF Share
<1>3. ASSUME NEW m \in 1..Deepest, NEW n \in 1..Deepest, m < n
      PROVE  Share(m) \in Nat /\ Share(n) \in Nat /\ Share(n) < Share(m)
  <2> DEFINE a == RrfK + m
             b == RrfK + n
  <2>1. /\ a \in Nat /\ 0 < a /\ b \in Nat /\ a < b
        /\ Share(m) = Denominator \div a /\ Share(n) = Denominator \div b
    BY <1>1, <1>2, <1>3
  <2>2. PICK k \in Nat : Denominator = k * a
    BY <1>2
  <2>3. PICK l \in Nat : Denominator = l * b
    BY <1>2
  <2> HIDE DEF a, b
  <2>4. Denominator \div a = k /\ Denominator \div b = l /\ k > l
    BY <2>1, <2>2, <2>3, DenominatorDivides, QuotientsFall
  <2> QED BY <2>1, <2>4
<1>4. ASSUME NEW n \in 1..Deepest PROVE Share(n) \in Nat /\ Share(n) > 0
  <2> DEFINE a == RrfK + n
  <2>1. PICK k \in Nat : Denominator = k * a
    BY <1>2
  <2>2. a \in Nat /\ 0 < a /\ Share(n) = Denominator \div a
    BY <1>2
  <2> HIDE DEF a
  <2>3. (k * a) \div a = k /\ (k = 0 => k * a = 0)
    BY <2>2
  <2> QED BY <2>1, <2>2, <2>3, DenominatorDivides
<1>5. CASE s = None
  BY <1>1, <1>2, <1>4, <1>5
<1>6. CASE s # None
  <2>1. r \in 1..Deepest /\ s \in 1..Deepest /\ r <= s
    BY <1>6 DEF NoWorse
  <2> QED BY <1>1, <1>3, <1>4, <2>1
<1> QED BY <1>5, <1>6

\* The rank of a chunk is a place where the list has it.
LEMMA RankPlace ==
  ASSUME NEW F, NEW q \in Seq(F), NEW n \in Nat, Len(q) <= n, NEW c
  PROVE  /\ RankIn(q, c) \in (1..n) \cup {None}
         /\ RankIn(q, c) # None => q[RankIn(q, c)] = c
         /\ RankIn(q, c) = None => c \notin ToSet(q)
<1> DEFINE r == CHOOSE i \in DOMAIN q : q[i] = c
<1>1. CASE \E i \in DOMAIN q : q[i] = c
  <2>1. r \in DOMAIN q /\ q[r] = c /\ RankIn(q, c) = r
    BY <1>1 DEF RankIn
  <2> HIDE DEF r
  <2>2. r \in 1..n /\ r # None
    BY <2>1, RetrievalBounds
  <2> QED BY <2>1, <2>2
<1>2. CASE ~ \E i \in DOMAIN q : q[i] = c
  BY <1>2 DEF RankIn, ToSet
<1> QED BY <1>1, <1>2

\* What precedes other evidence in both searches is not fused behind it.
LEMMA FusedInOrder ==
  ASSUME NEW F \in SUBSET Chunk, NEW lexical \in Seq(F), NEW dense \in Seq(F),
         Len(lexical) <= LexicalTop, Len(dense) <= DenseTop,
         NEW i \in DOMAIN Fused(lexical, dense), NEW j \in DOMAIN Fused(lexical, dense),
         NoWorse(Fused(lexical, dense)[i].lexical, Fused(lexical, dense)[j].lexical),
         NoWorse(Fused(lexical, dense)[i].dense, Fused(lexical, dense)[j].dense)
  PROVE  i <= j
<1> DEFINE f == Fused(lexical, dense)
<1>1. /\ \A n \in DOMAIN f : \E c \in ToSet(lexical) \cup ToSet(dense) :
           f[n] = Hit(lexical, dense, c)
      /\ \A m, n \in DOMAIN f :
           m < n => -f[m].rrf < -f[n].rrf \/ (-f[m].rrf = -f[n].rrf /\ f[m].id < f[n].id)
      /\ DOMAIN f \subseteq Nat
  <2>1. EvidenceFrom(f, F)
    BY FusedFrom
  <2>2. DOMAIN f \subseteq Nat
    <3> HIDE DEF f
    <3> QED BY <2>1 DEF EvidenceFrom
  <2> QED BY <2>2, FusedFrom
<1>2. NoWorse(f[i].lexical, f[j].lexical) /\ NoWorse(f[i].dense, f[j].dense)
      /\ i \in DOMAIN f /\ j \in DOMAIN f
  OBVIOUS
<1> HIDE DEF f
<1>3. PICK c \in ToSet(lexical) \cup ToSet(dense) : f[i] = Hit(lexical, dense, c)
  BY <1>1, <1>2
<1>4. PICK d \in ToSet(lexical) \cup ToSet(dense) : f[j] = Hit(lexical, dense, d)
  BY <1>1, <1>2
<1> DEFINE p == RankIn(lexical, c)
           r == RankIn(dense, c)
           s == RankIn(lexical, d)
           t == RankIn(dense, d)
<1>5. /\ f[i].id = c /\ f[i].lexical = p /\ f[i].dense = r /\ f[i].rrf = Share(p) + Share(r)
      /\ f[j].id = d /\ f[j].lexical = s /\ f[j].dense = t /\ f[j].rrf = Share(s) + Share(t)
  BY <1>3, <1>4 DEF Hit
<1>6. /\ LexicalTop \in Nat /\ DenseTop \in Nat /\ Deepest \in Nat
      /\ LexicalTop <= Deepest /\ DenseTop <= Deepest
  BY RetrievalBounds DEF Deepest
<1>7. /\ p \in (1..LexicalTop) \cup {None} /\ s \in (1..LexicalTop) \cup {None}
      /\ p # None => lexical[p] = c
      /\ s # None => lexical[s] = d
      /\ p = None => c \notin ToSet(lexical)
  BY <1>6, RankPlace
<1>8. /\ r \in (1..DenseTop) \cup {None} /\ t \in (1..DenseTop) \cup {None}
      /\ r # None => dense[r] = c
      /\ t # None => dense[t] = d
      /\ r = None => c \notin ToSet(dense)
  BY <1>6, RankPlace
<1>9. p # None \/ r # None
  BY <1>3, <1>7, <1>8
<1> HIDE DEF p, r, s, t
<1>10. p \in (1..Deepest) \cup {None} /\ s \in (1..Deepest) \cup {None}
       /\ r \in (1..Deepest) \cup {None} /\ t \in (1..Deepest) \cup {None}
  BY <1>6, <1>7, <1>8
<1>11. /\ Share(p) \in Nat /\ Share(s) \in Nat /\ Share(s) <= Share(p)
       /\ Share(p) = Share(s) => p = s
  BY <1>2, <1>5, <1>10, SharesFall
<1>12. /\ Share(r) \in Nat /\ Share(t) \in Nat /\ Share(t) <= Share(r)
       /\ Share(r) = Share(t) => r = t
  BY <1>2, <1>5, <1>10, SharesFall
<1> SUFFICES ASSUME j < i PROVE FALSE
  BY <1>1, <1>2
<1>13. -f[j].rrf < -f[i].rrf \/ (-f[j].rrf = -f[i].rrf /\ f[j].id < f[i].id)
  BY <1>1, <1>2
<1>14. Share(p) = Share(s) /\ Share(r) = Share(t) /\ d < c
  BY <1>5, <1>11, <1>12, <1>13
<1>15. c = d
  BY <1>7, <1>8, <1>9, <1>11, <1>12, <1>14
<1>16. c \in Int
  <2>1. c \in F
    <3>1. ToSet(lexical) \subseteq F /\ ToSet(dense) \subseteq F
      BY DEF ToSet
    <3> QED BY <1>3, <3>1
  <2>2. F \subseteq Chunk /\ Chunk \subseteq Int
    BY RetrievalBounds
  <2> QED BY <2>1, <2>2
<1>17. d < c /\ c = d
  BY <1>14, <1>15
<1> QED BY <1>16, <1>17

\* The first of a list of evidence are evidence.
LEMMA TopFrom ==
  ASSUME NEW F, NEW q, EvidenceFrom(q, F), NEW n \in Nat
  PROVE  EvidenceFrom(Top(q, n), F)
<1>1. Top(q, n) \in Seq(Evidences(F)) /\ ToSet(Top(q, n)) \subseteq ToSet(q)
  BY TopOfList DEF EvidenceFrom
<1> QED BY <1>1, ApartParts DEF EvidenceFrom

\* The elements of a list of evidence are evidence of different chunks.
LEMMA ListTyped ==
  ASSUME NEW F, NEW q, EvidenceFrom(q, F)
  PROVE  ToSet(q) \in SUBSET Evidences(F) /\ Apart(ToSet(q))
  BY DEF EvidenceFrom, ToSet

\* Evidence of different chunks stays that when it is sorted by score.
LEMMA SortedFrom ==
  ASSUME NEW F \in SUBSET Chunk, NEW S \in SUBSET Evidences(F), Apart(S)
  PROVE  EvidenceFrom(InScoreOrder(S), F)
<1>1. InScoreOrder(S) \in Seq(S) /\ ToSet(InScoreOrder(S)) = S
  BY ScoreOrder
<1>2. InScoreOrder(S) \in Seq(Evidences(F))
  BY <1>1
<1> QED BY <1>1, <1>2 DEF EvidenceFrom

\* The reranker gives scores and takes nothing.
LEMMA RerankedFrom ==
  ASSUME NEW F \in SUBSET Chunk, NEW q \in Queries, NEW fused, EvidenceFrom(fused, F)
  PROVE  EvidenceFrom(Reranked(Text[q], fused), F)
<1> DEFINE read == ToSet(Top(fused, RerankInput))
           scored == {[x EXCEPT !.rerank = Text[q].relevance[x.id]] : x \in read}
<1>1. RerankInput \in Nat /\ RerankOutput \in Nat
  BY RetrievalBounds
<1>2. read \in SUBSET Evidences(F) /\ Apart(read)
  BY <1>1, TopFrom, ListTyped
<1>3. \A x \in read :
        /\ [x EXCEPT !.rerank = Text[q].relevance[x.id]] \in Evidences(F)
        /\ [x EXCEPT !.rerank = Text[q].relevance[x.id]].id = x.id
  <2> TAKE x \in read
  <2>1. x \in Evidences(F) /\ x.id \in Chunk
    BY <1>2 DEF Evidences
  <2>2. Text[q].relevance[x.id] \in Int
    BY <2>1, QuestionsAssumption
  <2> HIDE DEF read
  <2> QED BY <2>1, <2>2 DEF Evidences
<1> HIDE DEF read
<1>4. scored \in SUBSET Evidences(F)
  BY <1>3
<1>5. Apart(scored)
  <2> SUFFICES ASSUME NEW y \in scored, NEW z \in scored, y.id = z.id PROVE y = z
    BY DEF Apart
  <2>1. PICK v \in read : y = [v EXCEPT !.rerank = Text[q].relevance[v.id]]
    OBVIOUS
  <2>2. PICK w \in read : z = [w EXCEPT !.rerank = Text[q].relevance[w.id]]
    OBVIOUS
  <2>3. v.id = w.id
    BY <1>3, <2>1, <2>2
  <2> QED BY <1>2, <2>1, <2>2, <2>3 DEF Apart
<1> HIDE DEF scored
<1>6. EvidenceFrom(InScoreOrder(scored), F)
  BY <1>4, <1>5, SortedFrom
<1>7. Reranked(Text[q], fused) = Top(InScoreOrder(scored), RerankOutput)
  BY DEF Reranked, scored, read
<1> QED BY <1>1, <1>6, <1>7, TopFrom

\* Definitions first is another order of the same evidence.
LEMMA DefinitionsFrom ==
  ASSUME NEW F \in SUBSET Chunk, NEW q, NEW seq, EvidenceFrom(seq, F)
  PROVE  EvidenceFrom(DefinitionFirst(q, seq), F)
<1> DEFINE S == DOMAIN seq
           LexicalRank(x) == IF x.lexical = None THEN 1000000000 ELSE x.lexical
           Place(i) == <<LexicalRank(seq[i]), -Score(seq[i]), i>>
           low == [n \in S |-> {m \in S : Smaller(Place(m), Place(n))}]
           order == Listed(S, [n \in S |->
                      1 + Cardinality({m \in S : Smaller(Place(m), Place(n))})])
           sorted == [i \in S |-> seq[order[i]]]
           a == [i \in S |-> LexicalRank(seq[i])]
           b == [i \in S |-> -Score(seq[i])]
<1>1. seq \in Seq(Evidences(F)) /\ S = 1..Len(seq) /\ Len(seq) \in Nat
  BY DEF EvidenceFrom
<1>2. IsFiniteSet(S) /\ Cardinality(S) = Len(seq)
  BY <1>1, FS_Interval
<1>3. \A i \in S : i \in Int /\ a[i] \in Int /\ b[i] \in Int
  <2> TAKE i \in S
  <2>1. seq[i] \in Evidences(F)
    BY <1>1
  <2>2. seq[i].lexical \in Rank /\ Score(seq[i]) \in Int
    BY <2>1, ScoreTyped DEF Evidences
  <2>3. -Score(seq[i]) \in Int /\ LexicalRank(seq[i]) \in Int
    BY <2>2 DEF Rank
  <2> QED BY <1>1, <2>3
<1>4. \A m, n \in S : m \in low[n] <=> \/ a[m] < a[n]
                                       \/ a[m] = a[n] /\ b[m] < b[n]
                                       \/ a[m] = a[n] /\ b[m] = b[n] /\ m < n
  <2> TAKE m, n \in S
  <2>1. Place(m) = <<a[m], b[m], m>> /\ Place(n) = <<a[n], b[n], n>>
    OBVIOUS
  <2>2. m \in low[n] <=> Smaller(Place(m), Place(n))
    OBVIOUS
  <2> HIDE DEF a, b, Place, low
  <2>3. Smaller(<<a[m], b[m], m>>, <<a[n], b[n], n>>)
          <=> \/ a[m] < a[n]
              \/ a[m] = a[n] /\ b[m] < b[n]
              \/ a[m] = a[n] /\ b[m] = b[n] /\ m < n
    <3> DEFINE am == a[m]
               bm == b[m]
               an == a[n]
               bn == b[n]
    <3>1. am \in Int /\ bm \in Int /\ an \in Int /\ bn \in Int /\ m \in Int /\ n \in Int
      BY <1>3
    <3> SUFFICES Smaller(<<am, bm, m>>, <<an, bn, n>>)
                   <=> am < an \/ (am = an /\ bm < bn) \/ (am = an /\ bm = bn /\ m < n)
      OBVIOUS
    <3> HIDE DEF am, bm, an, bn
    <3> QED BY <3>1, SmallerTriples
  <2> QED BY <2>1, <2>2, <2>3
<1>5. low \in [S -> SUBSET S]
  OBVIOUS
<1>6. order = Listed(S, [n \in S |-> 1 + Cardinality(low[n])])
  <2>1. \A n \in S : low[n] = {m \in S : Smaller(Place(m), Place(n))}
    OBVIOUS
  <2> HIDE DEF low, Place
  <2> QED BY <2>1
<1> HIDE DEF low, a, b
<1>7. /\ \A n \in S : n \notin low[n]
      /\ \A m, n \in S : m = n \/ m \in low[n] \/ n \in low[m]
  BY <1>3, <1>4
<1>8. \A m, n \in S : m \in low[n] => low[m] \subseteq low[n]
  <2> SUFFICES ASSUME NEW m \in S, NEW n \in S, m \in low[n], NEW k \in low[m]
               PROVE  k \in low[n]
    OBVIOUS
  <2>1. k \in S
    BY <1>5
  <2> QED BY <2>1, <1>3, <1>4
<1>9. InOrder(Listed(S, [n \in S |-> 1 + Cardinality(low[n])]), S, low)
  <2> HIDE DEF S
  <2> QED BY <1>2, <1>5, <1>7, <1>8, SortsCompletely
<1>10. order \in Seq(S)
  BY <1>6, <1>9 DEF InOrder
<1>11. DOMAIN order = S
  BY <1>1, <1>2, <1>6 DEF Listed
<1> HIDE DEF order
<1>12. \A i \in S : order[i] \in S
  BY <1>10, <1>11
<1>13. sorted \in Seq(Evidences(F)) /\ ToSet(sorted) \subseteq ToSet(seq)
  <2>1. \A i \in S : sorted[i] \in Evidences(F) /\ sorted[i] \in ToSet(seq)
    BY <1>1, <1>12 DEF ToSet
  <2>2. sorted = [i \in 1..Len(seq) |-> sorted[i]]
    BY <1>1
  <2> HIDE DEF sorted
  <2>3. sorted \in Seq(Evidences(F)) /\ DOMAIN sorted = S
    BY <1>1, <2>1, <2>2
  <2> QED BY <2>1, <2>3 DEF ToSet
<1>14. EvidenceFrom(sorted, F)
  <2> HIDE DEF sorted
  <2> QED BY <1>13, ApartParts DEF EvidenceFrom
<1>15. DefinitionFirst(q, seq) = IF ~q.definition THEN seq ELSE sorted
  BY DEF DefinitionFirst, Ranked, order
<1> QED BY <1>14, <1>15

\* No two pieces of evidence are translations of one text.
Spread(S) ==
  \A x, y \in S : x # y => Row[x.id].group = None \/ Row[x.id].group # Row[y.id].group

\* Sorting by score what is left of a list of evidence.
LEMMA RestSorted ==
  ASSUME NEW F \in SUBSET Chunk, NEW seq, EvidenceFrom(seq, F), NEW T \in SUBSET ToSet(seq)
  PROVE  /\ EvidenceFrom(InScoreOrder(T), F)
         /\ Once(InScoreOrder(T)) /\ ToSet(InScoreOrder(T)) = T
<1>1. T \in SUBSET Evidences(F) /\ Apart(T)
  BY ListTyped, ApartParts
<1> QED BY <1>1, SortedFrom, ScoreOrder

\* Of two translations one is preferred, so that no text speaks in two.
LEMMA DeduplicatedFrom ==
  ASSUME NEW F \in SUBSET Chunk, NEW seq, EvidenceFrom(seq, F)
  PROVE  /\ EvidenceFrom(Deduplicated(seq), F)
         /\ Once(Deduplicated(seq)) /\ Spread(ToSet(Deduplicated(seq)))
<1> DEFINE native(i) == IF Row[seq[i].id].native THEN 1 ELSE 0
           Preference(i) == <<native(i), Score(seq[i])>>
           group(i) == Row[seq[i].id].group
           Beats(i, j) == /\ group(i) = group(j)
                          /\ \/ Smaller(Preference(j), Preference(i))
                             \/ Preference(i) = Preference(j) /\ i < j
           T == {seq[j] : j \in {n \in DOMAIN seq :
                   group(n) = None \/ \A i \in DOMAIN seq : ~Beats(i, n)}}
<1>1. Deduplicated(seq) = InScoreOrder(T)
  BY DEF Deduplicated
<1>2. T \in SUBSET ToSet(seq)
  BY DEF ToSet
<1>3. \A i \in DOMAIN seq : native(i) \in Int /\ Score(seq[i]) \in Int /\ i \in Int
  <2> TAKE i \in DOMAIN seq
  <2>1. seq[i] \in Evidences(F) /\ i \in Int
    BY DEF EvidenceFrom
  <2> QED BY <2>1, ScoreTyped
<1>4. ASSUME NEW i \in DOMAIN seq, NEW j \in DOMAIN seq, i # j, group(i) = group(j)
      PROVE  Beats(i, j) \/ Beats(j, i)
  <2>1. /\ Smaller(Preference(i), Preference(j))
             <=> \/ native(i) < native(j)
                 \/ native(i) = native(j) /\ Score(seq[i]) < Score(seq[j])
        /\ Smaller(Preference(j), Preference(i))
             <=> \/ native(j) < native(i)
                 \/ native(j) = native(i) /\ Score(seq[j]) < Score(seq[i])
    BY <1>3, SmallerPairs
  <2>2. Preference(i) = Preference(j)
             <=> native(i) = native(j) /\ Score(seq[i]) = Score(seq[j])
    OBVIOUS
  <2> HIDE DEF Preference, native
  <2>3. \/ Smaller(Preference(i), Preference(j)) \/ Smaller(Preference(j), Preference(i))
        \/ Preference(i) = Preference(j)
    BY <1>3, <2>1, <2>2
  <2>4. i < j \/ j < i
    BY <1>3, <1>4
  <2>5. Preference(i) = Preference(j) => Preference(j) = Preference(i)
    OBVIOUS
  <2> HIDE DEF group
  <2> QED BY <1>4, <2>3, <2>4, <2>5
<1>5. Spread(T)
  <2> SUFFICES ASSUME NEW x \in T, NEW y \in T, x # y,
                      Row[x.id].group # None, Row[x.id].group = Row[y.id].group
               PROVE  FALSE
    BY DEF Spread
  <2>1. PICK i \in DOMAIN seq : /\ x = seq[i]
                                /\ group(i) = None \/ \A n \in DOMAIN seq : ~Beats(n, i)
    OBVIOUS
  <2>2. PICK j \in DOMAIN seq : /\ y = seq[j]
                                /\ group(j) = None \/ \A n \in DOMAIN seq : ~Beats(n, j)
    OBVIOUS
  <2>3. i # j /\ group(i) = group(j) /\ group(i) # None
    BY <2>1, <2>2
  <2> HIDE DEF Beats, group
  <2> QED BY <1>4, <2>1, <2>2, <2>3
<1> HIDE DEF T
<1>6. /\ EvidenceFrom(InScoreOrder(T), F)
      /\ Once(InScoreOrder(T)) /\ ToSet(InScoreOrder(T)) = T
  BY <1>2, RestSorted
<1> QED BY <1>1, <1>5, <1>6

\* Nor does the choice by the score add or repeat anything.
LEMMA WellScoredFrom ==
  ASSUME NEW F \in SUBSET Chunk, NEW seq, EvidenceFrom(seq, F), Once(seq), Spread(ToSet(seq))
  PROVE  /\ EvidenceFrom(WellScored(seq), F)
         /\ Once(WellScored(seq)) /\ Spread(ToSet(WellScored(seq)))
<1> DEFINE T == {x \in ToSet(seq) : x.rerank # None /\ x.rerank >= MinScore}
<1>1. WellScored(seq) = IF MinScore = None THEN seq ELSE InScoreOrder(T)
  BY DEF WellScored
<1>2. T \in SUBSET ToSet(seq)
  OBVIOUS
<1> HIDE DEF T
<1>3. /\ EvidenceFrom(InScoreOrder(T), F)
      /\ Once(InScoreOrder(T)) /\ ToSet(InScoreOrder(T)) = T
  BY <1>2, RestSorted
<1>4. Spread(T)
  BY <1>2 DEF Spread
<1> QED BY <1>1, <1>3, <1>4

\* Every candidate is one of the hits, and none is there twice.
LEMMA CandidatesFrom ==
  ASSUME NEW F \in SUBSET Chunk, NEW lexical \in Seq(F), NEW dense \in Seq(F),
         NEW q \in Queries, NEW lexicalOnly
  PROVE  LET e == Candidates(Text[q], lexicalOnly, lexical, dense)
         IN  EvidenceFrom(e, F) /\ Once(e) /\ Spread(ToSet(e))
<1> DEFINE fused == Fused(lexical, dense)
           best == IF lexicalOnly THEN Top(fused, RerankOutput) ELSE Reranked(Text[q], fused)
           first == DefinitionFirst(Text[q], best)
           e == Deduplicated(first)
<1>1. EvidenceFrom(fused, F)
  BY FusedFrom
<1>2. RerankOutput \in Nat
  BY RetrievalBounds
<1> HIDE DEF fused
<1>3. EvidenceFrom(best, F)
  BY <1>1, <1>2, TopFrom, RerankedFrom
<1>4. Candidates(Text[q], lexicalOnly, lexical, dense) = WellScored(e)
  BY DEF Candidates, fused
<1> HIDE DEF best
<1>5. EvidenceFrom(first, F)
  BY <1>3, DefinitionsFrom
<1> HIDE DEF first
<1>6. EvidenceFrom(e, F) /\ Once(e) /\ Spread(ToSet(e))
  BY <1>5, DeduplicatedFrom
<1> HIDE DEF e
<1> QED BY <1>4, <1>6, WellScoredFrom

\* An entry of the context: a parent that was read, and the hit that brought
\* it; the source is one of the two.
Entries(F, parents) ==
  {e \in [chunk : parents \cup F, parent : parents, child : F] :
     e.chunk \in {e.parent, e.child} /\ Row[e.child].parent = e.parent}

\* One candidate more, taken or left.
LEMMA TakenFrom ==
  ASSUME NEW F, NEW parents, NEW context \in Seq(Entries(F, parents)),
         NEW x \in Evidences(F)
  PROVE  Taken(context, x, parents) \in Seq(Entries(F, parents))
<1> DEFINE parent == Row[x.id].parent
           room == MaxTokens - TokensOf(context)
           e == [chunk |-> Brings(x, room), parent |-> parent, child |-> x.id]
<1>1. x.id \in F
  BY DEF Evidences
<1>2. Brings(x, room) \in {parent, x.id}
  BY DEF Brings
<1>3. parent \in parents => e \in Entries(F, parents)
  <2> HIDE DEF room
  <2> QED BY <1>1, <1>2 DEF Entries
<1>4. \/ Taken(context, x, parents) = context
      \/ parent \in parents /\ Taken(context, x, parents) = Append(context, e)
  BY Zenon DEF Taken
<1> HIDE DEF e, parent
<1> QED BY <1>3, <1>4

\* The whole context, built step by step from the candidates.
LEMMA ContextFrom ==
  ASSUME NEW F, NEW parents, NEW candidates \in Seq(Evidences(F))
  PROVE  \E f : /\ BuildContext(candidates, parents) = f[Len(candidates)]
                /\ f[0] = <<>>
                /\ \A n \in 1..Len(candidates) :
                     f[n] = Taken(f[n - 1], candidates[n], parents)
                /\ BuildContext(candidates, parents) \in Seq(Entries(F, parents))
<1> DEFINE N == Len(candidates)
           V == Seq(Entries(F, parents))
           step == [n \in 1..N |-> [v \in V |-> Taken(v, candidates[n], parents)]]
           Solves(h) == h = [n \in 0..N |-> IF n = 0 THEN <<>>
                                            ELSE Taken(h[n - 1], candidates[n], parents)]
           f == CHOOSE h : Solves(h)
<1>1. N \in Nat /\ <<>> \in V /\ \A n \in 1..N : candidates[n] \in Evidences(F)
  OBVIOUS
<1>2. \A n \in 1..N, v \in V : Taken(v, candidates[n], parents) \in V
  <2> HIDE DEF N
  <2> QED BY <1>1, TakenFrom
<1>3. BuildContext(candidates, parents) = f[N]
  BY DEF BuildContext
<1> HIDE DEF N, V
<1>4. step \in [1..N -> [V -> V]]
  BY <1>2
<1>5. PICK h : Built(h, N, V, <<>>, step)
  <2> HIDE DEF step
  <2> QED BY <1>1, <1>4, StepsExist
<1>6. Solves(h)
  <2>1. h \in [0..N -> V] /\ h[0] = <<>> /\ \A n \in 1..N : h[n] = step[n][h[n - 1]]
    BY <1>5 DEF Built
  <2>2. \A n \in 0..N : h[n] = IF n = 0 THEN <<>> ELSE Taken(h[n - 1], candidates[n], parents)
    <3> TAKE n \in 0..N
    <3>1. CASE n = 0
      BY <2>1, <3>1
    <3>2. CASE n # 0
      <4>1. n \in 1..N /\ h[n - 1] \in V
        BY <1>1, <2>1, <3>2
      <4> QED BY <2>1, <3>2, <4>1
    <3> QED BY <3>1, <3>2
  <2> QED BY <2>1, <2>2
<1>7. Solves(f)
  <2> HIDE DEF Solves
  <2> QED BY <1>6
<1> HIDE DEF f
<1>8. f[0] = <<>> /\ \A n \in 1..N : f[n] = Taken(f[n - 1], candidates[n], parents)
  BY <1>1, <1>7
<1> DEFINE G == {n \in 0..N : f[n] \in V}
<1>9. G = 0..N
  <2>1. 0 \in G /\ \A n \in 1..N : n - 1 \in G => n \in G
    BY <1>1, <1>2, <1>8
  <2>2. G \in SUBSET (0..N)
    OBVIOUS
  <2> HIDE DEF G
  <2> QED BY <1>1, <2>1, <2>2, StepByStep
<1> QED BY <1>1, <1>3, <1>8, <1>9 DEF N, V

\* The sum of the lengths, entry by entry.
Sums(h, context) ==
  /\ h \in [0..Len(context) -> Nat] /\ h[0] = 0
  /\ \A n \in 1..Len(context) : h[n] = h[n - 1] + Row[context[n].chunk].tokens

\* TokensOf is that sum.
LEMMA TokensSum ==
  ASSUME NEW E, \A e \in E : e.chunk \in Chunk, NEW context \in Seq(E)
  PROVE  \E h : Sums(h, context) /\ TokensOf(context) = h[Len(context)]
<1> DEFINE N == Len(context)
           tokens(n) == Row[context[n].chunk].tokens
           step == [n \in 1..N |-> [v \in Nat |-> v + tokens(n)]]
           Solves(h) == h = [n \in 0..N |-> IF n = 0 THEN 0 ELSE h[n - 1] + tokens(n)]
           f == CHOOSE h : Solves(h)
<1>1. N \in Nat /\ \A n \in 1..N : tokens(n) \in Nat
  <2>1. \A n \in 1..N : context[n].chunk \in Chunk
    OBVIOUS
  <2>2. \A c \in Chunk : Row[c].tokens \in Nat
    BY RetrievalBounds
  <2> QED BY <2>1, <2>2
<1>2. TokensOf(context) = f[N]
  BY DEF TokensOf
<1>3. step \in [1..N -> [Nat -> Nat]]
  BY <1>1
<1> HIDE DEF N, tokens
<1>4. PICK h : Built(h, N, Nat, 0, step)
  <2> HIDE DEF step
  <2> QED BY <1>1, <1>3, StepsExist
<1>5. h \in [0..N -> Nat] /\ h[0] = 0 /\ \A n \in 1..N : h[n] = h[n - 1] + tokens(n)
  <2>1. h \in [0..N -> Nat] /\ h[0] = 0 /\ \A n \in 1..N : h[n] = step[n][h[n - 1]]
    BY <1>4 DEF Built
  <2> SUFFICES ASSUME NEW n \in 1..N PROVE h[n] = h[n - 1] + tokens(n)
    BY <2>1
  <2>2. n - 1 \in 0..N
    BY <1>1
  <2>3. h[n - 1] \in Nat
    BY <2>1, <2>2
  <2> QED BY <2>1, <2>3
<1>6. Solves(h)
  <2>1. \A n \in 0..N : h[n] = IF n = 0 THEN 0 ELSE h[n - 1] + tokens(n)
    BY <1>1, <1>5
  <2> QED BY <1>5, <2>1
<1>7. Solves(f)
  <2> HIDE DEF Solves
  <2> QED BY <1>6
<1> HIDE DEF f
<1>8. f[0] = 0 /\ \A n \in 1..N : f[n] = f[n - 1] + tokens(n)
  BY <1>1, <1>7
<1> DEFINE G == {n \in 0..N : f[n] = h[n]}
<1>9. G = 0..N
  <2>1. 0 \in G /\ \A n \in 1..N : n - 1 \in G => n \in G
    BY <1>1, <1>5, <1>8
  <2>2. G \in SUBSET (0..N)
    OBVIOUS
  <2> HIDE DEF G
  <2> QED BY <1>1, <2>1, <2>2, StepByStep
<1>10. f[N] = h[N]
  BY <1>1, <1>9
<1> QED BY <1>2, <1>5, <1>10 DEF Sums, N, tokens

\* The length of a context is a number.
LEMMA TokensTyped ==
  ASSUME NEW E, \A e \in E : e.chunk \in Chunk, NEW context \in Seq(E)
  PROVE  /\ TokensOf(context) \in Nat
         /\ Len(context) = 0 => TokensOf(context) = 0
<1>1. PICK h : Sums(h, context) /\ TokensOf(context) = h[Len(context)]
  BY TokensSum
<1>2. h \in [0..Len(context) -> Nat] /\ h[0] = 0 /\ Len(context) \in 0..Len(context)
  BY <1>1 DEF Sums
<1> QED BY <1>1, <1>2

\* An entry adds its own.
LEMMA TokensAdded ==
  ASSUME NEW E, \A e \in E : e.chunk \in Chunk, NEW context \in Seq(E), NEW e \in E
  PROVE  /\ TokensOf(context) \in Nat
         /\ TokensOf(Append(context, e)) = TokensOf(context) + Row[e.chunk].tokens
<1> DEFINE N == Len(context)
           longer == Append(context, e)
<1>1. /\ N \in Nat /\ longer \in Seq(E) /\ Len(longer) = N + 1
      /\ longer[N + 1] = e /\ \A n \in 1..N : longer[n] = context[n]
  OBVIOUS
<1>2. PICK h : Sums(h, context) /\ TokensOf(context) = h[N]
  BY TokensSum
<1> HIDE DEF longer
<1>3. PICK g : Sums(g, longer) /\ TokensOf(longer) = g[N + 1]
  BY <1>1, TokensSum
<1>4. /\ h \in [0..N -> Nat] /\ h[0] = 0
      /\ \A n \in 1..N : h[n] = h[n - 1] + Row[context[n].chunk].tokens
  BY <1>2 DEF Sums
<1>5. /\ g[0] = 0
      /\ \A n \in 1..(N + 1) : g[n] = g[n - 1] + Row[longer[n].chunk].tokens
  BY <1>1, <1>3 DEF Sums
<1> HIDE DEF N
<1> DEFINE G == {n \in 0..N : g[n] = h[n]}
<1>6. G = 0..N
  <2>1. 0 \in G
    BY <1>1, <1>4, <1>5
  <2>2. ASSUME NEW n \in 1..N, n - 1 \in G PROVE n \in G
    <3>1. n \in 1..(N + 1) /\ n \in 0..N /\ longer[n] = context[n] /\ g[n - 1] = h[n - 1]
      BY <1>1, <2>2
    <3> QED BY <1>4, <1>5, <3>1
  <2>3. G \in SUBSET (0..N)
    OBVIOUS
  <2> HIDE DEF G
  <2> QED BY <1>1, <2>1, <2>2, <2>3, StepByStep
<1>7. g[N] = h[N] /\ h[N] \in Nat
  <2>1. N \in 0..N
    BY <1>1
  <2>2. N \in G
    <3> HIDE DEF G
    <3> QED BY <1>6, <2>1
  <2> QED BY <1>4, <2>1, <2>2
<1>8. g[N + 1] = g[N] + Row[e.chunk].tokens
  <2>1. N + 1 \in 1..(N + 1) /\ (N + 1) - 1 = N
    BY <1>1
  <2> QED BY <1>1, <1>5, <2>1
<1> QED BY <1>2, <1>3, <1>7, <1>8 DEF longer
\* The place n of the context at which candidate i was refused: what stands
\* there came from candidates before i, and i would not fit behind it.
RefusedAt(e, i, context, n) ==
  LET room == MaxTokens - TokensOf(SubSeq(context, 1, n))
  IN /\ \A k \in DOMAIN context : k <= n <=> \E j \in 1..(i - 1) : e[j].id = context[k].child
     /\ \/ n = MaxChunks
        \/ Row[Row[e[i].id].parent].tokens > room /\ Row[e[i].id].tokens > room

Covered(e, i, context, parents) ==
  \/ Row[e[i].id].parent \notin parents
  \/ \E x \in ToSet(context) : x.parent = Row[e[i].id].parent
  \/ \E n \in 0..Len(context) : RefusedAt(e, i, context, n)

\* The context after the first n candidates.
BuiltFrom(e, n, context, F, parents) ==
  /\ context \in Seq(Entries(F, parents))
  /\ Len(context) <= MaxChunks /\ TokensOf(context) <= MaxTokens
  /\ \A i, j \in DOMAIN context : context[i].parent = context[j].parent => i = j
  /\ \A k \in DOMAIN context : \E j \in 1..n : e[j].id = context[k].child
  /\ \A i \in 1..n : Covered(e, i, context, parents)

\* What a place of the context says of a candidate stays when more is added.
LEMMA CoveredKept ==
  ASSUME NEW F, NEW parents, NEW context \in Seq(Entries(F, parents)),
         NEW x \in Entries(F, parents), NEW e, NEW m \in Nat, NEW i \in 1..m,
         \A j \in 1..m : e[j].id # x.child,
         Covered(e, i, context, parents)
  PROVE  Covered(e, i, Append(context, x), parents)
<1> DEFINE N == Len(context)
           longer == Append(context, x)
<1>1. /\ N \in Nat /\ Len(longer) = N + 1 /\ DOMAIN longer = 1..(N + 1) /\ DOMAIN context = 1..N
      /\ longer[N + 1] = x /\ \A k \in 1..N : longer[k] = context[k]
  OBVIOUS
<1>2. ToSet(context) \subseteq ToSet(longer)
  <2> HIDE DEF longer
  <2> QED BY <1>1 DEF ToSet
<1>3. ASSUME NEW n \in 0..N, RefusedAt(e, i, context, n)
      PROVE  n \in 0..(N + 1) /\ RefusedAt(e, i, longer, n)
  <2>1. SubSeq(longer, 1, n) = SubSeq(context, 1, n)
    <3>1. n \in Nat /\ \A k \in 1..n : longer[k] = context[k]
      BY <1>1
    <3> HIDE DEF longer
    <3> QED BY <3>1
  <2> HIDE DEF longer, N
  <2>2. ASSUME NEW k \in DOMAIN longer
        PROVE  k <= n <=> \E j \in 1..(i - 1) : e[j].id = longer[k].child
    <3>1. CASE k \in 1..N
      BY <1>1, <1>3, <3>1 DEF RefusedAt
    <3>2. CASE k = N + 1
      <4>1. ~(k <= n)
        BY <1>1, <3>2
      <4>2. \A j \in 1..(i - 1) : j \in 1..m
        OBVIOUS
      <4> QED BY <1>1, <3>2, <4>1, <4>2
    <3> QED BY <1>1, <3>1, <3>2
  <2>3. n \in 0..(N + 1)
    BY <1>1
  <2> QED BY <1>3, <2>1, <2>2, <2>3 DEF RefusedAt
<1> HIDE DEF longer, N
<1>4. CASE Row[e[i].id].parent \notin parents
  BY <1>4 DEF Covered
<1>5. CASE \E y \in ToSet(context) : y.parent = Row[e[i].id].parent
  BY <1>2, <1>5 DEF Covered, longer
<1>6. CASE \E n \in 0..N : RefusedAt(e, i, context, n)
  <2>1. \E n \in 0..(N + 1) : RefusedAt(e, i, longer, n)
    BY <1>3, <1>6
  <2> QED BY <1>1, <2>1 DEF Covered, longer
<1> QED BY <1>4, <1>5, <1>6 DEF Covered, N

\* One candidate more is taken, or left out for a reason.
LEMMA BuiltOn ==
  ASSUME NEW F \in SUBSET Chunk, NEW parents \in SUBSET Chunk, NEW e \in Seq(Evidences(F)),
         \A i, j \in DOMAIN e : e[i].id = e[j].id => i = j,
         NEW n \in 1..Len(e), NEW context, BuiltFrom(e, n - 1, context, F, parents)
  PROVE  BuiltFrom(e, n, Taken(context, e[n], parents), F, parents)
<1> DEFINE N == Len(context)
           x == e[n]
           parent == Row[x.id].parent
           room == MaxTokens - TokensOf(context)
           brought == Brings(x, room)
           entry == [chunk |-> brought, parent |-> parent, child |-> x.id]
           longer == Append(context, entry)
           E == Entries(F, parents)
<1> SUFFICES BuiltFrom(e, n, Taken(context, x, parents), F, parents)
  OBVIOUS
<1>1. /\ context \in Seq(E) /\ N <= MaxChunks /\ TokensOf(context) <= MaxTokens
      /\ \A i, j \in DOMAIN context : context[i].parent = context[j].parent => i = j
      /\ \A k \in DOMAIN context : \E j \in 1..(n - 1) : e[j].id = context[k].child
      /\ \A i \in 1..(n - 1) : Covered(e, i, context, parents)
  BY DEF BuiltFrom
<1>2. /\ n \in DOMAIN e /\ n \in Nat /\ n - 1 \in Nat /\ 1..(n - 1) \subseteq 1..n
      /\ 1..n \subseteq DOMAIN e /\ \A i \in 1..n : i \in 1..(n - 1) \/ i = n
      /\ n \notin 1..(n - 1)
  OBVIOUS
<1>3. x \in Evidences(F) /\ x.id \in F /\ x.id \in Chunk
  <2>1. x \in Evidences(F)
    OBVIOUS
  <2> QED BY <2>1 DEF Evidences
<1>4. \A y \in E : y.chunk \in Chunk
  <2>1. F \subseteq Chunk /\ parents \subseteq Chunk
    OBVIOUS
  <2> QED BY <2>1 DEF Entries
<1>5. N \in Nat /\ DOMAIN context = 1..N /\ MaxChunks \in Nat /\ MaxTokens \in Nat
  BY <1>1, RetrievalBounds
<1>6. \A c \in Chunk : Row[c].tokens \in Nat
  BY RetrievalBounds
<1>7. TokensOf(context) \in Nat
  <2> HIDE DEF E
  <2> QED BY <1>1, <1>4, TokensTyped
<1>8. Brings(x, room) = IF Row[parent].tokens <= room THEN parent ELSE x.id
  BY DEF Brings
<1>9. Row[x.id].parent = parent /\ ToSet(context) = {context[k] : k \in DOMAIN context}
  BY DEF ToSet
<1> DEFINE refused == \/ N = MaxChunks
                      \/ parent \notin parents
                      \/ \E y \in ToSet(context) : y.parent = parent
                      \/ Row[brought].tokens > room
<1>10. Taken(context, x, parents) = IF refused THEN context ELSE longer
  BY DEF Taken
<1>11. CASE refused
  <2>1. Taken(context, x, parents) = context
    BY <1>10, <1>11
  <2> HIDE DEF longer, entry
  <2>2. Covered(e, n, context, parents)
    <3>1. CASE parent \notin parents
      BY <3>1 DEF Covered
    <3>2. CASE \E y \in ToSet(context) : y.parent = parent
      BY <3>2 DEF Covered
    <3>3. ASSUME parent \in parents, N = MaxChunks \/ Row[brought].tokens > room
          PROVE  RefusedAt(e, n, context, N)
      <4>1. SubSeq(context, 1, N) = context
        BY <1>1
      <4>2. \A k \in DOMAIN context :
              k <= N <=> \E j \in 1..(n - 1) : e[j].id = context[k].child
        BY <1>1, <1>5
      <4>3. N = MaxChunks \/ (Row[parent].tokens > room /\ Row[x.id].tokens > room)
        <5>1. Row[parent].tokens \in Nat /\ Row[x.id].tokens \in Nat /\ room \in Int
          <6>1. parent \in Chunk
            BY <3>3
          <6> QED BY <1>3, <1>5, <1>6, <1>7, <6>1
        <5> HIDE DEF parent, x, room
        <5> QED BY <1>8, <3>3, <5>1
      <4> QED BY <4>1, <4>2, <4>3 DEF RefusedAt
    <3>4. N \in 0..N
      BY <1>5
    <3> QED BY <1>11, <3>1, <3>2, <3>3, <3>4 DEF Covered
  <2>3. \A k \in DOMAIN context : \E j \in 1..n : e[j].id = context[k].child
    BY <1>1, <1>2
  <2>4. \A i \in 1..n : Covered(e, i, context, parents)
    BY <1>1, <1>2, <2>2
  <2> HIDE DEF x, refused
  <2> QED BY <1>1, <2>1, <2>3, <2>4 DEF BuiltFrom
<1>12. CASE ~refused
  <2>1. /\ Taken(context, x, parents) = longer
        /\ N # MaxChunks /\ parent \in parents /\ ~(Row[brought].tokens > room)
        /\ \A k \in DOMAIN context : context[k].parent # parent
    BY <1>9, <1>10, <1>12
  <2>2. brought \in {parent, x.id} /\ brought \in Chunk
    BY <1>3, <1>8, <2>1
  <2>3. entry \in E /\ entry.chunk = brought /\ entry.parent = parent /\ entry.child = x.id
    <3> HIDE DEF brought
    <3> QED BY <1>3, <1>9, <2>1, <2>2 DEF Entries
  <2> HIDE DEF entry, brought, refused
  <2>4. /\ longer \in Seq(E) /\ Len(longer) = N + 1 /\ DOMAIN longer = 1..(N + 1)
        /\ longer[N + 1] = entry /\ \A k \in 1..N : longer[k] = context[k]
    BY <1>1, <2>3
  <2>5. Len(longer) <= MaxChunks
    BY <1>1, <1>5, <2>1, <2>4
  <2>6. TokensOf(longer) <= MaxTokens
    <3>1. TokensOf(longer) = TokensOf(context) + Row[brought].tokens
      <4> HIDE DEF E
      <4> QED BY <1>1, <1>4, <2>3, TokensAdded
    <3>2. Row[brought].tokens \in Nat
      BY <1>6, <2>2
    <3>3. \A a, b, c \in Nat : ~(c > a - b) => b + c <= a
      OBVIOUS
    <3> QED BY <1>5, <1>7, <2>1, <3>1, <3>2, <3>3
  <2> HIDE DEF longer
  <2>7. \A i, j \in DOMAIN longer : longer[i].parent = longer[j].parent => i = j
    <3> HIDE DEF parent
    <3>1. \A k \in 1..N : /\ k \in DOMAIN context /\ longer[k].parent = context[k].parent
                          /\ longer[k].parent # parent
      BY <1>5, <2>1, <2>4
    <3>2. longer[N + 1].parent = parent
      BY <2>3, <2>4
    <3>3. \A k \in DOMAIN longer : k \in 1..N \/ k = N + 1
      BY <1>5, <2>4
    <3> HIDE DEF N
    <3> QED BY <1>1, <3>1, <3>2, <3>3
  <2>8. \A k \in DOMAIN longer : \E j \in 1..n : e[j].id = longer[k].child
    <3> TAKE k \in DOMAIN longer
    <3>1. CASE k \in 1..N
      BY <1>1, <1>2, <1>5, <2>4, <3>1
    <3>2. CASE k = N + 1
      <4>1. n \in 1..n
        BY <1>2
      <4> QED BY <2>3, <2>4, <3>2, <4>1
    <3> QED BY <1>5, <2>4, <3>1, <3>2
  <2>9. \A i \in 1..n : Covered(e, i, longer, parents)
    <3>1. ASSUME NEW i \in 1..(n - 1) PROVE Covered(e, i, longer, parents)
      <4>1. \A j \in 1..(n - 1) : e[j].id # entry.child
        BY <1>2, <2>3
      <4>2. Covered(e, i, context, parents)
        BY <1>1
      <4> HIDE DEF x
      <4> QED BY <1>1, <1>2, <2>3, <4>1, <4>2, CoveredKept DEF longer
    <3>2. Covered(e, n, longer, parents)
      <4>1. entry \in ToSet(longer)
        BY <1>5, <2>4 DEF ToSet
      <4> QED BY <2>3, <4>1 DEF Covered
    <3> QED BY <1>2, <3>1, <3>2
  <2> HIDE DEF x
  <2> QED BY <2>1, <2>4, <2>5, <2>6, <2>7, <2>8, <2>9 DEF BuiltFrom
<1> QED BY <1>11, <1>12
\* The whole context: within its bounds, each parent once, and no candidate
\* left out without a reason.
LEMMA ContextCovers ==
  ASSUME NEW F \in SUBSET Chunk, NEW parents \in SUBSET Chunk, NEW e \in Seq(Evidences(F)),
         \A i, j \in DOMAIN e : e[i].id = e[j].id => i = j
  PROVE  BuiltFrom(e, Len(e), BuildContext(e, parents), F, parents)
<1>1. PICK f : /\ BuildContext(e, parents) = f[Len(e)]
               /\ f[0] = <<>>
               /\ \A n \in 1..Len(e) : f[n] = Taken(f[n - 1], e[n], parents)
               /\ BuildContext(e, parents) \in Seq(Entries(F, parents))
  BY Zenon, ContextFrom
<1> DEFINE N == Len(e)
           G == {n \in 0..N : BuiltFrom(e, n, f[n], F, parents)}
<1>2. N \in Nat
  OBVIOUS
<1>3. BuiltFrom(e, 0, <<>>, F, parents)
  <2> DEFINE none == <<>>
             E == Entries(F, parents)
  <2>1. none \in Seq(E) /\ Len(none) = 0 /\ DOMAIN none = {} /\ 1..0 = {}
    OBVIOUS
  <2>2. \A y \in E : y.chunk \in Chunk
    <3>1. F \subseteq Chunk /\ parents \subseteq Chunk
      OBVIOUS
    <3> QED BY <3>1 DEF Entries
  <2>3. MaxChunks \in Nat /\ MaxTokens \in Nat
    BY RetrievalBounds
  <2> HIDE DEF none
  <2>4. TokensOf(none) = 0
    <3> HIDE DEF E
    <3> QED BY <2>1, <2>2, TokensTyped
  <2>5. 0 <= MaxTokens /\ 0 <= MaxChunks
    BY <2>3
  <2>6. BuiltFrom(e, 0, none, F, parents)
    BY <2>1, <2>4, <2>5 DEF BuiltFrom
  <2> QED BY <2>6 DEF none
<1>4. G = 0..N
  <2>1. 0 \in G
    BY <1>1, <1>2, <1>3
  <2>2. ASSUME NEW n \in 1..N, n - 1 \in G PROVE n \in G
    <3>1. n \in 0..N /\ BuiltFrom(e, n - 1, f[n - 1], F, parents)
      BY <1>2, <2>2
    <3>2. BuiltFrom(e, n, Taken(f[n - 1], e[n], parents), F, parents)
      BY <3>1, BuiltOn
    <3> QED BY <1>1, <3>1, <3>2
  <2>3. G \in SUBSET (0..N)
    OBVIOUS
  <2> HIDE DEF G, N
  <2> QED BY <1>2, <2>1, <2>2, <2>3, StepByStep
<1>5. N \in 0..N
  BY <1>2
<1> QED BY <1>1, <1>4, <1>5

-----------------------------------------------------------------------------
(* The specification.                                                      *)

\* What a question of a client may find, on its day and in its documents.
Findable(c, q) ==
  {chunk \in Chunk : /\ Row[chunk].doc \in Reads[User[c]]
                     /\ InForce(chunk, AsOf(Text[q], Today))
                     /\ Text[q].only = {} \/ Row[chunk].doc \in Text[q].only}

OneCut(S) == \A d \in Docs : \E cut \in Chunkings[d] : S \cap ChunksOf(d) \subseteq cut

\* Parents of one moment, readable on the day of the question.
ReadAtOnce(c, q, parents) ==
  /\ parents \subseteq Chunk /\ OneCut(parents)
  /\ \A p \in parents : Row[p].doc \in Reads[User[c]] /\ InForce(p, AsOf(Text[q], Today))

\* What a request holds, by its phase.
ReqHolds(c, r) ==
  /\ r.phase # "idle" => r.query \in Queries
  /\ r.phase \in {"vector", "lookup", "embed", "dense", "context"} =>
       r.lexical \in Seq(Findable(c, r.query))
  /\ r.phase \in {"lookup", "embed"} => r.at \in Nat
  /\ r.phase = "dense" =>
       r.from.query = r.query /\ r.from.scope = User[c] /\ r.at - r.from.at < Ttl
  /\ r.phase = "context" => r.dense \in Seq(Findable(c, r.query))
  /\ r.phase \in {"generate", "audit"} =>
       \E parents : /\ ReadAtOnce(c, r.query, parents)
                    /\ r.context \in Seq(Entries(Findable(c, r.query), parents))
  /\ r.phase = "audit" => r.cited \subseteq DOMAIN r.context

Scopes == {User[c] : c \in Clients}
Cached ==
  {e \in [key : Queries \X Scopes, expires : Nat,
          made : [query : Queries, scope : Scopes, at : Nat]] :
     e.key = <<e.made.query, e.made.scope>> /\ e.expires = e.made.at + Ttl}

OneEach(s) == \A i, j \in DOMAIN s : s[i].key = s[j].key => i = j

CacheHolds ==
  cache \in Seq(Cached) /\ Len(cache) <= MaxEntries /\ OneEach(cache)

Accountable ==
  \A a \in answers : \E e \in audit :
    /\ e.user = a.user /\ e.query = a.query /\ a.sources \subseteq e.chunks
    /\ e.result = "ALLOWED" <=> a.sources # {}

RequestsHold == DOMAIN req = Clients /\ \A c \in Clients : ReqHolds(c, req[c])

AskInductive == now \in Nat /\ OneCut(active) /\ RequestsHold /\ CacheHolds /\ Accountable

\* Each step gives one request what its next phase needs.
LEMMA GoesOn ==
  ASSUME RequestsHold, NEW c \in Clients, NEW r, Goto(c, r), ReqHolds(c, r)
  PROVE  RequestsHold'
<1>1. /\ DOMAIN req' = Clients
      /\ \A d \in Clients : req'[d] = IF d = c THEN r ELSE req[d]
  BY DEF RequestsHold, Goto
<1>2. \A d \in Clients : ReqHolds(d, req'[d])
  <2> TAKE d \in Clients
  <2>1. CASE d = c
    BY <1>1, <2>1
  <2>2. CASE d # c
    <3>1. req'[d] = req[d] /\ ReqHolds(d, req[d])
      BY <1>1, <2>2 DEF RequestsHold
    <3> QED BY <3>1
  <2> QED BY <2>1, <2>2
<1> QED BY <1>1, <1>2 DEF RequestsHold

\* RequestsHold, of one request.
LEMMA HoldsNow ==
  ASSUME RequestsHold, NEW c \in Clients
  PROVE  ReqHolds(c, req[c])
  BY DEF RequestsHold

\* The rest of the state but now and the counters.
LEMMA RestStays ==
  ASSUME AskInductive, now' \in Nat, UNCHANGED <<active, cache, audit, answers>>, RequestsHold'
  PROVE  AskInductive'
<1>1. OneCut(active)' /\ CacheHolds' /\ Accountable'
  <2>1. OneCut(active) /\ CacheHolds /\ Accountable
    BY DEF AskInductive
  <2>2. OneCut(active)'
    BY <2>1 DEF OneCut, Docs, ChunksOf
  <2>3. CacheHolds'
    BY <2>1 DEF CacheHolds
  <2>4. Accountable'
    BY <2>1 DEF Accountable
  <2> QED BY <2>2, <2>3, <2>4
<1> QED BY <1>1 DEF AskInductive

\* What a search sees of the caller's documents may be found for the question.
LEMMA ChildrenFindable ==
  ASSUME NEW c \in Clients
  PROVE  Children(c) \in SUBSET Chunk /\ Children(c) \subseteq Findable(c, req[c].query)
  BY DEF Children, Findable, Readable, Day, Query

\* A question arrives; nothing has been found yet.
LEMMA AskKept ==
  ASSUME AskInductive, NEW c \in Clients, NEW q \in Queries, NEW lexicalOnly \in BOOLEAN,
         Ask(c, q, lexicalOnly)
  PROVE  AskInductive'
<1> DEFINE r == [phase |-> "lexical", query |-> q, lexicalOnly |-> lexicalOnly]
<1>1. Goto(c, r) /\ UNCHANGED <<now, active, indexed, cache, audit, answers, changes>>
  BY DEF Ask
<1>2. ReqHolds(c, r)
  BY DEF ReqHolds
<1> HIDE DEF r
<1>3. RequestsHold'
  BY <1>1, <1>2, GoesOn DEF AskInductive
<1> QED BY <1>1, <1>3, RestStays DEF AskInductive

\* PostgresChunkRepository.lexical_search, and once more when it is empty.
LEMMA SearchLexicalKept ==
  ASSUME AskInductive, NEW c \in Clients, SearchLexical(c)
  PROVE  AskInductive'
<1> DEFINE hits == LexicalSearch(Query(c), Children(c))
           again == [req[c] EXCEPT !.phase = "lexical again"]
           r == [phase |-> IF req[c].lexicalOnly THEN "context" ELSE "vector",
                 query |-> req[c].query, lexicalOnly |-> req[c].lexicalOnly,
                 lexical |-> hits, dense |-> <<>>]
<1>1. /\ req[c].phase \in {"lexical", "lexical again"}
      /\ (Goto(c, again) /\ req[c].phase = "lexical") \/ Goto(c, r)
      /\ UNCHANGED <<now, active, indexed, cache, audit, answers, asks, changes>>
  BY DEF SearchLexical
<1>2. ReqHolds(c, req[c]) /\ req[c].query \in Queries
  BY <1>1, HoldsNow DEF AskInductive, ReqHolds
<1>3. hits \in Seq(Findable(c, req[c].query))
  <2>1. hits \in Seq(Children(c))
    BY <1>2, ChildrenFindable, SearchesFind DEF Query
  <2> HIDE DEF hits
  <2> QED BY <2>1, ChildrenFindable
<1> HIDE DEF hits
<1>4. ReqHolds(c, r)
  BY <1>2, <1>3 DEF ReqHolds
<1>5. Goto(c, again) /\ req[c].phase = "lexical" => ReqHolds(c, again)
  <2> SUFFICES ASSUME req[c].phase = "lexical" PROVE ReqHolds(c, again)
    OBVIOUS
  <2>1. again.phase \in {"lexical again", "lexical"} /\ again.query = req[c].query
    OBVIOUS
  <2> HIDE DEF again
  <2> QED BY <1>2, <2>1 DEF ReqHolds
<1> HIDE DEF r, again
<1>6. RequestsHold'
  BY <1>1, <1>4, <1>5, GoesOn DEF AskInductive
<1> QED BY <1>1, <1>6, RestStays DEF AskInductive

\* Popping a key leaves a cache without it.
LEMMA Popped ==
  ASSUME CacheHolds, NEW key
  PROVE  /\ Without(key) \in Seq(Cached) /\ OneEach(Without(key))
         /\ \A i \in DOMAIN Without(key) : Without(key)[i].key # key
         /\ Len(Without(key)) <= MaxEntries
         /\ Found(key) # {} => Len(Without(key)) < MaxEntries
<1>1. cache \in Seq(Cached) /\ Len(cache) <= MaxEntries /\ MaxEntries \in Nat
      /\ \A i, j \in DOMAIN cache : cache[i].key = cache[j].key => i = j
  BY CacheBounds DEF CacheHolds, OneEach
<1>2. CASE Found(key) = {}
  <2>1. Without(key) = cache /\ \A i \in DOMAIN cache : cache[i].key # key
    BY <1>2 DEF Without, Found
  <2> QED BY <1>1, <1>2, <2>1 DEF OneEach
<1>3. CASE Found(key) # {}
  <2> DEFINE k == CHOOSE i \in Found(key) : TRUE
             s == Without(key)
             n == Len(cache)
             At(i) == IF i < k THEN i ELSE i + 1
  <2>1. k \in DOMAIN cache /\ cache[k].key = key
    <3>1. k \in Found(key)
      BY <1>3
    <3> QED BY <3>1 DEF Found
  <2>2. s = SubSeq(cache, 1, k - 1) \o SubSeq(cache, k + 1, n)
    BY <1>3 DEF Without, RemoveAt
  <2> HIDE DEF k, s
  <2>3. k \in 1..n /\ n \in Nat
    BY <1>1, <2>1
  <2>4. /\ s \in Seq(Cached) /\ Len(s) = n - 1
        /\ \A i \in 1..(n - 1) : s[i] = cache[At(i)]
    <3> DEFINE a == SubSeq(cache, 1, k - 1)
               b == SubSeq(cache, k + 1, n)
    <3>1. a \in Seq(Cached) /\ Len(a) = k - 1 /\ \A i \in 1..(k - 1) : a[i] = cache[i]
      BY <1>1, <2>3, SubSeqProperties
    <3>2. b \in Seq(Cached) /\ Len(b) = n - k /\ \A i \in 1..(n - k) : b[i] = cache[k + i]
      BY <1>1, <2>3, SubSeqProperties
    <3> HIDE DEF a, b
    <3>3. /\ a \o b \in Seq(Cached) /\ Len(a \o b) = (k - 1) + (n - k)
          /\ \A i \in 1..((k - 1) + (n - k)) :
               (a \o b)[i] = IF i <= k - 1 THEN a[i] ELSE b[i - (k - 1)]
      <4>1. /\ a \o b \in Seq(Cached) /\ Len(a \o b) = Len(a) + Len(b)
            /\ \A i \in 1..(Len(a) + Len(b)) :
                 (a \o b)[i] = IF i <= Len(a) THEN a[i] ELSE b[i - Len(a)]
        BY <3>1, <3>2, ConcatProperties
      <4>2. Len(a) = k - 1 /\ Len(b) = n - k
        BY <3>1, <3>2
      <4> QED BY <4>1, <4>2, Zenon
    <3>4. (k - 1) + (n - k) = n - 1
      BY <2>3
    <3>5. ASSUME NEW i \in 1..(n - 1) PROVE (a \o b)[i] = cache[At(i)]
      <4>1. (a \o b)[i] = IF i <= k - 1 THEN a[i] ELSE b[i - (k - 1)]
        BY <3>3, <3>4
      <4>2. CASE i < k
        <5>1. i \in 1..(k - 1) /\ i <= k - 1
          BY <2>3, <4>2
        <5> QED BY <3>1, <4>1, <4>2, <5>1
      <4>3. CASE ~(i < k)
        <5>1. i - (k - 1) \in 1..(n - k) /\ k + (i - (k - 1)) = i + 1 /\ ~(i <= k - 1)
          BY <2>3, <4>3
        <5> QED BY <3>2, <4>1, <4>3, <5>1
      <4> QED BY <4>2, <4>3
    <3> QED BY <2>2, <3>3, <3>4, <3>5 DEF a, b
  <2>5. DOMAIN s = 1..(n - 1) /\ DOMAIN cache = 1..n
    BY <1>1, <2>3, <2>4
  <2>6. /\ \A i \in 1..(n - 1) : At(i) \in 1..n /\ At(i) # k
        /\ \A i, j \in 1..(n - 1) : At(i) = At(j) => i = j
    BY <2>3
  <2> HIDE DEF n, At
  <2>7. \A i, j \in 1..(n - 1) : s[i].key = s[j].key => i = j
    BY <1>1, <2>4, <2>5, <2>6
  <2>8. \A i \in 1..(n - 1) : s[i].key # key
    BY <1>1, <2>1, <2>4, <2>5, <2>6
  <2>9. n - 1 \in Nat /\ n - 1 < MaxEntries
    BY <1>1, <2>3 DEF n
  <2> HIDE DEF s
  <2>10. OneEach(s) /\ \A i \in DOMAIN s : s[i].key # key
    BY <2>5, <2>7, <2>8 DEF OneEach
  <2>11. s \in Seq(Cached) /\ Len(s) <= MaxEntries /\ Len(s) < MaxEntries
    BY <1>1, <2>4, <2>9
  <2> QED BY <2>10, <2>11 DEF s
<1> QED BY <1>2, <1>3

\* An entry of another key may be put at the end.
LEMMA PutLast ==
  ASSUME NEW s \in Seq(Cached), OneEach(s), NEW e \in Cached,
         \A i \in DOMAIN s : s[i].key # e.key
  PROVE  /\ Append(s, e) \in Seq(Cached) /\ Len(Append(s, e)) = Len(s) + 1
         /\ OneEach(Append(s, e))
<1>1. /\ Append(s, e) \in Seq(Cached) /\ Len(Append(s, e)) = Len(s) + 1
      /\ DOMAIN Append(s, e) = 1..(Len(s) + 1) /\ DOMAIN s = 1..Len(s) /\ Len(s) \in Nat
      /\ \A i \in 1..(Len(s) + 1) : Append(s, e)[i] = IF i \in 1..Len(s) THEN s[i] ELSE e
  OBVIOUS
<1> QED BY <1>1 DEF OneEach

\* get_or_embed reads the clock first.
LEMMA ReadClockKept ==
  ASSUME AskInductive, NEW c \in Clients, ReadClock(c)
  PROVE  AskInductive'
<1> DEFINE r == [phase |-> "lookup", query |-> req[c].query, lexical |-> req[c].lexical,
                 at |-> now]
<1>1. /\ Goto(c, r) /\ req[c].phase = "vector" /\ ReqHolds(c, req[c])
      /\ UNCHANGED <<now, active, indexed, cache, audit, answers, asks, changes>>
      /\ now \in Nat
  BY HoldsNow DEF ReadClock, AskInductive
<1>2. ReqHolds(c, r)
  BY <1>1 DEF ReqHolds
<1> HIDE DEF r
<1>3. RequestsHold'
  BY <1>1, <1>2, GoesOn DEF AskInductive
<1> QED BY <1>1, <1>3, RestStays DEF AskInductive

\* get_or_embed under its first lock: what is served is fresh and was made
\* under the caller's key; what is expired is popped.
LEMMA LookUpKept ==
  ASSUME AskInductive, NEW c \in Clients, LookUp(c)
  PROVE  AskInductive'
<1>1. /\ req[c].phase = "lookup" /\ ReqHolds(c, req[c]) /\ RequestsHold /\ CacheHolds
      /\ UNCHANGED <<now, active, indexed, audit, answers, asks, changes>>
  BY HoldsNow DEF LookUp, AskInductive
<1>2. /\ req[c].query \in Queries /\ req[c].lexical \in Seq(Findable(c, req[c].query))
      /\ req[c].at \in Nat
  BY <1>1 DEF ReqHolds
<1>3. RequestsHold' /\ CacheHolds'
  <2>1. ASSUME NEW i \in Found(Key(c)), Fresh(cache[i], req[c].at),
               cache' = Append(Without(Key(c)), cache[i]),
               Goto(c, [phase |-> "dense", query |-> req[c].query, lexical |-> req[c].lexical,
                        from |-> cache[i].made, at |-> req[c].at])
        PROVE  RequestsHold' /\ CacheHolds'
    <3>1. i \in DOMAIN cache /\ cache[i].key = Key(c) /\ Found(Key(c)) # {}
      BY DEF Found
    <3>2. cache[i] \in Cached
      BY <1>1, <3>1 DEF CacheHolds
    <3>3. /\ cache[i].made.query = req[c].query /\ cache[i].made.scope = User[c]
          /\ cache[i].expires = cache[i].made.at + Ttl /\ cache[i].made.at \in Nat
      BY <3>1, <3>2 DEF Cached, Key
    <3>4. req[c].at - cache[i].made.at < Ttl
      <4>1. Ttl \in Nat
        BY CacheBounds
      <4> QED BY <1>2, <2>1, <3>3, <4>1 DEF Fresh
    <3> DEFINE r == [phase |-> "dense", query |-> req[c].query, lexical |-> req[c].lexical,
                     from |-> cache[i].made, at |-> req[c].at]
    <3>5. ReqHolds(c, r)
      BY <1>2, <3>3, <3>4 DEF ReqHolds
    <3> HIDE DEF r
    <3>6. RequestsHold'
      BY <1>1, <2>1, <3>5, GoesOn DEF r
    <3>7. CacheHolds'
      <4> DEFINE s == Without(Key(c))
      <4>1. /\ s \in Seq(Cached) /\ OneEach(s) /\ Len(s) < MaxEntries
            /\ \A j \in DOMAIN s : s[j].key # cache[i].key
        BY <1>1, <3>1, Popped
      <4> HIDE DEF s
      <4>2. /\ Append(s, cache[i]) \in Seq(Cached) /\ Len(Append(s, cache[i])) = Len(s) + 1
            /\ OneEach(Append(s, cache[i])) /\ MaxEntries \in Nat
        BY <3>2, <4>1, PutLast, CacheBounds
      <4>3. cache' \in Seq(Cached) /\ Len(cache') = Len(s) + 1 /\ OneEach(cache')
        BY <2>1, <4>2 DEF s
      <4> QED BY <4>1, <4>2, <4>3 DEF CacheHolds
    <3> QED BY <3>6, <3>7
  <2>2. ASSUME cache' = Without(Key(c)),
               Goto(c, [phase |-> "embed", query |-> req[c].query, lexical |-> req[c].lexical,
                        at |-> req[c].at])
        PROVE  RequestsHold' /\ CacheHolds'
    <3> DEFINE r == [phase |-> "embed", query |-> req[c].query, lexical |-> req[c].lexical,
                     at |-> req[c].at]
    <3>1. ReqHolds(c, r)
      BY <1>1, <1>2 DEF ReqHolds
    <3> HIDE DEF r
    <3>2. RequestsHold'
      BY <1>1, <2>2, <3>1, GoesOn DEF r
    <3>3. CacheHolds'
      BY <1>1, <2>2, Popped DEF CacheHolds
    <3> QED BY <3>2, <3>3
  <2> QED BY <2>1, <2>2 DEF LookUp
<1>4. OneCut(active)' /\ Accountable'
  BY <1>1 DEF AskInductive, OneCut, Docs, ChunksOf, Accountable
<1> QED BY <1>1, <1>3, <1>4 DEF AskInductive

\* get_or_embed under its second lock: the new vector replaces the one
\* of its key, and the oldest entries leave while there are too many.
LEMMA StoreKept ==
  ASSUME AskInductive, NEW c \in Clients, Store(c)
  PROVE  AskInductive'
<1> DEFINE made == [query |-> req[c].query, scope |-> User[c], at |-> req[c].at]
           e == [key |-> Key(c), expires |-> req[c].at + Ttl, made |-> made]
           all == Append(Without(Key(c)), e)
           extra == Len(all) - MaxEntries
           r == [phase |-> "dense", query |-> req[c].query, lexical |-> req[c].lexical,
                 from |-> made, at |-> req[c].at]
<1>1. /\ req[c].phase = "embed" /\ ReqHolds(c, req[c]) /\ RequestsHold /\ CacheHolds
      /\ UNCHANGED <<now, active, indexed, audit, answers, asks, changes>>
      /\ now \in Nat
      /\ cache' = IF extra > 0 THEN SubSeq(all, extra + 1, Len(all)) ELSE all
      /\ Goto(c, r)
  BY HoldsNow DEF Store, AskInductive
<1>2. /\ req[c].query \in Queries /\ req[c].lexical \in Seq(Findable(c, req[c].query))
      /\ req[c].at \in Nat /\ MaxEntries \in Nat /\ MaxEntries > 0 /\ Ttl \in Nat /\ Ttl > 0
  BY <1>1, CacheBounds DEF ReqHolds
<1>3. ReqHolds(c, r)
  BY <1>2 DEF ReqHolds
<1>4. e \in Cached
  BY <1>2 DEF Cached, Scopes, Key
<1>5. RequestsHold'
  <2> HIDE DEF r
  <2> QED BY <1>1, <1>3, GoesOn
<1>6. /\ all \in Seq(Cached) /\ OneEach(all) /\ Len(all) \in Nat
      /\ Len(all) <= MaxEntries + 1
  <2> DEFINE s == Without(Key(c))
  <2>1. /\ s \in Seq(Cached) /\ OneEach(s) /\ Len(s) <= MaxEntries
        /\ \A i \in DOMAIN s : s[i].key # e.key
    BY <1>1, Popped
  <2> HIDE DEF s, e
  <2>2. Append(s, e) \in Seq(Cached) /\ Len(Append(s, e)) = Len(s) + 1 /\ OneEach(Append(s, e))
    BY <1>4, <2>1, PutLast
  <2> QED BY <1>2, <2>1, <2>2 DEF s
<1> HIDE DEF all
<1>7. CacheHolds'
  <2>1. CASE extra > 0
    <3> DEFINE s == SubSeq(all, extra + 1, Len(all))
               n == Len(all) - (extra + 1) + 1
    <3>1. \A i \in (extra + 1)..Len(all) : all[i] \in Cached
      BY <1>2, <1>6, <2>1
    <3>2. /\ s \in Seq(Cached) /\ Len(s) = IF extra + 1 <= Len(all) THEN n ELSE 0
          /\ \A i \in 1..n : s[i] = all[extra + 1 + i - 1]
      <4> HIDE DEF extra
      <4>1. extra \in Int
        BY <1>2, <1>6 DEF extra
      <4> QED BY <1>6, <3>1, <4>1, SubSeqProperties
    <3>3. extra = 1 /\ n = MaxEntries /\ extra + 1 <= Len(all)
      BY <1>2, <1>6, <2>1
    <3> HIDE DEF s, n, extra
    <3>4. Len(s) = MaxEntries /\ DOMAIN s = 1..MaxEntries /\ \A i \in 1..MaxEntries :
            i + 1 \in DOMAIN all /\ s[i] = all[i + 1]
      <4>1. Len(s) = MaxEntries /\ DOMAIN s = 1..MaxEntries
        BY <3>2, <3>3
      <4>2. Len(all) = MaxEntries + 1 /\ DOMAIN all = 1..Len(all)
        BY <1>2, <1>6, <3>3 DEF extra
      <4>3. \A i \in 1..MaxEntries : 1 + 1 + i - 1 = i + 1 /\ i + 1 \in 1..(MaxEntries + 1)
        BY <1>2
      <4> QED BY <3>2, <3>3, <4>1, <4>2, <4>3
    <3>5. OneEach(s)
      <4>1. ASSUME NEW i \in 1..MaxEntries, NEW j \in 1..MaxEntries, s[i].key = s[j].key
            PROVE  i = j
        <5>1. i + 1 \in DOMAIN all /\ j + 1 \in DOMAIN all /\ all[i + 1].key = all[j + 1].key
          BY <3>4, <4>1
        <5>2. i + 1 = j + 1
          BY <1>6, <5>1 DEF OneEach
        <5> QED BY <1>2, <5>2
      <4> QED BY <3>4, <4>1 DEF OneEach
    <3>6. cache' = s
      BY <1>1, <2>1 DEF s, extra
    <3> QED BY <1>2, <3>2, <3>4, <3>5, <3>6 DEF CacheHolds
  <2>2. CASE ~(extra > 0)
    <3>1. cache' = all /\ Len(all) <= MaxEntries
      BY <1>1, <1>2, <1>6, <2>2
    <3> QED BY <1>6, <3>1 DEF CacheHolds
  <2> QED BY <2>1, <2>2
<1>8. OneCut(active)' /\ Accountable'
  BY <1>1 DEF AskInductive, OneCut, Docs, ChunksOf, Accountable
<1> QED BY <1>1, <1>5, <1>7, <1>8 DEF AskInductive

\* PostgresChunkRepository.exact_vector_search.
LEMMA SearchDenseKept ==
  ASSUME AskInductive, NEW c \in Clients, SearchDense(c)
  PROVE  AskInductive'
<1> DEFINE hits == DenseSearch(Query(c), Children(c))
           r == [phase |-> "context", query |-> req[c].query, lexicalOnly |-> FALSE,
                 lexical |-> req[c].lexical, dense |-> hits]
<1>1. /\ req[c].phase = "dense" /\ Goto(c, r)
      /\ UNCHANGED <<now, active, indexed, cache, audit, answers, asks, changes>>
  BY DEF SearchDense
<1>2. /\ req[c].query \in Queries
      /\ req[c].lexical \in Seq(Findable(c, req[c].query))
  BY <1>1, HoldsNow DEF AskInductive, ReqHolds
<1>3. hits \in Seq(Findable(c, req[c].query))
  <2>1. hits \in Seq(Children(c))
    BY <1>2, ChildrenFindable, SearchesFind DEF Query
  <2> HIDE DEF hits
  <2> QED BY <2>1, ChildrenFindable
<1> HIDE DEF hits
<1>4. ReqHolds(c, r)
  BY <1>2, <1>3 DEF ReqHolds
<1> HIDE DEF r
<1>5. RequestsHold'
  BY <1>1, <1>4, GoesOn DEF AskInductive
<1> QED BY <1>1, <1>5, RestStays DEF AskInductive

\* The parents are read in one statement: they are active at one moment, so
\* that those of a document are of one cutting.
LEMMA ReadParentsKept ==
  ASSUME AskInductive, NEW c \in Clients, ReadParents(c)
  PROVE  AskInductive'
<1> DEFINE context == BuildContext(Evidence(c), Parents(c))
           q == req[c].query
           F == Findable(c, q)
           r1 == [phase |-> "audit", query |-> q, context |-> <<>>, cited |-> {}]
           r2 == [phase |-> "generate", query |-> q, context |-> context,
                  evidence |-> Evidence(c), parents |-> Parents(c)]
<1>1. /\ req[c].phase = "context" /\ (Goto(c, r1) \/ Goto(c, r2))
      /\ UNCHANGED <<now, active, indexed, cache, audit, answers, asks, changes>>
  BY DEF ReadParents
<1>2. q \in Queries /\ req[c].lexical \in Seq(F) /\ req[c].dense \in Seq(F)
  BY <1>1, HoldsNow DEF AskInductive, ReqHolds
<1>3. F \in SUBSET Chunk
  BY DEF Findable
<1>4. ReadAtOnce(c, q, Parents(c))
  <2>1. /\ Parents(c) \subseteq Chunk /\ Parents(c) \subseteq active
        /\ \A p \in Parents(c) : /\ Row[p].doc \in Reads[User[c]]
                                 /\ InForce(p, AsOf(Text[q], Today))
    BY DEF Parents, Readable, Day, Query
  <2>2. OneCut(active)
    BY DEF AskInductive
  <2>3. OneCut(Parents(c))
    BY <2>1, <2>2 DEF OneCut
  <2> QED BY <2>1, <2>3 DEF ReadAtOnce
<1>5. context \in Seq(Entries(F, Parents(c)))
  <2> HIDE DEF F, q
  <2>1. Evidence(c) \in Seq(Evidences(F))
    BY <1>2, <1>3, CandidatesFrom DEF Evidence, Query, q, EvidenceFrom
  <2> QED BY <2>1, ContextFrom
<1>6. \A S : <<>> \in Seq(S)
  OBVIOUS
<1> HIDE DEF context, F
<1>7. ReqHolds(c, r1)
  <2>1. r1.query = q /\ r1.phase = "audit" /\ r1.context = <<>> /\ r1.cited = {}
    OBVIOUS
  <2> HIDE DEF r1, q
  <2> QED BY <1>2, <1>4, <1>6, <2>1 DEF ReqHolds
<1>8. ReqHolds(c, r2)
  <2>1. r2.query = q /\ r2.phase = "generate" /\ r2.context = context
    OBVIOUS
  <2> HIDE DEF r2, q
  <2> QED BY <1>2, <1>4, <1>5, <2>1 DEF ReqHolds, F
<1> HIDE DEF r1, r2, q
<1>9. RequestsHold'
  BY <1>1, <1>7, <1>8, GoesOn DEF AskInductive
<1> QED BY <1>1, <1>9, RestStays DEF AskInductive

\* A draft that is sent without review cites what the context has.
LEMMA CitesContext ==
  ASSUME NEW draft \in Drafts \cup {CompactDraft}, NEW q, NEW context
  PROVE  LET sent == Generated(draft, q, context)
         IN  ~sent.review => sent.cited \subseteq DOMAIN context
<1> DEFINE sent == Repaired(Marked(draft), q, context)
<1>1. PICK cited, marks, quotes, review :
        draft = [cited |-> cited, marks |-> marks, quotes |-> quotes, review |-> review]
  <2>1. CASE draft \in Drafts
    BY <2>1, DraftsAssumption
  <2>2. CASE draft = CompactDraft
    BY <2>2 DEF CompactDraft
  <2> QED BY <2>1, <2>2
<1>2. PICK all : Marked(draft) = [cited |-> cited, marks |-> all, quotes |-> quotes,
                                  review |-> review]
  BY <1>1 DEF Marked
<1>3. PICK mended : sent = [cited |-> cited, marks |-> all, quotes |-> mended, review |-> review]
  <2>1. PICK m : sent = [Marked(draft) EXCEPT !.quotes = m]
    BY Zenon DEF Repaired
  <2> HIDE DEF sent
  <2> QED BY <1>2, <2>1
<1> HIDE DEF sent
<1>4. Generated(draft, q, context)
        = IF ValidDraft(sent, context) THEN sent ELSE [sent EXCEPT !.review = TRUE]
  BY DEF Generated, sent
<1>5. CASE ValidDraft(sent, context)
  BY <1>4, <1>5 DEF ValidDraft
<1>6. CASE ~ValidDraft(sent, context)
  BY <1>3, <1>4, <1>6
<1> QED BY <1>5, <1>6

\* Whatever the model drafts, the request cites what its context has.
LEMMA GenerateKept ==
  ASSUME AskInductive, NEW c \in Clients, Generate(c)
  PROVE  AskInductive'
<1>1. /\ req[c].phase = "generate"
      /\ UNCHANGED <<now, active, indexed, cache, audit, answers, asks, changes>>
  BY DEF Generate
<1>2. PICK draft \in Drafts \cup {CompactDraft} :
        LET sent == Generated(draft, Query(c), req[c].context)
        IN Goto(c, [phase |-> "audit", query |-> req[c].query, context |-> req[c].context,
                    cited |-> IF sent.review THEN {} ELSE sent.cited])
  BY DEF Generate
<1> DEFINE sent == Generated(draft, Query(c), req[c].context)
           cited == IF sent.review THEN {} ELSE sent.cited
           r == [phase |-> "audit", query |-> req[c].query, context |-> req[c].context,
                 cited |-> cited]
<1>3. cited \subseteq DOMAIN req[c].context
  <2>1. ~sent.review => sent.cited \subseteq DOMAIN req[c].context
    BY CitesContext
  <2> HIDE DEF sent
  <2> QED BY <2>1
<1>4. Goto(c, r)
  BY <1>2
<1> HIDE DEF cited
<1>5. ReqHolds(c, r)
  <2>1. ReqHolds(c, req[c])
    BY HoldsNow DEF AskInductive
  <2>2. /\ r.phase = "audit" /\ r.query = req[c].query /\ r.context = req[c].context
        /\ r.cited = cited
    OBVIOUS
  <2> HIDE DEF r
  <2> QED BY <1>1, <1>3, <2>1, <2>2 DEF ReqHolds
<1> HIDE DEF r
<1>6. RequestsHold'
  BY <1>4, <1>5, GoesOn DEF AskInductive
<1> QED BY <1>1, <1>6, RestStays DEF AskInductive

\* A client without a request.
LEMMA WaitingHolds == ASSUME NEW c PROVE ReqHolds(c, Waiting)
  BY DEF ReqHolds, Waiting

\* The audit event of an answer has the chunks of its context and says ALLOWED
\* when and only when something is cited.
LEMMA AnswerKept ==
  ASSUME AskInductive, NEW c \in Clients, Answer(c)
  PROVE  AskInductive'
<1> DEFINE event == Audited(c)
           sources == {req[c].context[s].chunk : s \in req[c].cited}
           answer == [user |-> User[c], query |-> req[c].query, sources |-> sources]
<1>1. /\ req[c].phase = "audit" /\ Goto(c, Waiting)
      /\ audit' = audit \cup {event} /\ answers' = answers \cup {answer}
      /\ UNCHANGED <<now, active, indexed, cache, asks, changes>>
  BY DEF Answer
<1>2. RequestsHold'
  BY <1>1, GoesOn, WaitingHolds DEF AskInductive
<1>3. /\ event.user = User[c] /\ event.query = req[c].query
      /\ event.chunks = {e.chunk : e \in ToSet(req[c].context)}
      /\ event.result = IF req[c].cited = {} THEN "REVIEW_REQUIRED" ELSE "ALLOWED"
  BY DEF Audited
<1>4. req[c].cited \subseteq DOMAIN req[c].context
  BY <1>1, HoldsNow DEF AskInductive, ReqHolds
<1>5. sources \subseteq event.chunks /\ (event.result = "ALLOWED" <=> sources # {})
  <2>1. sources \subseteq event.chunks
    BY <1>3, <1>4 DEF ToSet
  <2>2. sources = {} <=> req[c].cited = {}
    OBVIOUS
  <2> HIDE DEF event, sources
  <2> QED BY <1>3, <2>1, <2>2
<1>6. answer.user = User[c] /\ answer.query = req[c].query /\ answer.sources = sources
  OBVIOUS
<1> HIDE DEF event, sources, answer
<1>7. Accountable'
  <2> SUFFICES ASSUME NEW a \in answers'
               PROVE  \E e \in audit' :
                        /\ e.user = a.user /\ e.query = a.query /\ a.sources \subseteq e.chunks
                        /\ e.result = "ALLOWED" <=> a.sources # {}
    BY DEF Accountable
  <2>1. CASE a \in answers
    BY <1>1, <2>1 DEF AskInductive, Accountable
  <2>2. CASE a = answer
    BY <1>1, <1>3, <1>5, <1>6, <2>2
  <2> QED BY <1>1, <2>1, <2>2
<1>8. now' \in Nat /\ OneCut(active)' /\ CacheHolds'
  BY <1>1 DEF AskInductive, OneCut, Docs, ChunksOf, CacheHolds
<1> QED BY <1>2, <1>7, <1>8 DEF AskInductive

\* A request that raises leaves nothing.
LEMMA FailKept ==
  ASSUME AskInductive, NEW c \in Clients, Fail(c)
  PROVE  AskInductive'
<1>1. Goto(c, Waiting) /\ UNCHANGED <<now, active, indexed, cache, audit, answers, asks, changes>>
  BY DEF Fail
<1>2. RequestsHold'
  BY <1>1, GoesOn, WaitingHolds DEF AskInductive
<1> QED BY <1>1, <1>2, RestStays DEF AskInductive

\* The clock, and workers that only change what is active.
LEMMA ClockKept ==
  ASSUME AskInductive, Tick
  PROVE  AskInductive'
<1>1. now' \in Nat /\ UNCHANGED <<active, indexed, cache, req, audit, answers, asks, changes>>
  BY DEF AskInductive, Tick
<1>2. RequestsHold'
  BY <1>1 DEF AskInductive, RequestsHold
<1> QED BY <1>1, <1>2, RestStays

\* The chunks of different documents are different.
LEMMA DocsApart ==
  ASSUME NEW d \in Docs, NEW e \in Docs, d # e
  PROVE  ChunksOf(d) \cap ChunksOf(e) = {}
  BY DEF ChunksOf

\* A cutting of a document is made of its chunks.
LEMMA CutIsOwn ==
  ASSUME NEW d \in Docs, NEW cut \in Chunkings[d]
  PROVE  cut \subseteq ChunksOf(d)
  BY ChunkingsAssumption DEF ChunksOf, Docs

\* Workers replace the active chunks of a document by one cutting or by none.
LEMMA CorpusKept ==
  ASSUME AskInductive, NEW d \in Docs, Rechunk(d) \/ Embed(d) \/ Deactivate(d)
  PROVE  AskInductive'
<1>1. UNCHANGED <<now, cache, req, audit, answers, asks>>
  BY DEF Rechunk, Embed, Deactivate, Change
<1>2. OneCut(active)
  BY DEF AskInductive
<1>3. OneCut(active')
  <2>1. CASE Rechunk(d)
    <3>1. PICK cut \in Chunkings[d] : active' = (active \ ChunksOf(d)) \cup cut
      BY <2>1 DEF Rechunk
    <3> SUFFICES ASSUME NEW e \in Docs
                 PROVE  \E k \in Chunkings[e] : active' \cap ChunksOf(e) \subseteq k
      BY DEF OneCut
    <3>2. CASE e = d
      BY <3>1, <3>2
    <3>3. CASE e # d
      <4>1. cut \cap ChunksOf(e) = {}
        BY <3>3, DocsApart, CutIsOwn
      <4>2. active' \cap ChunksOf(e) \subseteq active \cap ChunksOf(e)
        BY <3>1, <4>1
      <4> QED BY <1>2, <4>2 DEF OneCut
    <3> QED BY <3>2, <3>3
  <2>2. CASE Embed(d) \/ Deactivate(d)
    <3>1. active' \subseteq active
      BY <2>2 DEF Embed, Deactivate
    <3> QED BY <1>2, <3>1 DEF OneCut
  <2> QED BY <2>1, <2>2
<1>4. OneCut(active)'
  BY <1>3 DEF OneCut, Docs, ChunksOf
<1> QED BY <1>1, <1>4 DEF AskInductive, RequestsHold, CacheHolds, Accountable

\* At first every document has one cutting.
LEMMA AskInitHolds == AskInit => AskInductive
<1> SUFFICES ASSUME AskInit PROVE AskInductive
  OBVIOUS
<1>1. OneCut(active)
  <2>1. PICK cut \in [Docs -> UNION {Chunkings[d] : d \in Docs}] :
          (\A d \in Docs : cut[d] \in Chunkings[d]) /\ active = UNION {cut[d] : d \in Docs}
    BY DEF AskInit
  <2> SUFFICES ASSUME NEW d \in Docs
               PROVE  \E k \in Chunkings[d] : active \cap ChunksOf(d) \subseteq k
    BY DEF OneCut
  <2>2. \A x \in active \cap ChunksOf(d) : x \in cut[d]
    <3> TAKE x \in active \cap ChunksOf(d)
    <3>1. PICK e \in Docs : x \in cut[e]
      BY <2>1
    <3>2. x \in ChunksOf(e)
      BY <2>1, <3>1, CutIsOwn
    <3> QED BY <3>1, <3>2, DocsApart
  <2> QED BY <2>1, <2>2
<1>2. now \in Nat /\ DOMAIN req = Clients /\ cache = <<>> /\ answers = {}
      /\ \A c \in Clients : req[c] = Waiting
  BY DEF AskInit
<1>3. CacheHolds
  BY <1>2, CacheBounds DEF CacheHolds, OneEach
<1>4. RequestsHold
  BY <1>2, WaitingHolds DEF RequestsHold
<1> QED BY <1>1, <1>2, <1>3, <1>4 DEF AskInductive, Accountable

\* Every step keeps the invariant.
LEMMA AskStepKept == AskInductive /\ [AskNext]_asking => AskInductive'
<1> SUFFICES ASSUME AskInductive, [AskNext]_asking PROVE AskInductive'
  OBVIOUS
<1>1. CASE Tick
  BY <1>1, ClockKept
<1>2. CASE \E d \in Docs : Rechunk(d) \/ Embed(d) \/ Deactivate(d)
  BY <1>2, CorpusKept
<1>3. ASSUME NEW c \in Clients,
             \E q \in Queries, lexicalOnly \in BOOLEAN : Ask(c, q, lexicalOnly)
      PROVE  AskInductive'
  BY <1>3, AskKept
<1>4. ASSUME NEW c \in Clients,
             \/ SearchLexical(c) \/ ReadClock(c) \/ LookUp(c) \/ Store(c) \/ SearchDense(c)
             \/ ReadParents(c) \/ Generate(c) \/ Answer(c) \/ Fail(c)
      PROVE  AskInductive'
  BY <1>4, SearchLexicalKept, ReadClockKept, LookUpKept, StoreKept, SearchDenseKept,
     ReadParentsKept, GenerateKept, AnswerKept, FailKept
<1>5. CASE UNCHANGED asking
  BY <1>5 DEF asking, AskInductive, OneCut, Docs, ChunksOf, RequestsHold, CacheHolds, Accountable
<1> QED BY <1>1, <1>2, <1>3, <1>4, <1>5 DEF AskNext

\* The invariant of requests, cache, chunks and audit.
THEOREM AskInvariantHolds == AskSpec => []AskInductive
<1>1. AskInductive /\ [AskNext]_asking => AskInductive'
  BY AskStepKept
<1> QED BY <1>1, AskInitHolds, PTL DEF AskSpec

\* CacheHonest: AuthorizationSafeQueryEmbeddingCache holds at most MaxEntries
\* vectors, one per key; the vector a request searches with was made for its
\* question under its scope, and was younger than Ttl by the clock that was read
\* for its look-up, whoever asked, stored and evicted in between.
THEOREM VectorsAreOwnAndFresh == AskSpec => []CacheHonest
<1>1. AskInductive => CacheHonest
  <2> SUFFICES ASSUME AskInductive PROVE CacheHonest
    OBVIOUS
  <2>1. ASSUME NEW c \in Clients, req[c].phase = "dense"
        PROVE  /\ req[c].from.query = req[c].query /\ req[c].from.scope = User[c]
               /\ req[c].at - req[c].from.at < Ttl
    BY <2>1, HoldsNow DEF AskInductive, ReqHolds
  <2> QED BY <2>1 DEF CacheHonest, AskInductive, CacheHolds, OneEach
<1> QED BY <1>1, AskInvariantHolds, PTL

\* AnswersGrounded: HybridRagService.ask reads three times while workers cut,
\* embed and deactivate; still what it hands to the language model comes from
\* parents of one cutting of each document, readable for the caller and in
\* force, and what it answers was audited with the sources it cites.
THEOREM AnswersStayGrounded == AskSpec => []AnswersGrounded
<1>1. AskInductive => AnswersGrounded
  <2> SUFFICES ASSUME AskInductive PROVE AnswersGrounded
    OBVIOUS
  <2>1. ASSUME NEW c \in Clients, req[c].phase \in {"generate", "audit"}
        PROVE  LET used == ToSet(req[c].context)
               IN /\ \A d \in Docs : \E cut \in Chunkings[d] :
                       {e.parent : e \in used} \cap ChunksOf(d) \subseteq cut
                  /\ \A e \in used :
                       /\ e.chunk \in {e.parent, e.child} /\ Row[e.child].parent = e.parent
                       /\ \A chunk \in {e.parent, e.child} :
                            /\ Row[chunk].doc \in Reads[User[c]]
                            /\ InForce(chunk, Day(c))
                            /\ Query(c).only = {} \/ Row[chunk].doc \in Query(c).only
                  /\ req[c].phase = "audit" => req[c].cited \subseteq DOMAIN req[c].context
    <3> DEFINE q == req[c].query
               used == ToSet(req[c].context)
    <3>1. PICK parents : /\ ReadAtOnce(c, q, parents)
                         /\ req[c].context \in Seq(Entries(Findable(c, q), parents))
      BY <2>1, HoldsNow DEF AskInductive, ReqHolds
    <3>2. \A e \in used : e \in Entries(Findable(c, q), parents)
      <4> HIDE DEF q
      <4> QED BY <3>1 DEF ToSet
    <3>3. Query(c) = Text[q] /\ Day(c) = AsOf(Text[q], Today)
      BY DEF Query, Day
    <3> HIDE DEF q, used
    <3>4. ASSUME NEW e \in used
          PROVE  /\ e.chunk \in {e.parent, e.child} /\ Row[e.child].parent = e.parent
                 /\ e.parent \in parents /\ e.child \in Findable(c, q)
      BY <3>2 DEF Entries
    <3>5. \A d \in Docs : \E cut \in Chunkings[d] :
            {e.parent : e \in used} \cap ChunksOf(d) \subseteq cut
      <4>1. {e.parent : e \in used} \subseteq parents
        BY <3>4
      <4> QED BY <3>1, <4>1 DEF ReadAtOnce, OneCut
    <3>6. ASSUME NEW e \in used, NEW chunk \in {e.parent, e.child}
          PROVE  /\ Row[chunk].doc \in Reads[User[c]]
                 /\ InForce(chunk, Day(c))
                 /\ Query(c).only = {} \/ Row[chunk].doc \in Query(c).only
      <4>1. e.parent \in parents /\ e.child \in Findable(c, q) /\ Row[e.child].parent = e.parent
        BY <3>4
      <4>2. /\ e.parent \in Chunk /\ Row[e.parent].doc \in Reads[User[c]]
            /\ InForce(e.parent, AsOf(Text[q], Today))
        BY <3>1, <4>1 DEF ReadAtOnce
      <4>3. /\ e.child \in Chunk /\ Row[e.child].doc \in Reads[User[c]]
            /\ InForce(e.child, AsOf(Text[q], Today))
            /\ Text[q].only = {} \/ Row[e.child].doc \in Text[q].only
        BY <4>1 DEF Findable
      <4>4. Row[e.parent].doc = Row[e.child].doc
        <5>1. e.parent # None
          <6>1. \A p \in Chunk : p # None
            BY RetrievalBounds
          <6> QED BY <4>2, <6>1
        <5> QED BY <4>1, <4>3, <5>1, ParentsExist
      <4> QED BY <3>3, <4>2, <4>3, <4>4
    <3>7. req[c].phase = "audit" => req[c].cited \subseteq DOMAIN req[c].context
      BY HoldsNow DEF AskInductive, ReqHolds
    <3> QED BY <3>4, <3>5, <3>6, <3>7 DEF used
  <2>2. Accountable
    BY DEF AskInductive
  <2> QED BY <2>1, <2>2 DEF AnswersGrounded, Accountable
<1> QED BY <1>1, AskInvariantHolds, PTL

-----------------------------------------------------------------------------
(* The best evidence.                                                      *)

\* What a request holds of its evidence, by its phase.
EvidenceHolds(r) ==
  /\ r.phase \in {"vector", "lookup", "embed", "dense", "context"} => Len(r.lexical) <= LexicalTop
  /\ r.phase = "context" => Len(r.dense) <= DenseTop
  /\ r.phase = "generate" =>
       /\ Once(r.evidence) /\ Spread(ToSet(r.evidence))
       /\ DOMAIN r.evidence = 1..Len(r.evidence)
       /\ \E F : BuiltFrom(r.evidence, Len(r.evidence), r.context, F, r.parents)

AllEvidence == DOMAIN req = Clients /\ \A c \in Clients : EvidenceHolds(req[c])

\* Each step gives one request what its next phase needs.
LEMMA EvidenceGoesOn ==
  ASSUME AllEvidence, NEW c \in Clients, NEW r, Goto(c, r), EvidenceHolds(r)
  PROVE  AllEvidence'
<1>1. /\ DOMAIN req' = Clients
      /\ \A d \in Clients : req'[d] = IF d = c THEN r ELSE req[d]
  BY DEF AllEvidence, Goto
<1>2. \A d \in Clients : EvidenceHolds(req'[d])
  BY <1>1 DEF AllEvidence
<1> QED BY <1>1, <1>2 DEF AllEvidence

\* The searches.
LEMMA SearchesBound ==
  ASSUME AskInductive, AllEvidence, NEW c \in Clients, SearchLexical(c) \/ SearchDense(c)
  PROVE  AllEvidence'
<1> DEFINE near == DenseSearch(Query(c), Children(c))
           words == LexicalSearch(Query(c), Children(c))
<1>1. EvidenceHolds(req[c]) /\ req[c].query \in Queries
  BY HoldsNow DEF AskInductive, ReqHolds, AllEvidence, SearchLexical, SearchDense
<1>2. Len(near) <= DenseTop /\ Len(words) <= LexicalTop
  BY <1>1, ChildrenFindable, SearchesFind DEF Query
<1> HIDE DEF near, words
<1>3. CASE SearchLexical(c)
  <2> DEFINE again == [req[c] EXCEPT !.phase = "lexical again"]
             r == [phase |-> IF req[c].lexicalOnly THEN "context" ELSE "vector",
                   query |-> req[c].query, lexicalOnly |-> req[c].lexicalOnly,
                   lexical |-> words, dense |-> <<>>]
  <2>1. (Goto(c, again) /\ req[c].phase = "lexical") \/ Goto(c, r)
    BY <1>3 DEF SearchLexical, words
  <2>2. EvidenceHolds(r)
    <3>1. /\ r.phase \in {"context", "vector"} /\ r.lexical = words /\ r.dense = <<>>
          /\ Len(r.dense) <= DenseTop
      BY RetrievalBounds
    <3> HIDE DEF r
    <3> QED BY <1>2, <3>1 DEF EvidenceHolds
  <2>3. req[c].phase = "lexical" => EvidenceHolds(again)
    <3>1. req[c].phase = "lexical" => again.phase \in {"lexical", "lexical again"}
      OBVIOUS
    <3> HIDE DEF again
    <3> QED BY <3>1 DEF EvidenceHolds
  <2> HIDE DEF again, r
  <2> QED BY <2>1, <2>2, <2>3, EvidenceGoesOn
<1>4. CASE SearchDense(c)
  <2> DEFINE r == [phase |-> "context", query |-> req[c].query, lexicalOnly |-> FALSE,
                   lexical |-> req[c].lexical, dense |-> near]
  <2>1. Goto(c, r) /\ req[c].phase = "dense"
    BY <1>4 DEF SearchDense, near
  <2>2. EvidenceHolds(r)
    <3>1. r.phase = "context" /\ r.lexical = req[c].lexical /\ r.dense = near
      OBVIOUS
    <3> HIDE DEF r
    <3> QED BY <1>1, <1>2, <2>1, <3>1 DEF EvidenceHolds
  <2> HIDE DEF r
  <2> QED BY <2>1, <2>2, EvidenceGoesOn
<1> QED BY <1>3, <1>4

\* The vector of the question changes nothing that was found.
LEMMA VectorBound ==
  ASSUME AllEvidence, NEW c \in Clients, ReadClock(c) \/ LookUp(c) \/ Store(c)
  PROVE  AllEvidence'
<1>1. PICK r : Goto(c, r) /\ r.phase \in {"lookup", "embed", "dense"} /\ r.lexical = req[c].lexical
  <2>1. ASSUME NEW i, Goto(c, [phase |-> "dense", query |-> req[c].query,
                               lexical |-> req[c].lexical, from |-> cache[i].made,
                               at |-> req[c].at])
        PROVE  \E r : /\ Goto(c, r) /\ r.phase \in {"lookup", "embed", "dense"}
                      /\ r.lexical = req[c].lexical
    <3> DEFINE r == [phase |-> "dense", query |-> req[c].query,
                     lexical |-> req[c].lexical, from |-> cache[i].made,
                               at |-> req[c].at]
    <3>1. Goto(c, r) /\ r.phase = "dense" /\ r.lexical = req[c].lexical
      BY <2>1
    <3> HIDE DEF r
    <3> QED BY <3>1
  <2>2. ASSUME Goto(c, [phase |-> "embed", query |-> req[c].query,
                        lexical |-> req[c].lexical, at |-> req[c].at])
        PROVE  \E r : /\ Goto(c, r) /\ r.phase \in {"lookup", "embed", "dense"}
                      /\ r.lexical = req[c].lexical
    <3> DEFINE r == [phase |-> "embed", query |-> req[c].query,
                     lexical |-> req[c].lexical, at |-> req[c].at]
    <3>1. Goto(c, r) /\ r.phase = "embed" /\ r.lexical = req[c].lexical
      BY <2>2
    <3> HIDE DEF r
    <3> QED BY <3>1
  <2>3. CASE LookUp(c)
    BY <2>1, <2>2, <2>3 DEF LookUp
  <2>4. CASE Store(c)
    <3> DEFINE made == [query |-> req[c].query, scope |-> User[c], at |-> req[c].at]
               r == [phase |-> "dense", query |-> req[c].query, lexical |-> req[c].lexical,
                     from |-> made, at |-> req[c].at]
    <3>1. Goto(c, r) /\ r.phase = "dense" /\ r.lexical = req[c].lexical
      BY <2>4 DEF Store
    <3> HIDE DEF r
    <3> QED BY <3>1
  <2>5. CASE ReadClock(c)
    <3> DEFINE r == [phase |-> "lookup", query |-> req[c].query, lexical |-> req[c].lexical,
                     at |-> now]
    <3>1. Goto(c, r) /\ r.phase = "lookup" /\ r.lexical = req[c].lexical
      BY <2>5 DEF ReadClock
    <3> HIDE DEF r
    <3> QED BY <3>1
  <2> QED BY <2>3, <2>4, <2>5
<1>2. EvidenceHolds(req[c]) /\ req[c].phase \in {"vector", "lookup", "embed"}
  BY DEF AllEvidence, ReadClock, LookUp, Store
<1>3. EvidenceHolds(r)
  BY <1>1, <1>2 DEF EvidenceHolds
<1> QED BY <1>1, <1>3, EvidenceGoesOn

\* The context is built from the whole evidence.
LEMMA ParentsBound ==
  ASSUME AskInductive, AllEvidence, NEW c \in Clients, ReadParents(c)
  PROVE  AllEvidence'
<1> DEFINE q == req[c].query
           F == Findable(c, q)
           e == Evidence(c)
           parents == Parents(c)
           context == BuildContext(e, parents)
           r1 == [phase |-> "audit", query |-> q, context |-> <<>>, cited |-> {}]
           r2 == [phase |-> "generate", query |-> q, context |-> context,
                  evidence |-> e, parents |-> parents]
<1>1. req[c].phase = "context" /\ (Goto(c, r1) \/ Goto(c, r2))
  BY DEF ReadParents
<1>2. q \in Queries /\ req[c].lexical \in Seq(F) /\ req[c].dense \in Seq(F)
  BY <1>1, HoldsNow DEF AskInductive, ReqHolds
<1>3. F \in SUBSET Chunk /\ parents \in SUBSET Chunk
  BY DEF Findable, Parents
<1>4. EvidenceFrom(e, F) /\ Once(e) /\ Spread(ToSet(e))
  <2> HIDE DEF F, q
  <2> QED BY <1>2, <1>3, CandidatesFrom DEF Evidence, Query, q
<1> HIDE DEF F, e, parents
<1>5. e \in Seq(Evidences(F)) /\ DOMAIN e = 1..Len(e)
  BY <1>4 DEF EvidenceFrom
<1>6. \A i, j \in DOMAIN e : e[i].id = e[j].id => i = j
  <2>1. \A i \in DOMAIN e : e[i] \in ToSet(e)
    BY DEF ToSet
  <2> QED BY <1>4, <2>1 DEF EvidenceFrom, Apart, Once
<1>7. BuiltFrom(e, Len(e), context, F, parents)
  BY <1>3, <1>5, <1>6, ContextCovers
<1> HIDE DEF context
<1>8. EvidenceHolds(r1)
  <2>1. r1.phase = "audit"
    OBVIOUS
  <2> HIDE DEF r1
  <2> QED BY <2>1 DEF EvidenceHolds
<1>9. EvidenceHolds(r2)
  <2>1. r2.phase = "generate" /\ r2.context = context /\ r2.evidence = e /\ r2.parents = parents
    OBVIOUS
  <2> HIDE DEF r2
  <2> QED BY <1>4, <1>5, <1>7, <2>1 DEF EvidenceHolds
<1> HIDE DEF r1, r2
<1> QED BY <1>1, <1>8, <1>9, EvidenceGoesOn

\* Every other step starts a request, ends it or leaves its evidence behind.
LEMMA EvidenceKept ==
  ASSUME AskInductive, AllEvidence, [AskNext]_asking
  PROVE  AllEvidence'
<1>1. CASE UNCHANGED req
  BY <1>1 DEF AllEvidence
<1>2. ASSUME NEW c \in Clients,
             \/ \E q \in Queries, lexicalOnly \in BOOLEAN : Ask(c, q, lexicalOnly)
             \/ Generate(c) \/ Answer(c) \/ Fail(c)
      PROVE  AllEvidence'
  <2>1. ASSUME NEW r, r.phase \in {"lexical", "audit", "idle"}, Goto(c, r)
        PROVE  AllEvidence'
    <3>1. EvidenceHolds(r)
      BY <2>1 DEF EvidenceHolds
    <3> QED BY <2>1, <3>1, EvidenceGoesOn
  <2>2. ASSUME NEW q, NEW lexicalOnly, Ask(c, q, lexicalOnly) PROVE AllEvidence'
    <3> DEFINE r == [phase |-> "lexical", query |-> q, lexicalOnly |-> lexicalOnly]
    <3>1. Goto(c, r) /\ r.phase = "lexical"
      BY <2>2 DEF Ask
    <3> HIDE DEF r
    <3> QED BY <2>1, <3>1
  <2>3. ASSUME NEW cited,
               Goto(c, [phase |-> "audit", query |-> req[c].query,
                        context |-> req[c].context, cited |-> cited])
        PROVE  AllEvidence'
    <3> DEFINE r == [phase |-> "audit", query |-> req[c].query,
                     context |-> req[c].context, cited |-> cited]
    <3>1. Goto(c, r) /\ r.phase = "audit"
      BY <2>3
    <3> HIDE DEF r
    <3> QED BY <2>1, <3>1
  <2>4. CASE Generate(c)
    BY <2>3, <2>4 DEF Generate
  <2>5. CASE Answer(c) \/ Fail(c)
    <3>1. Goto(c, Waiting) /\ Waiting.phase = "idle"
      BY <2>5 DEF Answer, Fail, Waiting
    <3> QED BY <2>1, <3>1
  <2> QED BY <1>2, <2>2, <2>4, <2>5
<1>3. ASSUME NEW c \in Clients,
             \/ SearchLexical(c) \/ ReadClock(c) \/ LookUp(c) \/ Store(c) \/ SearchDense(c)
             \/ ReadParents(c)
      PROVE  AllEvidence'
  BY <1>3, SearchesBound, VectorBound, ParentsBound
<1>4. CASE Tick \/ \E d \in Docs : Rechunk(d) \/ Embed(d) \/ Deactivate(d)
  BY <1>1, <1>4 DEF Tick, Rechunk, Embed, Deactivate, Change
<1>5. CASE UNCHANGED asking
  BY <1>1, <1>5 DEF asking
<1> QED BY <1>2, <1>3, <1>4, <1>5 DEF AskNext

\* BestEvidence: fusion, reranking, translations and the two bounds of
\* _build_context together lose no evidence and put none behind worse.
THEOREM EvidenceIsBest == AskSpec => []BestEvidence
<1>1. AskInit => AllEvidence
  <2> SUFFICES ASSUME AskInit PROVE AllEvidence
    OBVIOUS
  <2>1. DOMAIN req = Clients /\ \A c \in Clients : req[c].phase = "idle"
    BY DEF AskInit, Waiting
  <2> QED BY <2>1 DEF AllEvidence, EvidenceHolds
<1>2. AskInductive /\ AllEvidence /\ [AskNext]_asking => AllEvidence'
  BY EvidenceKept
<1>3. AskInductive /\ AllEvidence => BestEvidence
  <2> SUFFICES ASSUME AskInductive, AllEvidence PROVE BestEvidence
    OBVIOUS
  <2>1. ASSUME NEW c \in Clients, req[c].phase = "context",
               NEW i \in DOMAIN Fused(req[c].lexical, req[c].dense),
               NEW j \in DOMAIN Fused(req[c].lexical, req[c].dense),
               NoWorse(Fused(req[c].lexical, req[c].dense)[i].lexical,
                       Fused(req[c].lexical, req[c].dense)[j].lexical),
               NoWorse(Fused(req[c].lexical, req[c].dense)[i].dense,
                       Fused(req[c].lexical, req[c].dense)[j].dense)
        PROVE  i <= j
    <3> DEFINE F == Findable(c, req[c].query)
    <3>1. req[c].lexical \in Seq(F) /\ req[c].dense \in Seq(F)
      BY <2>1, HoldsNow DEF AskInductive, ReqHolds
    <3>2. Len(req[c].lexical) <= LexicalTop /\ Len(req[c].dense) <= DenseTop
      BY <2>1 DEF AllEvidence, EvidenceHolds
    <3>3. F \in SUBSET Chunk
      BY DEF Findable
    <3> HIDE DEF F
    <3> QED BY <2>1, <3>1, <3>2, <3>3, FusedInOrder
  <2>2. ASSUME NEW c \in Clients, req[c].phase = "generate"
        PROVE  /\ \A i, j \in DOMAIN req[c].evidence :
                    i # j => \/ Row[req[c].evidence[i].id].group = None
                             \/ Row[req[c].evidence[i].id].group # Row[req[c].evidence[j].id].group
               /\ TokensOf(req[c].context) <= MaxTokens /\ Len(req[c].context) <= MaxChunks
               /\ \A i, j \in DOMAIN req[c].context :
                    req[c].context[i].parent = req[c].context[j].parent => i = j
               /\ \A i \in DOMAIN req[c].evidence :
                    Covered(req[c].evidence, i, req[c].context, req[c].parents)
    <3> DEFINE e == req[c].evidence
               context == req[c].context
    <3>1. PICK F : /\ Once(e) /\ Spread(ToSet(e)) /\ DOMAIN e = 1..Len(e)
                   /\ BuiltFrom(e, Len(e), context, F, req[c].parents)
      BY <2>2 DEF AllEvidence, EvidenceHolds
    <3> HIDE DEF e, context
    <3>2. \A i, j \in DOMAIN e :
            i # j => Row[e[i].id].group = None \/ Row[e[i].id].group # Row[e[j].id].group
      <4>1. \A i \in DOMAIN e : e[i] \in ToSet(e)
        BY DEF ToSet
      <4> QED BY <3>1, <4>1 DEF Once, Spread
    <3> QED BY <3>1, <3>2 DEF BuiltFrom, e, context
  <2> QED BY <2>1, <2>2 DEF BestEvidence, NoWorse, Covered, RefusedAt
<1> QED BY <1>1, <1>2, <1>3, AskInvariantHolds, PTL DEF AskSpec
=============================================================================
