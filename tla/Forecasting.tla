----------------------------- MODULE Forecasting -----------------------------
(***************************************************************************)
(* The forecast store: operators build immutable feature snapshots from a  *)
(* source that is corrected now and then, train and compare models on the  *)
(* latest snapshot, keep their predictions and promote a champion.  Every  *)
(* command is one transaction; what it read when it began may be old when  *)
(* it commits, and ids are hashes of contents, so that building or         *)
(* training the same thing twice finds the rows of the first time.         *)
(***************************************************************************)
EXTENDS Ordering, SequencesExt

CONSTANTS
  Workers,          \* operators running commands
  Sources,          \* states of the source table: sets of [entity, month, value]
  Cutoffs,          \* data cutoffs the operators use
  Naive, Ets,       \* the baseline and its challenger
  ModelLists,       \* --models: lists of them
  EtsForecast(_, _, _),  \* what the challenger says of the i-th month after its input
  MinTraining,      \* forecast_min_train_periods
  Horizon,          \* forecast_default_horizon_months: of backtests and stored rows
  OnDemandHorizon,  \* of a forecast on demand: 12 in the code, whatever the setting
  Step,             \* forecast_backtest_step_months
  MaxFolds,         \* forecast_backtest_folds
  Season,           \* forecast_season_length
  MaxCommands       \* bound of the model on the commands that start

ASSUME ForecastBounds ==
  {MinTraining, Horizon, OnDemandHorizon, Step, MaxFolds, Season} \subseteq Nat \ {0}

VARIABLES
  source,           \* the source table
  snapshots,        \* snapshot ids in the order of created_at
  rows,             \* feature_row_id -> snapshot it was stored under
  runs,             \* training_run: set of [snapshot, models, selected, completed]
  predictions,      \* prediction rows
  champions,        \* versions whose approval_status is champion
  op,               \* worker -> the command it is running
  clock             \* commands started

vars == <<source, snapshots, rows, runs, predictions, champions, op, clock>>
-----------------------------------------------------------------------------
(* Backtesting. *)

\* Pairs <<train_end, test_end>>: the last MaxFolds of those that fit.
RollingOrigins(length) ==
  LET fits == {n \in MinTraining..length : /\ (n - MinTraining) % Step = 0
                                           /\ n + Horizon <= length}
      all  == Ranked(fits, <)
  IN {<<all[i], all[i] + Horizon>> : i \in {j \in DOMAIN all : j > Len(all) - MaxFolds}}

SeasonalNaive(train, horizon) ==
  [i \in 1..horizon |-> train[Len(train) - Season + 1 + ((i - 1) % Season)]]

ForecastValues(model, train, horizon) ==
  IF model = Naive THEN SeasonalNaive(train, horizon)
  ELSE [i \in 1..horizon |-> EtsForecast(train, i, Season)]

\* Each model refuses to forecast from less than it needs.
Enough(model, train) == Len(train) >= IF model = Naive THEN Season ELSE 2 * Season

Values(points) == [i \in DOMAIN points |-> points[i].value]

Folds(series) ==
  UNION {{[points |-> series[e], train |-> f[1], test |-> f[2]] :
            f \in RollingOrigins(Len(series[e]))} : e \in DOMAIN series}

Training(f) == Top(Values(f.points), f.train)

AbsoluteError(model, f) ==
  LET predicted == ForecastValues(model, Training(f), f.test - f.train)
      Gap(i) == predicted[i] - f.points[f.train + i].value
  IN FoldLeft(LAMBDA sum, i : sum + (IF Gap(i) < 0 THEN -Gap(i) ELSE Gap(i)), 0,
              [i \in 1..(f.test - f.train) |-> i])

\* The numerators of WAPE: all models are judged on the same actual values,
\* and nobody is told apart where these are zero.
Wape(model, series) ==
  IF \A f \in Folds(series) : \A i \in (f.train + 1)..f.test : f.points[i].value = 0 THEN 0
  ELSE MapThenSumSet(LAMBDA f : AbsoluteError(model, f), Folds(series))

Evaluable(models, series) ==
  /\ Folds(series) # {}
  /\ \A m \in ToSet(models), f \in Folds(series) : Enough(m, Training(f))

\* min() keeps the first of equals.
Best(models, series) ==
  models[CHOOSE i \in DOMAIN models :
           /\ \A j \in DOMAIN models : Wape(models[i], series) <= Wape(models[j], series)
           /\ \A j \in 1..(i - 1) : Wape(models[i], series) < Wape(models[j], series)]

\* A challenger must strictly beat the baseline.
SelectChampion(models, series) ==
  LET best == Best(models, series)
  IN IF Wape(best, series) < Wape(Naive, series) THEN best ELSE Naive
-----------------------------------------------------------------------------
(* Features. *)

\* The rows of a cutoff, and the id their hash gives the snapshot.
FeatureRows(table, cutoff) == {r \in table : r.month < cutoff}
Snapshot(table, cutoff) == [cutoff |-> cutoff, rows |-> FeatureRows(table, cutoff)]

\* feature_row_id: a hash of the row, its cutoff included, its snapshot not.
RowId(r, cutoff) == <<cutoff, r>>

StoredUnder(s) == {id[2] : id \in {i \in DOMAIN rows : rows[i] = s}}

\* Per entity the stored rows in the order of their dates.
Series(stored) ==
  [e \in {r.entity : r \in stored} |->
     Ranked({r \in stored : r.entity = e}, LAMBDA p, q : p.month < q.month)]

Freshest(series) ==
  {e \in DOMAIN series : \A d \in DOMAIN series : Last(series[d]).month <= Last(series[e]).month}

\* What a model says of the months after the last one of each live entity.
Predictions(model, s, series, horizon) ==
  UNION {LET said == ForecastValues(model, Values(series[e]), horizon)
         IN {[entity |-> e, month |-> Last(series[e]).month + i, ahead |-> i,
              value |-> said[i], version |-> <<model, s>>] :
                i \in 1..horizon} : e \in Freshest(series)}

\* forecast: what a version says of the rows stored under its snapshot now.
OnDemand(version) ==
  Predictions(version[1], version[2], Series(StoredUnder(version[2])), OnDemandHorizon)
-----------------------------------------------------------------------------
Idle == [command |-> "none"]

Init ==
  /\ source \in Sources
  /\ snapshots = <<>> /\ rows = <<>> /\ runs = {} /\ predictions = {} /\ champions = {}
  /\ op = [w \in Workers |-> Idle]
  /\ clock = 0

Correct ==
  /\ source' \in Sources \ {source}
  /\ UNCHANGED <<snapshots, rows, runs, predictions, champions, op, clock>>

Starts(w, command) ==
  /\ op[w] = Idle /\ clock < MaxCommands
  /\ clock' = clock + 1
  /\ op' = [op EXCEPT ![w] = command]
  /\ UNCHANGED <<source, snapshots, rows, runs, predictions, champions>>

\* now() is the moment the transaction began, and orders created_at.
BuildStart(w, cutoff) ==
  Starts(w, [command |-> "build", at |-> clock, snapshot |-> Snapshot(source, cutoff)])

MutantStored(new, s) ==
  [id \in DOMAIN rows \cup new |-> IF id \in new THEN s ELSE rows[id]]

\* ON CONFLICT DO NOTHING: a row that is there keeps its snapshot.
Stored(new, s) ==
  [id \in DOMAIN rows \cup new |-> IF id \in DOMAIN rows THEN rows[id] ELSE s]

Known == {snapshots[i].id : i \in DOMAIN snapshots}

\* A snapshot that is there keeps its created_at.
BuildCommit(w) ==
  /\ op[w].command = "build"
  /\ LET s   == op[w].snapshot
     IN /\ rows' = Stored({RowId(r, s.cutoff) : r \in s.rows}, s)
        /\ snapshots' =
             IF s \in Known THEN snapshots
             ELSE Ranked(ToSet(snapshots) \cup {[id |-> s, at |-> op[w].at]},
                         LAMBDA x, y : x.at < y.at)
  /\ op' = [op EXCEPT ![w] = Idle]
  /\ UNCHANGED <<source, runs, predictions, champions, clock>>
-----------------------------------------------------------------------------
Completed == {r \in runs : \A q \in runs : q.completed <= r.completed}

\* The latest snapshot is not the one the latest run was trained on.
RefreshRequired ==
  \/ runs = {}
  \/ \E r \in Completed : r.snapshot # Last(snapshots).id

\* train reads the latest snapshot and its rows; refresh-stale trains only
\* when the snapshot is newer than the predictions.
TrainStart(w, models, refresh) ==
  /\ snapshots # <<>> /\ (refresh => RefreshRequired)
  /\ Naive \in ToSet(models)
  /\ LET s == Last(snapshots).id
         series == Series(StoredUnder(s))
     IN /\ Evaluable(models, series)
        /\ Starts(w, [command |-> "train", at |-> clock, snapshot |-> s, models |-> models,
                      series |-> series])

\* A run with the id of an earlier one completes it anew.
TrainCommit(w) ==
  /\ op[w].command = "train"
  /\ LET s      == op[w].snapshot
         model  == SelectChampion(op[w].models, op[w].series)
         run    == [snapshot |-> s, models |-> op[w].models, selected |-> <<model, s>>,
                    completed |-> op[w].at]
         same   == {r \in runs : r.snapshot = s /\ r.models = op[w].models}
         said   == Predictions(model, s, op[w].series, Horizon)
         fresh  == {p \in said : \A q \in predictions :
                      <<q.entity, q.month, q.version>> # <<p.entity, p.month, p.version>>}
     IN /\ \A e \in Freshest(op[w].series) : Enough(model, op[w].series[e])
        /\ runs' = (runs \ same) \cup {run}
        /\ predictions' = predictions \cup fresh
  /\ op' = [op EXCEPT ![w] = Idle]
  /\ UNCHANGED <<source, snapshots, rows, champions, clock>>

\* The champion rows the first UPDATE of the promotion sees.
PromoteStart(w, run) ==
  Starts(w, [command |-> "promote", version |-> run.selected, retires |-> champions])

MutantUnique(set) == TRUE
Unique(set) == Cardinality(set) <= 1

\* uq_one_champion_per_target refuses a second champion and with it the
\* whole promotion.
PromoteCommit(w) ==
  /\ op[w].command = "promote"
  /\ LET next == (champions \ op[w].retires) \cup {op[w].version}
     IN champions' = IF Unique(next) THEN next ELSE champions
  /\ op' = [op EXCEPT ![w] = Idle]
  /\ UNCHANGED <<source, snapshots, rows, runs, predictions, clock>>

\* The process dies or the statement fails: the transaction rolls back.
Abort(w) ==
  /\ op[w] # Idle
  /\ op' = [op EXCEPT ![w] = Idle]
  /\ UNCHANGED <<source, snapshots, rows, runs, predictions, champions, clock>>

Next ==
  \/ Correct
  \/ \E w \in Workers :
       \/ \E cutoff \in Cutoffs : BuildStart(w, cutoff)
       \/ \E models \in ModelLists, refresh \in BOOLEAN :
            TrainStart(w, models, refresh)
       \/ \E run \in runs : PromoteStart(w, run)
       \/ BuildCommit(w) \/ TrainCommit(w) \/ PromoteCommit(w) \/ Abort(w)

Spec == Init /\ [][Next]_vars
-----------------------------------------------------------------------------
(* Whatever was built, trained and corrected since, forecasting again from *)
(* the snapshot of a run tells the same of every entity and month that the *)
(* run stored a prediction for, as far as both look ahead: what forecast   *)
(* --compare-precomputed compares where the horizons are equal.  Where     *)
(* they are not, either side alone has the months the other leaves out.    *)
ForecastReproducible ==
  \A r \in runs :
    {p \in predictions : p.version = r.selected /\ p.ahead <= OnDemandHorizon} =
      {p \in OnDemand(r.selected) : p.ahead <= Horizon}

(* There is one champion at most, through any overlap of promotions, and   *)
(* it is the baseline or beats the baseline on the data it was trained on. *)
ChampionEarned ==
  /\ Cardinality(champions) <= 1
  /\ \A v \in champions :
       /\ \E r \in runs : r.selected = v
       /\ v[1] = Naive \/ LET series == Series(StoredUnder(v[2]))
                          IN Wape(v[1], series) < Wape(Naive, series)

(* "Recompute one entity's forecast from an immutable feature snapshot":   *)
(* what is stored under a snapshot is what its hash was computed from.     *)
SnapshotWhole ==
  \A i \in DOMAIN snapshots : StoredUnder(snapshots[i].id) = snapshots[i].id.rows
=============================================================================
