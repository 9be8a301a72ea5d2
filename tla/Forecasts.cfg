SPECIFICATION Spec
CONSTANTS
  north = north
  south = south
  w1 = w1
  w2 = w2
  Naive = seasonal_naive
  Ets = ets
  EtsForecast <- MCEts
  ModelLists <- MCModelLists
  Workers = {w1, w2}
  Sources <- MCSources
  Cutoffs = {4, 5}
  MinTraining = 2
  Horizon = 1
  OnDemandHorizon = 2
  Step = 1
  MaxFolds = 2
  Season = 1
  MaxCommands = 5
CHECK_DEADLOCK FALSE
INVARIANTS ForecastReproducible ChampionEarned
SYMMETRY Symmetry
