CONSTANTS
  intro = intro
  clause = clause
  annex = annex
  long = long
  short = short
  changed = changed
  blank = blank
  doubtful = doubtful
  broken = broken
  w1 = w1
  w2 = w2
  v1 = v1
  v2 = v2
  v3 = v3
  NoText = NoText
  Workers = {w1, w2}
  Commands = {"upload", "deactivate"}
  Contents = {v1, v2}
  FirstContent = v1
  Texts = {long, changed}
  Verdict <- Decisions
  Children <- AllChildren
  ChildrenOf <- Cut
  Ordinal <- Positions
  FailedStatus = "review_required"
  Provisional = FALSE
  MaxVersions = 2
  MaxMishaps = 0
SPECIFICATION Spec
INVARIANTS RegisteredVersions OneActivePerPosition
CHECK_DEADLOCK FALSE
SYMMETRY Symmetry
VIEW Effects
