CONSTANTS
  intro = intro
  clause = clause
  annex = annex
  long = long
  short = short
  changed = changed
  blank = blank
  doubtful = doubtful
  broken = broken
  w1 = w1
  w2 = w2
  v1 = v1
  v2 = v2
  v3 = v3
  NoText = NoText
  Workers = {w1}
  Commands = {"force", "deactivate", "upload"}
  Contents = {v1, v2}
  FirstContent = v1
  Texts = {long, short, blank}
  Verdict <- Decisions
  Children <- AllChildren
  ChildrenOf <- Cut
  Ordinal <- Positions
  FailedStatus = "review_required"
  Provisional = FALSE
  MaxVersions = 2
  MaxMishaps = 2
SPECIFICATION FairSpec
INVARIANTS IndexIsCurrent IndexedIsEmbedded
PROPERTY Settles
VIEW Effects
CHECK_DEADLOCK FALSE
