CONSTANTS
  c1 = c1
  c2 = c2
  k1 = k1
  k2 = k2
  identity = identity
  note = note
  patientNote = patientNote
  source = source
  Domains = {"asset"}
  Views = {"view"}
  Tables = {"table"}
  Columns = {identity, note, patientNote, source}
  NameMatches <- Named
  Provenance = {source}
  MaxRows = 2
  MaxColumns = 2
  Clients = {c1, c2}
  Chats = {k1, k2}
  Questions <- Asked
  PoolSize = 3
  MaxStarts = 2
  MaxCrashes = 1
SPECIFICATION FairSpec
INVARIANTS PoolAccounted ReadyIsEmbedded AnswersAudited PlansInside
PROPERTIES EveryRequestEnds AttachmentSettles
CHECK_DEADLOCK FALSE
