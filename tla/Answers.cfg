SPECIFICATION AskSpec
CONSTANTS
  alice = alice
  bob = bob
  c1 = c1
  c2 = c2
  lease = lease
  rules = rules
  what = what
  then = then
  english = english
  hindi = hindi
  None = None
  Row <- MCRow
  RrfK = 1
  LexicalTop = 3
  DenseTop = 3
  RerankInput = 4
  RerankOutput = 3
  MinScore = None
  MaxChunks = 2
  MaxTokens = 10
  Clients = {c1, c2}
  User <- MCUser
  Queries = {what, then}
  Text <- MCText
  Reads <- MCReads
  Today = 6
  Chunkings <- MCChunkings
  Drafts <- MCDrafts
  MaxEntries = 1
  Ttl = 1
  MaxTime = 1
  MaxAsks = 2
  MaxChanges = 2
CHECK_DEADLOCK FALSE
INVARIANTS AnswersGrounded CacheHonest BestEvidence
