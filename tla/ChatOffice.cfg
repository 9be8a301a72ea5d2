SPECIFICATION FairSpec
CONSTANTS
  ann = ann
  bob = bob
  ann1 = ann1
  ann2 = ann2
  bob1 = bob1
  key = key
  NoKey = NoKey
  Nobody = Nobody
  Subjects <- People
  Tabs <- Clients
  UserOf <- LoggedIn
  Founder = ann
  Eligible <- Anyone
  Uses <- Habits
  KeysOf <- KeyPerClient
  Ways <- ChatOrJson
  Mishaps = {"disconnect", "crash", "db_error"}
  MaxMessages = 3
  MaxHandoffs = 1
  MaxMishaps = 1
CHECK_DEADLOCK FALSE
INVARIANTS GenerationsApart AnswersInOrder OwnerChain
PROPERTY EveryRequestEnds
