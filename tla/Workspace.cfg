SPECIFICATION Spec
CONSTANTS
  asha = asha
  demoDo = demoDo
  c1 = c1
  k1 = k1
  None = None
  Accounts = {asha}
  Tenants = {}
  Officers = {asha}
  Identities = {demoDo}
  Chats = {c1}
  Cases = {k1}
  Lifetime = 1
  MaxTime = 1
  MaxLogins = 2
  MaxTrips = 2
  MaxCallbacks = 2
  MaxTasks = 3
CHECK_DEADLOCK FALSE
INVARIANTS OneQuestion SessionsExact
PROPERTY LastTripOnly
CONSTRAINT FewDetours
