CONSTANTS
  clerk = clerk
  head = head
  d1 = d1
  d2 = d2
  a1 = a1
  a2 = a2
  t1 = t1
  t2 = t2
  Terminals = {t1, t2}
  MaxScripts = 3
  MaxChanges = 1
  Administrators = {a1, a2}
  Staff <- Officers
  RoleOf <- Posts
  BusinessRoles = {"clerk_role", "head_role"}
  Mappers <- Expected
  MaxRuns = 2
  MaxEdits = 1
  Candidates <- Inventory
  MaxDocuments = 1
  MaxRetries = 1
  MaxMishaps = 2
SPECIFICATION OperationsSpec
INVARIANTS PassedIsInstalled NoDeadEnd AppliedIsExact PasswordsFollow
PROPERTIES CorpusFinishes
CHECK_DEADLOCK FALSE
