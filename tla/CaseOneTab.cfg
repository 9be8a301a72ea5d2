SPECIFICATION Spec
CONSTANTS
  dina = dina
  nils = nils
  hana = hana
  alex = alex
  d1 = d1
  n1 = n1
  n2 = n2
  h1 = h1
  h2 = h2
  a1 = a1
  Nobody = Nobody
  Users <- Staff
  Tabs <- OneTab
  UserOf <- OneTabUser
  RolesOf <- OneTabRoles
  Recipients <- OneTabRecipients
  Delegates <- Staff
  MaxTransitions = 7
  MaxMessages = 2
CHECK_DEADLOCK FALSE
INVARIANT VerifierNeverDecides
PROPERTY LifecycleSpec
