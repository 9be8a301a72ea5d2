SPECIFICATION FairSpec
CONSTANTS
  dina = dina
  nils = nils
  hana = hana
  alex = alex
  d1 = d1
  n1 = n1
  n2 = n2
  h1 = h1
  h2 = h2
  a1 = a1
  Nobody = Nobody
  Users <- MixedStaff
  Tabs <- MixedTabs
  UserOf <- MixedUser
  RolesOf <- MixedRoles
  Recipients <- MixedRecipients
  Delegates <- MixedStaff
  MaxTransitions = 4
  MaxMessages = 2
CHECK_DEADLOCK FALSE
INVARIANTS MakerNeverChecks HandoverIsWhole
PROPERTY EveryRequestEnds
