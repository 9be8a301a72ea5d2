SPECIFICATION Spec
CONSTANTS
  daily = daily
  monthly = monthly
  cess = cess
  gst = gst
  port = port
  maker = maker
  fin = fin
  c1 = c1
  c2 = c2
  Open = Open
  MonthStarts = {0, 4, 8, 12}
  YearStarts = {4}
  MaxSegments = 4
  Paisa = 10
  Rules <- MCRules
  Content <- MCContent
  Old = {cess, gst}
  Makers = {maker}
  Verdicts <- MCVerdicts
  Clients = {c1, c2}
  Requests <- MCRequests
  MaxTime = 1
  MaxSaved = 2
CHECK_DEADLOCK FALSE
INVARIANTS FollowsCalendar TotalsAgree NeverAmbiguous RecordedStands
SYMMETRY Symmetry
