\* The pool, its budget, its records, and the decisions and rescore after it.
CONSTANTS
  one = one
  two = two
  clean = clean
  red = red
  broken = broken
  r1 = r1
  r2 = r2
  Tolerance = 5
  Absent = Absent
  Outside = Outside
  Refused = Refused
  Garbled = Garbled
  Fixture <- MCFixture
  Works <- MCWorks
  Fresh <- MCFresh
  Runs <- MCRuns
  MaxUnits = 4
  Workers = 2
  Retries = 1
  Costs = {1}
  a1 = a1
  a2 = a2
  MaxFaults = 2
SPECIFICATION Spec
CHECK_DEADLOCK FALSE
INVARIANT ExitCodeTellsTheTruth
INVARIANT OverspendIsInFlight
INVARIANT MissKeepsItsWorkspace
INVARIANT CaughtIsProof
INVARIANT RescoreAgrees
PROPERTY DecisionsStand
PROPERTY PoolSpec
PROPERTY RunEnds
