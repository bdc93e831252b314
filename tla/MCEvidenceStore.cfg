SPECIFICATION Spec
CONSTANTS
  Procs = {"old", "new"}
  NoProc = "nobody"
  Release <- MCRelease
  Forcing = {"new"}
  Failing <- MCFailing
  Order <- MCOrder
  Contents = {"c0", "c2"}
  None = "none"
  Found <- MCFound
  Owner = "def"
  Tests <- MCTests
  MaxNodes = 2
  MaxEdges = 2
  Unlimited = 9
  Requests <- MCRequests
  Legacy <- MCLegacy
  MaxEdits = 1
  MaxScans = 1
  MaxRefreshes = 3
  MaxFaults = 1
INVARIANTS TypeOK ReuseIsCollecting RowsAreOfTheRelease LedgersConserve LimitsAreSpentInOrder
CHECK_DEADLOCK FALSE
