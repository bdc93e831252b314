SPECIFICATION Spec
CONSTANTS
  Procs = {p1, p2}
  NoProc = nobody
  Stores = {"memory"}
  Journals = {"episodes"}
  Versioned = {"memory", "episodes"}
  Ids = {"a", "b"}
  Rows <- MCRows
  Split <- MCSplit
  NoId = "none"
  Batches <- MCBatches
  OldStores <- MCOldStores
  OldTexts <- MCOldTexts
  MaxWork = 3
  MaxCrashes = 1
INVARIANTS TypeOK ReadersSeeAcks JournalWhole CrashCostsOneRow
PROPERTIES RecordsKept SupersededStaysInactive
CHECK_DEADLOCK FALSE
SYMMETRY Symmetry
