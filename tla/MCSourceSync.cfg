CONSTANTS
  Paths = {p1, p2}
  Contents = {c1, c2}
  Gone = Gone
  Unreadable = Unreadable
  MaxCommits = 2
  MaxChanges = 4
SPECIFICATION Spec
INVARIANTS
  NoSilentStaleness
  SyncBringsUpToDate
SYMMETRY Symmetry
