CONSTANTS
  Writers = {w1}
  Rescanners = {w1}
  node = node
  edge = edge
  Keys = {node, edge}
  Ends <- MCEnds
  Vals = {v}
  Absent = Absent
  Untouched = Untouched
  NoGraph = NoGraph
  MaxRecords = 2
  Crashes = TRUE
  SameTick = FALSE
SPECIFICATION Spec
PROPERTIES
  NeverAMixture
