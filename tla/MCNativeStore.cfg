CONSTANTS
  Writers = {w1, w2}
  Rescanners = {w2}
  node = node
  edge = edge
  Keys = {node, edge}
  Ends <- MCEnds
  Vals = {v}
  Absent = Absent
  Untouched = Untouched
  NoGraph = NoGraph
  MaxRecords = 2
  Crashes = TRUE
  SameTick = TRUE
SPECIFICATION Spec
INVARIANTS
  TypeOK
  CommittedStateIsVisible
PROPERTIES
  DeletedNodeTakesItsEdges
