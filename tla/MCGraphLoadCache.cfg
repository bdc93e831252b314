CONSTANTS
  Loaders = {l1}
  Writers = {w1, w2}
  Local = {w1}
  Rescanners = {w2}
  MaxCommits = 3
  MaxWrites = 5
SPECIFICATION Spec
INVARIANTS
  HitsAreCurrent
  LoadKeepsCommits
