CONSTANTS
  Queries = {q1, q2}
  Keys = {k1, k2, k3}
  Contents = {c1, c2}
  NoKey = NoKey
  NoContent = NoContent
  MaxEntries = 2
  MaxWrites = 2
  MaxRecords = 1
SPECIFICATION Spec
INVARIANTS
  TypeOK
  StatStandsForHash
  HitsMatchBase
PROPERTIES
  CommitsKeepOthers
SYMMETRY Symmetry
