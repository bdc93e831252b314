CONSTANTS
  Queries = {q1, q2}
  Requests <- MCRequests
  Text <- MCText
  Active = "dense"
  Offline = "hash"
  Nobody = Nobody
  Hook = Hook
  MaxChanges = 3
  MaxRequests = 2
  MaxWarnings = 1
SPECIFICATION Spec
INVARIANTS
  AnswersSeeAcks
  IndexIsOfTheGraph
  SemanticLossIsReported
SYMMETRY Symmetry
CHECK_DEADLOCK FALSE
