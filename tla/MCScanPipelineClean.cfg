SPECIFICATION Spec
CONSTANTS
  Files <- MCFiles
  Types <- MCTypes
  Attrs <- MCAttrs
  Names <- MCNames
  Packages = {"pkg"}
  Tests = {"app"}
  Family <- MCFamily
  ClassScoped = {}
  Stem <- MCStem
  Nearness <- MCNear
  TextIds <- MCTextIds
  Content <- MCContent
  TextsOf <- MCTextsOf
  Trees <- MCTrees
  Batches <- MCBatches
  Requests <- MCRequests
  Outsiders = {"http"}
  MaxEdits = 2
INVARIANT IncrementalEqualsClean
CHECK_DEADLOCK FALSE
