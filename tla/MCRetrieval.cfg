SPECIFICATION SearchSpec
CONSTANTS
  Nodes <- MCNodes
  NodeRank <- MCNodeRank
  Kind <- MCKind
  Path <- MCPath
  Edges <- MCEdges
  Source <- MCSource
  Target <- MCTarget
  Type <- MCType
  Conf <- MCConf
  Searches <- MCSearches
  Missing <- MCMissing
  TestDir <- MCTestDir
  Support <- MCSupport
  Damping <- MCDamping
  Drain <- MCDrain
  DenseAbove = 2
  DenseFloor = 5
  TightFloor = 5
  CallHops = 6
  BeamWidth = 32
INVARIANTS
  PacketIsSound
  DirectAnswersFirst
  LargerBudgetsExtend
CHECK_DEADLOCK FALSE
