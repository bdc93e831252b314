CONSTANTS
  Procs = {p1, p2, p3}
  Inodes = {i1, i2, i3}
  NoProc = NoProc
  NoInode = NoInode
  Timeout = 2
SPECIFICATION FairSpec
INVARIANTS
  MutualExclusion
  StampNamesHolder
  NoAbandonedLock
PROPERTIES
  ImplementsMutex
  WaitEnds
