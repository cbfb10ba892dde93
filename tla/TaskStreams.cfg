\* Two CPUs and one thread that moves between them.
CONSTANTS
  CPUs = 2
  Threads = {1}
  NoTid <- MCNoTid
  MaxClock = 6
  MaxPsbs = 1
  MaxOverflows = 1
SPECIFICATION Spec
INVARIANTS
  RunByTask
  NothingLost
  TasksInOrder
PROPERTY
  ParserEnds
