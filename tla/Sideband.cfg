\* Two CPUs, a task and an interrupt, three messages, with and without a ring.
CONSTANTS
  task = task
  irq = irq
  Cpu = {0, 1}
  Writer = {task, irq}
  Task = {task}
  SizeOf <- MCSizeOf
  Files <- MCFiles
  BufSize = 5
  Trigger = 3
  MemSize = 6
  MaxMessages = 3
  MaxTime = 1
  MaxStarts = 2
  None = none
SPECIFICATION Spec
INVARIANTS
  NoOverrun
  StreamIsLog
  RingKeepsLatest
  ChunksMakeStream
  CombinedKeepsStreams
\* The recordings and the messages may be used up.
CHECK_DEADLOCK FALSE
