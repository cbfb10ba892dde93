\* Two CPUs and three buffers of three units: a callback is due at two, the
\* third unit is a late timer.
CONSTANTS
  NCPU = 2
  PoolSize = 3
  BufSize = 3
  MaxEmitted = 6
SPECIFICATION FairSpec
INVARIANTS
  TypeOK
  QuietBetweenRecordings
  NoOverwrite
  ScheduleInStream
  SizeIsSum
  ReaderGetsStream
PROPERTIES
  RecordsALog
  ControlReturns
