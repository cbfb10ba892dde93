\* Three tasks, two processes at a time, in a trace processed before.
CONSTANTS
  t1 = t1
  t2 = t2
  t3 = t3
  f = f
  g = g
  a = a
  b = b
  ha = ha
  hb = hb
  none = none
  Task = {t1, t2, t3}
  Name = {f, g}
  Target = {a}
  Host = {ha, hb}
  HostPath <- MCHostPath
  NoSymbol = none
  Unlockable = {"symbols"}
  Leftover <- MCLeftover
  tids <- MCtids
  max_processes = 2
SPECIFICATION PoolSpec
INVARIANTS
  TypeOK
  UniqueIds
  PrintedIsOnFile
  PoolBound
  NoneLeftBehind
PROPERTIES
  FilesAreRegistries
  MainReturns
\* main stops when it returns.
CHECK_DEADLOCK FALSE
