\* Two processes meet two executables at the same time.
CONSTANTS
  t1 = t1
  t2 = t2
  t3 = t3
  f = f
  g = g
  a = a
  b = b
  ha = ha
  hb = hb
  none = none
  Task = {t1, t2}
  Name = {f}
  Target = {a, b}
  Host = {ha, hb}
  HostPath <- MCHostPath
  NoSymbol = none
  Unlockable = {}
  Leftover <- MCNoLeftover
  tids <- MCtidsOfTwo
  max_processes = 2
SPECIFICATION PoolSpec
INVARIANT HostPathHasId
\* main stops when it returns.
CHECK_DEADLOCK FALSE
