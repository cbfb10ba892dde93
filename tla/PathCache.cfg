\* Three processes need a path on the host, two of them one that is not; one kill.
CONSTANTS
  p1 = p1
  p2 = p2
  p3 = p3
  a = a
  b = b
  Task = {p1, p2, p3}
  Target = {a, b}
  Needs <- MCNeeds
  OnHost = {a}
  Inode = {1, 2, 3, 4, 5}
  NoInode = 0
  NoTarget = none
  MaxKills = 1
SPECIFICATION FairSpec
INVARIANTS
  TypeOK
  ResolvedOnce
  RamIsCached
  LockFilesGo
PROPERTY CallsReturn
\* Every process may be done with its lookups.
CHECK_DEADLOCK FALSE
