\* Two processes need one path, and nobody is killed.
CONSTANTS
  p1 = p1
  p2 = p2
  p3 = p3
  a = a
  b = b
  Task = {p1, p2}
  Target = {a}
  Needs <- MCNeedsAll
  OnHost = {a}
  Inode = {1, 2, 3}
  NoInode = 0
  NoTarget = none
  MaxKills = 0
SPECIFICATION Spec
INVARIANT WaitedForResolution
CHECK_DEADLOCK FALSE
