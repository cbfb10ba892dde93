\* Two tasks on one CPU: code with calls, returns, branches, a hooked function, the
\* scheduler and a page without a file; one interrupt, PSBs and losses.
SPECIFICATION Spec
CONSTANTS
  Code <- MCCode
  ExeOf <- MCExeOf
  Hook <- MCHook
  Toggle = 90
  Swap = 52
  SwitchToAsm = {50, 52, 53}
  Interruptible = {2, 3, 20}
  Handler = 100
  Task = {t1, t2}
  FirstTask = t1
  FirstPc = 40
  FirstStack <- MCFirstStack
  None = None
  Garbage <- MCGarbage
  HwDepth = 2
  MaxSteps = 48
  MaxInterrupts = 1
  MaxResyncs = 1
  MaxLost = 2
INVARIANTS TypeOK FollowsCpu PrintedInOrder 
