\* Counts of 4 bits and a TMA that has 3 of them.
CONSTANTS
  Rollover = 16
  TmaRollover = 8
  Ticks = 4
  Ratio = 2
  Margin = 2
  Leaps <- MCLeaps
  Phases <- MCPhases
  MaxEvents = 6
SPECIFICATION Spec
INVARIANTS
  RepairedToComplete
  TimedRight
  Sane
  UnmarkedLostNothing
