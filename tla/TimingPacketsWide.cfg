\* The widths of the code: counts of 8 bits, 7 of them in a TMA, a margin of 10.
CONSTANTS
  Rollover = 256
  TmaRollover = 128
  Ticks = 4
  Ratio = 2
  Margin = 10
  Leaps <- MCWideLeaps
  Phases <- MCPhases
  MaxEvents = 3
SPECIFICATION Spec
INVARIANTS
  CountsValid
