\* Two compactions, the second of which splits the turn that the first one kept.
SPECIFICATION TrailSpec
CONSTANTS
  MaxPath = 6
  MaxCalls = 0
  Sizes = {1}
  Budgets = {2}
CHECK_DEADLOCK FALSE
INVARIANT NothingForgotten
