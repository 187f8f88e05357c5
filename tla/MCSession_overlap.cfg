\* Two calls overlap: their entries need not form a tree.
SPECIFICATION Spec
CONSTANTS
  Calls = {c1, c2}
  Root = Root
  Undefined = Undefined
  MaxInFlight = 2
  MaxWindows = 0
  MaxCrashes = 0
  MaxFaults = 0
  Cuts = {}
CHECK_DEADLOCK FALSE
INVARIANT EntriesFormTree
