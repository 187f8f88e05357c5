\* Calls overlap; writes are cut off.
SPECIFICATION Spec
CONSTANTS
  Calls = {c1, c2, c3}
  Root = Root
  Undefined = Undefined
  MaxInFlight = 3
  MaxWindows = 0
  MaxCrashes = 1
  MaxFaults = 1
  Cuts = {"cut", "open"}
SYMMETRY Symmetry
CHECK_DEADLOCK FALSE
INVARIANTS PathsResolve AnsweredIsKept
