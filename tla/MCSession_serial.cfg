\* Every caller awaits its call; crashes and writes that fail without a trace.
SPECIFICATION Spec
CONSTANTS
  Calls = {c1, c2, c3}
  Root = Root
  Undefined = Undefined
  MaxInFlight = 1
  MaxWindows = 1
  MaxCrashes = 2
  MaxFaults = 1
  Cuts = {}
SYMMETRY Symmetry
CHECK_DEADLOCK FALSE
INVARIANT MemoryIsFile
PROPERTY FileIsLog
