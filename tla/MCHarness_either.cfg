\* Two runs with two writes and a structural operation, or with two messages and an abort.
SPECIFICATION EitherSpec
CONSTANTS
  Runs = {r1, r2}
  Structs = {s1}
  Writes = {w1, w2}
  Msgs = {m1, m2}
  Aborts = {a1}
  None = None
  Overlap = FALSE
  MaxTurns = 1
  MaxFaults = 2
SYMMETRY Symmetry
CHECK_DEADLOCK FALSE
INVARIANTS WritesKept SnapshotIsSession CallsMeetResults IdleAtLast QueuesAreFifo
PROPERTY AbortEndsRun
