\* Two messages and one event more: a compaction, a bash command, a cancellation or a failure.
SPECIFICATION Spec
CONSTANTS
  u1 = u1
  u2 = u2
  b1 = b1
  Users = {u1, u2}
  Bashes = {b1}
  FrontEnds = {"interactive", "rpc"}
  MaxRetries = 1
  MaxReplies = 2
  MaxEvents = 3
  MaxCompactions = 2
  None = None
SYMMETRY Symmetry
CHECK_DEADLOCK FALSE
INVARIANTS EachOnce ContextIsSession CallsMeetResults NoStaleCompaction NothingLeft
