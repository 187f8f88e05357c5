\* The context overflows, and its recovery compacts once.
SPECIFICATION Spec
CONSTANTS
  u1 = u1
  u2 = u2
  b1 = b1
  Users = {u1}
  Bashes = {}
  FrontEnds = {"interactive"}
  MaxRetries = 1
  MaxReplies = 3
  MaxEvents = 1
  MaxCompactions = 1
  None = None
CHECK_DEADLOCK FALSE
INVARIANT RejectedIsUndelivered
