\* The provider fails up to three times.
SPECIFICATION FairSpec
CONSTANTS
  u1 = u1
  u2 = u2
  b1 = b1
  Users = {u1, u2}
  Bashes = {}
  FrontEnds = {"interactive", "rpc"}
  MaxRetries = 1
  MaxReplies = 3
  MaxEvents = 2
  MaxCompactions = 1
  None = None
CHECK_DEADLOCK FALSE
PROPERTIES RetriesBounded PromptReturns
