\* The components that wait for one another, each alone; what they wait for answers.
SPECIFICATION PartsFairSpec
CONSTANTS
  c1 = c1  c2 = c2  c3 = c3  c4 = c4  fresh = fresh  old = old  link = link
  r1 = r1  r2 = r2  r3 = r3
  p1 = p1  p2 = p2  shared = shared  own = own  local = local
  i1 = i1  i2 = i2  k1 = k1  k2 = k2  k3 = k3
  add = add  report = report  note = note  fold = fold  user = user  repo = repo
  Readers = {r1, r2}
  MaxEvents = 3
  Mutations = {c1, c2, c3, c4}
  Paths = {fresh, old, link}
  PathOf <- MCPathOf
  Real <- MCReal
  Present = {old}
  Nobody = Nobody
  Requests = {r1, r2, r3}
  Prompts = {r1, r2}
  MaxStarts = 2
  RpcEvent = RpcEvent
  Processes = {p1, p2}
  Fields = {shared, own, local}
  ScopeOf <- MCScopeOf
  MaxSets = 2
  Callers = {k1, k2, k3}
  Instances = {i1, i2}
  HomeOf <- MCHomeOf
  Free = Free
  MaxTokens = 2
  MaxLogins = 1
  MaxCrashes = 1
  MemoryCalls = {add, report, note, fold}
  KindOf <- MCKindOf
  TargetOf <- MCTargetOf
  LimitOf <- MCLimitOf
  MaxStamps = 2
  MaxPath = 6
  MaxCalls = 2
  Sizes = {1}
  Budgets = {1, 2}
  f1 = f1  f2 = f2
  SessionFiles = {f1, f2}
  MaxIds = 4
  MaxOfType <- MCMaxOfType
  MaxDetours = 1
  Runs = {run1}
  Structs = {struct1}
  Writes = {write1}
  Msgs = {}
  Aborts = {abort1}
  None = None
  Overlap = FALSE
  MaxTurns = 1
  MaxFaults = 2
  Parts = {"harness", "stream", "mutation", "rpc"}
CHECK_DEADLOCK FALSE
INVARIANTS EachEventOnce InTurn StrayAnswers
PROPERTIES Settles ReadersFinish MutationEnds RequestsSettle
