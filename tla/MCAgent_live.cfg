\* Two messages, two runs with a batch of two calls; a listener, hook or tool update may reject.
\* Providers, tools, hooks and listeners return.
SPECIFICATION FairSpec
CONSTANTS
  Msgs = {m1, m2}
  Modes = {"all"}
  Executions = {"parallel", "sequential"}
  MaxCalls = 2
  MaxToolTurn = 1
  MaxPrompt = 2
  MaxRuns = 2
  MaxResets = 0
  MaxFaults = 1
CHECK_DEADLOCK FALSE
INVARIANT AgentEndIsFinal
PROPERTY RunSettles
