\* Listeners and hooks may reject, reset() may be called during a run.
SPECIFICATION Spec
CONSTANTS
  Msgs = {m1, m2}
  Modes = {"all", "one-at-a-time"}
  Executions = {"parallel"}
  MaxCalls = 2
  MaxToolTurn = 1
  MaxPrompt = 2
  MaxRuns = 2
  MaxResets = 1
  MaxFaults = 1
SYMMETRY Symmetry
ACTION_CONSTRAINT ModesFirst
CHECK_DEADLOCK FALSE
INVARIANTS TypeOK RequestSeesTranscript ResultsInSourceOrder RequestIsPaired NoCallPendingAtTurnEnd
PROPERTIES RunsEndWithAgentEnd MailboxKept
