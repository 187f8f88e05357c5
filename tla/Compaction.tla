------------------------------ MODULE Compaction ------------------------------
(***************************************************************************)
(* The path of a session through its compactions: where compaction.ts      *)
(* (coding-agent/src/core/compaction) cuts it and what the summary covers, *)
(* what buildSessionContext of session-manager.ts then makes of it, and    *)
(* what transformMessages (ai/src/providers) sends.  A message is its      *)
(* position on the path, and a summary the set of positions it covers.     *)
(***************************************************************************)
EXTENDS Integers, FiniteSets, SequencesExt, FiniteSetsExt

CONSTANTS
  MaxPath,     \* bound: the entries of a path
  MaxCalls,    \* bound: the tool calls of a reply
  Sizes,       \* estimateTokens of a message
  Budgets      \* the settings keepRecentTokens may have

ASSUME CompactionAssumption ==
  MaxPath \in Nat /\ MaxCalls \in Nat /\ Sizes \subseteq Nat /\ Budgets \subseteq Nat \ {0}

VARIABLES
  trail,       \* the entries from the root to the leaf
  active,      \* a run is on
  planned      \* the compaction whose summary is being generated, if there is one

trailVars == <<trail, active, planned>>

\* "custom" is a custom_message or branch_summary entry, "setting" one that shows nothing.
Entry(kind, size) == [kind |-> kind, size |-> size, calls |-> 0, failed |-> FALSE,
                      of |-> 0, nth |-> 0, kept |-> 0, covers |-> {}, budget |-> 0, at |-> 0]
NewReply(size, calls, failed) == [Entry("assistant", size) EXCEPT !.calls = calls, !.failed = failed]
ToolResult(size, of, nth) == [Entry("toolResult", size) EXCEPT !.of = of, !.nth = nth]

IsMessage(e) == e.kind \in {"user", "bash", "assistant", "toolResult"}
IsShown(e) == IsMessage(e) \/ e.kind = "custom"
StartsTurn(e) == e.kind \in {"user", "bash", "custom"}

Bug_Cuttable(e) == IsShown(e)

Cuttable(e) == StartsTurn(e) \/ e.kind = "assistant"

\* 0 without one.
LatestCompaction(p) == Max({0} \cup {i \in DOMAIN p : p[i].kind = "compaction"})

\* The messages from i on, counted from the end.
SizeFrom(p, i) ==
  LET accumulated[n \in 0..Len(p)] ==
        IF n = 0 THEN 0
        ELSE LET e == p[Len(p) - n + 1] IN accumulated[n - 1] + (IF IsMessage(e) THEN e.size ELSE 0)
  IN accumulated[Len(p) - i + 1]

\* Where the messages after it fill the budget, or the first cut point there is.
BudgetCut(p, start, budget) ==
  LET points == {i \in start..Len(p) : Cuttable(p[i])}
      over   == {i \in start..Len(p) : IsMessage(p[i]) /\ SizeFrom(p, i) >= budget}
      after  == {c \in points : over # {} /\ c >= Max(over)}
  IN CASE points = {} -> start
       [] after # {}  -> Min(after)
       [] OTHER       -> Min(points)

\* The entries before it that are no messages are kept with it.
CutPoint(p, start, budget) ==
  LET cut == BudgetCut(p, start, budget)
  IN Min({i \in start..cut : \A j \in i..(cut - 1) : ~IsMessage(p[j]) /\ p[j].kind # "compaction"})

\* 0 when the turn begins before start.
TurnStart(p, cut, start) == Max({0} \cup {i \in start..cut : StartsTurn(p[i])})

Bug_Boundary(p) == LatestCompaction(p) + 1

\* What the last compaction kept is summarised again.
Boundary(p) == IF LatestCompaction(p) = 0 THEN 1 ELSE p[LatestCompaction(p)].kept

\* prepareCompaction
Preparation(p, budget) ==
  LET start      == Boundary(p)
      cut        == CutPoint(p, start, budget)
      turn       == TurnStart(p, cut, start)
      split      == p[cut].kind # "user" /\ turn # 0
      historyEnd == IF split THEN turn ELSE cut
      shown      == {i \in DOMAIN p : IsShown(p[i])}
  IN [cut     |-> cut,
      history |-> shown \cap (start..(historyEnd - 1)),
      prefix  |-> IF split THEN shown \cap (turn..(cut - 1)) ELSE {}]

PreviousSummary(p) == IF LatestCompaction(p) = 0 THEN {} ELSE p[LatestCompaction(p)].covers

\* compact: the previous summary goes into the history's, and there is none without a history.
Summarised(p, plan) ==
  IF plan.prefix # {} /\ plan.history = {}
  THEN plan.prefix
  ELSE plan.history \cup plan.prefix \cup PreviousSummary(p)

\* buildSessionContext: after the summary, if there is one, what is shown from the first kept entry on.
InContext(p) ==
  LET first == IF LatestCompaction(p) = 0 THEN 1 ELSE p[LatestCompaction(p)].kept
  IN {i \in DOMAIN p : i >= first /\ IsShown(p[i])}

Sent(kind, of, nth) == [kind |-> kind, of |-> of, nth |-> nth]

\* insertSyntheticToolResults
Unanswered(p, acc) ==
  LET calls == IF acc.reply = 0 THEN 0 ELSE p[acc.reply].calls
      missed[n \in 0..calls] ==
        IF n = 0 THEN <<>>
        ELSE IF <<acc.reply, n>> \in acc.answered THEN missed[n - 1]
        ELSE Append(missed[n - 1], Sent("toolResult", acc.reply, n))
  IN missed[calls]

\* One message of the second pass of transformMessages.
Transformed(p, acc, i) ==
  LET e      == p[i]
      closed == acc.out \o Unanswered(p, acc)
  IN CASE e.kind = "toolResult" ->
            [acc EXCEPT !.out = Append(@, Sent("toolResult", e.of, e.nth)),
                        !.answered = @ \cup {<<e.of, e.nth>>}]
       [] e.kind = "assistant" /\ e.failed -> [out |-> closed, reply |-> 0, answered |-> {}]
       [] e.kind = "assistant" /\ ~e.failed ->
            [out |-> Append(closed, Sent("assistant", i, 0)), reply |-> i, answered |-> {}]
       [] OTHER -> [out |-> Append(closed, Sent("user", i, 0)), reply |-> 0, answered |-> {}]

Request(p) ==
  LET last  == LatestCompaction(p)
      begun == [out |-> IF last = 0 THEN <<>> ELSE <<Sent("user", last, 0)>>, reply |-> 0, answered |-> {}]
      acc[i \in 0..Len(p)] ==
        IF i = 0 THEN begun
        ELSE IF i \in InContext(p) THEN Transformed(p, acc[i - 1], i)
        ELSE acc[i - 1]
  IN acc[Len(p)].out \o Unanswered(p, acc[Len(p)])

LastShown(p) == Max({0} \cup {i \in DOMAIN p : IsShown(p[i])})
EndsInReply(p) == LastShown(p) # 0 /\ p[LastShown(p)].kind = "assistant"

\* The reply whose calls are being answered, and how many have been.
Asking(p) == Max({0} \cup {i \in DOMAIN p : p[i].kind = "assistant"})
ResultsOf(p) == Cardinality({i \in DOMAIN p : p[i].kind = "toolResult" /\ p[i].of = Asking(p)})
Owing(p) ==
  /\ LastShown(p) # 0 /\ p[LastShown(p)].kind \in {"assistant", "toolResult"}
  /\ ~p[Asking(p)].failed /\ ResultsOf(p) < p[Asking(p)].calls

-----------------------------------------------------------------------------

TrailInit == trail = <<>> /\ active = FALSE /\ planned = {}

Extended(e) == Len(trail) < MaxPath /\ trail' = Append(trail, e)

\* A prompt, or a message steered into the run between two replies.
AppendUser(size) ==
  /\ active => ~Owing(trail) /\ ~EndsInReply(trail)
  /\ Extended(Entry("user", size))
  /\ active' = TRUE /\ UNCHANGED planned

\* A run goes on to its next reply when every call has its result.
AppendReply(size, calls, failed) ==
  /\ active /\ ~Owing(trail) /\ ~EndsInReply(trail)
  /\ Extended(NewReply(size, calls, failed))
  /\ active' = (~failed /\ calls > 0) /\ UNCHANGED planned

AppendResult(size) ==
  /\ active /\ Owing(trail)
  /\ Extended(ToolResult(size, Asking(trail), ResultsOf(trail) + 1))
  /\ UNCHANGED <<active, planned>>

\* continue() after a failed reply, with or without a compaction: the reply stays on the path.
Retry(size, calls, failed) ==
  /\ ~active /\ EndsInReply(trail) /\ trail[LastShown(trail)].failed
  /\ Extended(NewReply(size, calls, failed))
  /\ active' = (~failed /\ calls > 0) /\ UNCHANGED planned

\* Commands, an extension's messages and the summary of a branch are recorded between runs.
AppendBetween(kind, size) ==
  /\ ~active /\ kind \in {"bash", "custom"}
  /\ Extended(Entry(kind, size))
  /\ UNCHANGED <<active, planned>>

\* A change of model or thinking level, a label or a name comes at any time.
AppendSetting == Extended(Entry("setting", 0)) /\ UNCHANGED <<active, planned>>

\* The run is aborted, or the process is killed and the session opened again.
BreakOff == active /\ active' = FALSE /\ UNCHANGED <<trail, planned>>

\* compact and _runAutoCompaction: what is summarised is settled before hooks and the summary are awaited.
PrepareCompaction(budget) ==
  /\ ~active /\ planned = {} /\ trail # <<>> /\ Last(trail).kind # "compaction"
  /\ LET plan == Preparation(trail, budget)
     IN /\ plan.history \cup plan.prefix # {}
        /\ planned' = {[Entry("compaction", 0) EXCEPT !.kept = plan.cut, !.covers = Summarised(trail, plan),
                                                     !.budget = budget, !.at = Len(trail)]}
  /\ UNCHANGED <<trail, active>>

\* appendCompaction: behind whatever was recorded meanwhile.
AppendCompaction ==
  /\ \E e \in planned : Extended(e)
  /\ planned' = {} /\ UNCHANGED active

\* It is cancelled, the summary fails, or the process is killed.
GiveUpCompaction == planned # {} /\ planned' = {} /\ UNCHANGED <<trail, active>>

\* branch: the leaf becomes an earlier entry.
BranchTo(n) ==
  /\ ~active /\ planned = {} /\ n \in 1..(Len(trail) - 1)
  /\ trail' = SubSeq(trail, 1, n) /\ UNCHANGED <<active, planned>>

TrailNext ==
  \/ \E size \in Sizes : AppendUser(size) \/ AppendResult(size)
  \/ \E size \in Sizes, calls \in 0..MaxCalls, failed \in BOOLEAN :
       AppendReply(size, calls, failed) \/ Retry(size, calls, failed)
  \/ \E kind \in {"bash", "custom"}, size \in Sizes : AppendBetween(kind, size)
  \/ AppendSetting \/ BreakOff
  \/ \E budget \in Budgets : PrepareCompaction(budget)
  \/ AppendCompaction \/ GiveUpCompaction
  \/ \E n \in 1..MaxPath : BranchTo(n)

TrailSpec == TrailInit /\ [][TrailNext]_trailVars

-----------------------------------------------------------------------------

\* Whatever was cut, branched from or broken off, a request has one result for every call, right
\* after the reply that made it, and no other results (transformMessages; findValidCutPoints).
TrailRequestIsPaired ==
  LET sent == Request(trail)
      Answers(i, k) == sent[k].kind = "toolResult" /\ sent[k].of = sent[i].of
  IN /\ \A k \in DOMAIN sent : sent[k].kind = "toolResult" =>
          \E i \in 1..(k - 1) : sent[i].kind = "assistant" /\ \A j \in (i + 1)..k : Answers(i, j)
     /\ \A i \in DOMAIN sent : sent[i].kind = "assistant" =>
          \A n \in 1..trail[sent[i].of].calls :
            Cardinality({k \in DOMAIN sent : Answers(i, k) /\ sent[k].nth = n}) = 1

\* A compaction's summary covers exactly what left the context with it, whatever was recorded while it
\* was generated: nothing of the context is in neither, and nothing is in both (prepareCompaction,
\* buildSessionContext); and what is kept of the path it was prepared for is below the budget but for
\* its first message (findCutPoint).
SummaryMeetsKept ==
  \A c \in DOMAIN trail : trail[c].kind = "compaction" =>
    LET before   == InContext(SubSeq(trail, 1, c - 1))
        kept     == InContext(SubSeq(trail, 1, c))
        messages == {i \in trail[c].kept..trail[c].at : IsMessage(trail[i])}
    IN /\ kept \subseteq before
       /\ before \ kept \subseteq trail[c].covers
       /\ kept \cap trail[c].covers = {}
       /\ \A i, j \in messages : i < j => SizeFrom(SubSeq(trail, 1, trail[c].at), j) < trail[c].budget

\* docs/compaction.md: the summary of a compaction builds on the one before it, so every message
\* of the path is in the context or covered by the latest summary.
NothingForgotten ==
  {i \in DOMAIN trail : IsShown(trail[i])} \subseteq InContext(trail) \cup PreviousSummary(trail)
=============================================================================
