-------------------------------- MODULE Agent --------------------------------
(***************************************************************************)
(* The stateful Agent of packages/agent/src/agent.ts together with the     *)
(* low-level loop it drives, packages/agent/src/agent-loop.ts.             *)
(*                                                                         *)
(* JavaScript runs one piece of code at a time and lets others run only    *)
(* at an await.  So `pc' names the await the run is parked at - the event  *)
(* whose listeners are running, or the external call that is pending - and *)
(* an action is the code from the end of that await to the next one.       *)
(* Everything else that may happen at an await is an action of its own:    *)
(* the user queues a message, aborts, resets; a tool running in parallel   *)
(* reports; a listener or a hook rejects.                                  *)
(*                                                                         *)
(* The provider, the tools, the hooks and the listeners are external: they *)
(* answer in any way their types allow.                                    *)
(***************************************************************************)
EXTENDS Naturals, Sequences, Functions

CONSTANTS
  Msgs,         \* the user's messages; each is sent at most once
  Modes,        \* the queue modes in use, a subset of {"all", "one-at-a-time"}
  Executions,   \* the tool execution modes, a subset of {"parallel", "sequential"}
  MaxCalls,     \* bound: tool calls in one assistant message
  MaxToolTurn,  \* bound: the last request answered with tool calls
  MaxPrompt,    \* bound: messages in one prompt
  MaxRuns,      \* bound: runs started
  MaxResets,    \* bound: calls of reset()
  MaxFaults     \* bound: listeners or hooks that reject, apart from one that hears of a failure

ASSUME BoundsAssumption ==
  /\ Modes \subseteq {"all", "one-at-a-time"} /\ Modes # {}
  /\ Executions \subseteq {"parallel", "sequential"} /\ Executions # {}
  /\ {MaxCalls, MaxToolTurn, MaxPrompt, MaxRuns, MaxResets, MaxFaults} \subseteq Nat

(***************************************************************************)
(* Messages.  `via' remembers how the user sent a message; the code does   *)
(* not look at it.  A tool call is named by the request that produced it   *)
(* and its place in the assistant message.                                 *)
(***************************************************************************)
Lanes  == {"prompt", "steer", "followUp"}
Queues == {"steer", "followUp"}
Stops  == {"stop", "error", "aborted", "partial"}
Calls  == (1..MaxToolTurn) \X (1..MaxCalls)

UserMessage       == [role : {"user"}, id : Msgs, via : Lanes]
AssistantMessage  == [role : {"assistant"}, turn : Nat, calls : 0..MaxCalls, stop : Stops]
ToolResultMessage == [role : {"toolResult"}, call : Calls]
Message           == UserMessage \cup AssistantMessage \cup ToolResultMessage
NoMessage         == [role |-> "none"]

User(m, lane)       == [role |-> "user", id |-> m, via |-> lane]
Assistant(t, n, st) == [role |-> "assistant", turn |-> t, calls |-> n, stop |-> st]
ToolResult(c)       == [role |-> "toolResult", call |-> c]
Front(s)            == SubSeq(s, 1, Len(s) - 1)
Final(s)            == s[Len(s)]

VARIABLES
  \* Agent
  messages,         \* _state.messages, the transcript
  streaming,        \* _state.streamingMessage
  isStreaming,      \* _state.isStreaming
  errorMessage,     \* _state.errorMessage is set
  pendingToolCalls, \* _state.pendingToolCalls
  queue,            \* steeringQueue and followUpQueue
  qmode,            \* their drain modes
  activeRun,        \* "none", or whether the run's AbortController has fired
  \* the run's stack frame
  pc,               \* the await the run is parked at
  context,          \* currentContext.messages, what the next request will send
  outbox,           \* messages still to be put in the transcript, the one in hand first
  stage,            \* what the outbox holds: prompts, pendingMessages or tool results
  results,          \* ExecutedToolCallBatch.messages
  reply,            \* the assistant message of this turn
  hasMore,          \* hasMoreToolCalls
  skipPoll,         \* skipInitialSteeringPoll
  \* the tool batch
  execution,        \* parallel or sequential
  k,                \* place of the call the batch loop is at
  task,             \* how far each tool call is
  updateFailed,     \* calls one of whose update notifications rejected
  allTerminate,     \* every finalized call so far asked to terminate
  \* bookkeeping of the model
  turn,             \* requests made so far
  base,             \* value of turn when the run began
  unsent, runs, resets, faults,
  takenBack,        \* messages the user took back with a clear or a reset
  ended,            \* this run has emitted agent_end
  late,             \* whose events came after the agent_end of their run: a tool's, the run's own
  dirty             \* reset() was called during this run

stateVars == <<messages, streaming, isStreaming, pendingToolCalls, activeRun>>
queueVars == <<queue, qmode, unsent, takenBack>>
loopVars  == <<context, outbox, stage, results, reply, hasMore, skipPoll>>
batchVars == <<execution, k, task, updateFailed, allTerminate>>
runVars   == <<turn, base, runs, dirty, errorMessage>>
vars == <<stateVars, queueVars, pc, loopVars, batchVars, runVars,
          resets, faults, ended, late>>

Init ==
  /\ messages = <<>> /\ streaming = NoMessage /\ isStreaming = FALSE
  /\ pendingToolCalls = {} /\ activeRun = "none"
  /\ queue = [q \in Queues |-> <<>>] /\ qmode \in [Queues -> Modes] /\ unsent = Msgs
  /\ takenBack = {}
  /\ pc = "idle"
  /\ context = <<>> /\ outbox = <<>> /\ stage = "prompts" /\ results = <<>>
  /\ reply = NoMessage /\ hasMore = TRUE /\ skipPoll = FALSE
  /\ execution = "parallel" /\ k = 0 /\ task = [c \in Calls |-> "none"]
  /\ updateFailed = {} /\ allTerminate = TRUE
  /\ turn = 0 /\ base = 0 /\ runs = 0 /\ dirty = FALSE /\ errorMessage = FALSE
  /\ resets = 0 /\ faults = 0 /\ ended = FALSE /\ late = {}

(***************************************************************************)
(* processEvents: reduce the state, then await the listeners.              *)
(***************************************************************************)
Notify   == late' = (IF ended THEN late \cup {"run"} ELSE late) /\ UNCHANGED ended
MessageStart(m) == streaming' = m /\ Notify
MessageEnd(m) ==
  /\ streaming' = NoMessage /\ messages' = Append(messages, m) /\ Notify
AgentEnd == /\ late' = IF ended THEN late \cup {"run"} ELSE late
            /\ ended' = TRUE /\ streaming' = NoMessage

(***************************************************************************)
(* PendingMessageQueue and the queueing API.                               *)
(***************************************************************************)
Drained(q) == IF qmode[q] = "all" \/ queue[q] = <<>> THEN queue[q] ELSE <<Head(queue[q])>>
Undrained(q) == IF qmode[q] = "all" \/ queue[q] = <<>> THEN <<>> ELSE Tail(queue[q])
Drain(q) == queue' = [queue EXCEPT ![q] = Undrained(q)] /\ UNCHANGED <<qmode, unsent, takenBack>>

Enqueue(q) == \E m \in unsent :
  /\ queue' = [queue EXCEPT ![q] = Append(@, User(m, q))]
  /\ unsent' = unsent \ {m}
  /\ UNCHANGED <<stateVars, qmode, takenBack, pc, loopVars, batchVars, runVars, resets, faults, ended, late>>

ClearQueue(q) ==
  /\ queue[q] # <<>> /\ queue' = [queue EXCEPT ![q] = <<>>]
  /\ takenBack' = takenBack \cup Range(queue[q])
  /\ UNCHANGED <<stateVars, qmode, unsent, pc, loopVars, batchVars, runVars, resets, faults, ended, late>>

SetQueueMode(q) ==
  /\ qmode' \in {[qmode EXCEPT ![q] = mode] : mode \in Modes}
  /\ UNCHANGED <<stateVars, queue, unsent, takenBack, pc, loopVars, batchVars, runVars, resets, faults, ended, late>>

Abort ==
  /\ activeRun = "live" /\ activeRun' = "aborted"
  /\ UNCHANGED <<messages, streaming, isStreaming, pendingToolCalls, queueVars, pc,
                 loopVars, batchVars, runVars, resets, faults, ended, late>>

Reset ==
  /\ resets < MaxResets /\ resets' = resets + 1
  /\ messages' = <<>> /\ isStreaming' = FALSE /\ streaming' = NoMessage
  /\ pendingToolCalls' = {} /\ errorMessage' = FALSE
  /\ queue' = [q \in Queues |-> <<>>]
  /\ takenBack' = takenBack \cup Range(queue["steer"]) \cup Range(queue["followUp"])
  /\ dirty' = (dirty \/ activeRun # "none")
  /\ UNCHANGED <<activeRun, qmode, unsent, pc, loopVars, batchVars, turn, base, runs, faults, ended, late>>

(***************************************************************************)
(* Starting a run: prompt(), continue(), runWithLifecycle.  A run is       *)
(* parked at the listeners of agent_start.                                 *)
(***************************************************************************)
StartRun(prompts, skip) ==
  /\ activeRun = "none" /\ activeRun' = "live"
  /\ runs < MaxRuns /\ runs' = runs + 1
  /\ isStreaming' = TRUE /\ streaming' = NoMessage /\ errorMessage' = FALSE
  /\ context' = messages \o prompts
  /\ outbox' = prompts /\ stage' = "prompts" /\ results' = <<>>
  /\ skipPoll' = skip /\ hasMore' = TRUE
  /\ pc' = "agent_start"
  /\ base' = turn /\ ended' = FALSE /\ dirty' = FALSE
  /\ UNCHANGED <<messages, pendingToolCalls, reply, batchVars, turn, resets, faults, late>>

Batches(S) == UNION {{b \in [1..n -> S] : IsInjective(b)} : n \in 1..MaxPrompt}

Prompt == \E batch \in Batches(unsent) :
  /\ StartRun([i \in DOMAIN batch |-> User(batch[i], "prompt")], FALSE)
  /\ unsent' = unsent \ Range(batch)
  /\ UNCHANGED <<queue, qmode, takenBack>>

ContinueFromQueue(q) ==
  /\ messages # <<>> /\ Final(messages).role = "assistant"
  /\ queue[q] # <<>>
  /\ q = "followUp" => queue["steer"] = <<>>
  /\ StartRun(Drained(q), q = "steer")
  /\ Drain(q)

ContinueFromTranscript ==
  /\ messages # <<>> /\ Final(messages).role # "assistant"
  /\ StartRun(<<>>, FALSE)
  /\ UNCHANGED queueVars

\* AgentSession drops a failed assistant message before it retries with continue().
DropFailedReply ==
  /\ activeRun = "none" /\ messages # <<>>
  /\ Final(messages).role = "assistant" /\ Final(messages).stop = "error"
  /\ messages' = Front(messages)
  /\ UNCHANGED <<streaming, isStreaming, pendingToolCalls, activeRun, queueVars, pc, loopVars,
                 batchVars, runVars, resets, faults, ended, late>>

(***************************************************************************)
(* runAgentLoop and runLoop.                                               *)
(***************************************************************************)
AgentStartSettles ==
  /\ pc = "agent_start" /\ pc' = "first_turn_start" /\ Notify
  /\ UNCHANGED <<stateVars, queueVars, loopVars, batchVars, runVars, resets, faults>>

\* Emit message_start for the head of the outbox, or go on at `next' if it is empty.
DeliverOr(next, box) ==
  /\ outbox' = box
  /\ IF box = <<>> THEN pc' = next /\ UNCHANGED <<streaming, ended, late>>
                   ELSE pc' = "msg_start" /\ MessageStart(Head(box))

FirstTurnStartSettles ==
  /\ pc = "first_turn_start"
  /\ DeliverOr("poll_initial", outbox)
  /\ UNCHANGED <<messages, isStreaming, pendingToolCalls, activeRun, queueVars, context, stage,
                 results, reply, hasMore, skipPoll, batchVars, runVars, resets, faults>>

MessageStartSettles ==
  /\ pc = "msg_start" /\ pc' = "msg_end"
  /\ MessageEnd(Head(outbox))
  /\ UNCHANGED <<isStreaming, pendingToolCalls, activeRun, queueVars, loopVars, batchVars,
                 runVars, resets, faults>>

PromptDelivered ==
  /\ pc = "msg_end" /\ stage = "prompts"
  /\ DeliverOr("poll_initial", Tail(outbox))
  /\ UNCHANGED <<messages, isStreaming, pendingToolCalls, activeRun, queueVars, context, stage,
                 results, reply, hasMore, skipPoll, batchVars, runVars, resets, faults>>

\* Bug: an injected message reaches the transcript and not the loop's context.
Bug_PendingNotInContext ==
  /\ pc = "msg_end" /\ stage = "pending"
  /\ DeliverOr("request", Tail(outbox))
  /\ UNCHANGED <<messages, isStreaming, pendingToolCalls, activeRun, queueVars, context, stage,
                 results, reply, hasMore, skipPoll, batchVars, runVars, resets, faults>>

PendingDelivered ==
  /\ pc = "msg_end" /\ stage = "pending"
  /\ context' = Append(context, Head(outbox))
  /\ DeliverOr("request", Tail(outbox))
  /\ UNCHANGED <<messages, isStreaming, pendingToolCalls, activeRun, queueVars, stage,
                 results, reply, hasMore, skipPoll, batchVars, runVars, resets, faults>>

PollInitial ==
  /\ pc = "poll_initial"
  /\ stage' = "pending" /\ skipPoll' = FALSE
  /\ IF skipPoll THEN DeliverOr("request", <<>>) /\ UNCHANGED queueVars
                 ELSE DeliverOr("request", Drained("steer")) /\ Drain("steer")
  /\ UNCHANGED <<messages, isStreaming, pendingToolCalls, activeRun, context, results, reply,
                 hasMore, batchVars, runVars, resets, faults>>

\* Emit turn_start for another pass of the inner loop, with its pendingMessages.
NextTurn(pending) ==
  /\ outbox' = pending /\ stage' = "pending"
  /\ pc' = "turn_start" /\ Notify /\ UNCHANGED streaming

\* Bug: agent_end is emitted before the follow-up queue is polled.
Bug_EndBeforeFollowUps ==
  /\ pc = "poll_steering"
  /\ Drain("steer")
  /\ IF hasMore \/ Drained("steer") # <<>>
       THEN NextTurn(Drained("steer"))
       ELSE pc' = "poll_follow_up" /\ AgentEnd /\ UNCHANGED <<outbox, stage>>
  /\ UNCHANGED <<messages, isStreaming, pendingToolCalls, activeRun, context, results, reply,
                 hasMore, skipPoll, batchVars, runVars, resets, faults>>

PollSteering ==
  /\ pc = "poll_steering"
  /\ Drain("steer")
  /\ IF hasMore \/ Drained("steer") # <<>>
       THEN NextTurn(Drained("steer"))
       ELSE pc' = "poll_follow_up" /\ UNCHANGED <<outbox, stage, streaming, ended, late>>
  /\ UNCHANGED <<messages, isStreaming, pendingToolCalls, activeRun, context, results, reply,
                 hasMore, skipPoll, batchVars, runVars, resets, faults>>

\* Bug: an aborted run drains the follow-ups and ends without delivering them.
Bug_AbortDropsFollowUps ==
  /\ pc = "poll_follow_up"
  /\ Drain("followUp")
  /\ IF Drained("followUp") # <<>> /\ activeRun = "live"
       THEN NextTurn(Drained("followUp"))
       ELSE pc' = "agent_end" /\ AgentEnd /\ UNCHANGED <<outbox, stage>>
  /\ UNCHANGED <<messages, isStreaming, pendingToolCalls, activeRun, context, results, reply,
                 hasMore, skipPoll, batchVars, runVars, resets, faults>>

PollFollowUp ==
  /\ pc = "poll_follow_up"
  /\ Drain("followUp")
  /\ IF Drained("followUp") # <<>>
       THEN NextTurn(Drained("followUp"))
       ELSE pc' = "agent_end" /\ AgentEnd /\ UNCHANGED <<outbox, stage>>
  /\ UNCHANGED <<messages, isStreaming, pendingToolCalls, activeRun, context, results, reply,
                 hasMore, skipPoll, batchVars, runVars, resets, faults>>

TurnStartSettles ==
  /\ pc = "turn_start"
  /\ DeliverOr("request", outbox)
  /\ UNCHANGED <<messages, isStreaming, pendingToolCalls, activeRun, queueVars, context, stage,
                 results, reply, hasMore, skipPoll, batchVars, runVars, resets, faults>>

(***************************************************************************)
(* streamAssistantResponse.  At "request" the transform, the conversion    *)
(* and the API key are awaited; message_update events repeat the           *)
(* notification of the partial message and are not steps of their own.     *)
(***************************************************************************)
SendRequest ==
  /\ pc = "request" /\ pc' = "stream" /\ turn' = turn + 1
  /\ UNCHANGED <<stateVars, queueVars, loopVars, batchVars, base, runs, dirty, errorMessage,
                 resets, faults, ended, late>>

Partial == Assistant(turn, 0, "partial")

StreamStarts ==
  /\ pc = "stream" /\ pc' = "streaming"
  /\ context' = Append(context, Partial) /\ MessageStart(Partial)
  /\ UNCHANGED <<messages, isStreaming, pendingToolCalls, activeRun, queueVars, outbox, stage,
                 results, reply, hasMore, skipPoll, batchVars, runVars, resets, faults>>

\* What a provider may answer: an abort shows as "aborted", tool calls or not.
Answers ==
  [role : {"assistant"}, turn : {turn},
   calls : IF turn <= MaxToolTurn THEN 0..MaxCalls ELSE {0},
   stop : {"stop", "error"} \cup (IF activeRun = "aborted" THEN {"aborted"} ELSE {})]

StreamEnds == \E answer \in Answers :
  /\ reply' = answer
  /\ \/ /\ pc = "streaming" /\ pc' = "reply_end"
        /\ context' = Append(Front(context), answer) /\ MessageEnd(answer)
     \/ /\ pc = "stream" /\ pc' = "reply_start"
        /\ context' = Append(context, answer) /\ MessageStart(answer)
        /\ UNCHANGED messages
  /\ UNCHANGED <<isStreaming, pendingToolCalls, activeRun, queueVars, outbox, stage, results,
                 hasMore, skipPoll, batchVars, runVars, resets, faults>>

ReplyStartSettles ==
  /\ pc = "reply_start" /\ pc' = "reply_end" /\ MessageEnd(reply)
  /\ UNCHANGED <<isStreaming, pendingToolCalls, activeRun, queueVars, loopVars, batchVars,
                 runVars, resets, faults>>

(***************************************************************************)
(* The reply decides: give up, run its tool calls, or end the turn.        *)
(***************************************************************************)
Failed(m) == m.stop \in {"error", "aborted"}

ReplyFailed ==
  /\ pc = "reply_end" /\ Failed(reply) /\ pc' = "final_turn_end" /\ Notify
  /\ errorMessage' = TRUE
  /\ UNCHANGED <<stateVars, queueVars, loopVars, batchVars, turn, base, runs, dirty, resets, faults>>

\* Bug: the tool results never join the loop's context.
\* The results join the context and turn_end is emitted.
EndTurn(batch, more) ==
  /\ context' = context \o batch /\ results' = <<>> /\ hasMore' = more
  /\ pc' = "turn_end" /\ Notify

ReplyWithoutCalls ==
  /\ pc = "reply_end" /\ ~Failed(reply) /\ reply.calls = 0
  /\ EndTurn(<<>>, FALSE)
  /\ UNCHANGED <<stateVars, queueVars, outbox, stage, reply, skipPoll, batchVars, runVars, resets, faults>>

\* Emit tool_execution_start for the i-th call of the reply.
StartCall(i) ==
  /\ k' = i /\ pc' = "tool_start"
  /\ pendingToolCalls' = pendingToolCalls \cup {<<turn, i>>}
  /\ Notify

ReplyWithCalls ==
  /\ pc = "reply_end" /\ ~Failed(reply) /\ reply.calls > 0
  /\ execution' \in Executions
  /\ allTerminate' = TRUE
  /\ StartCall(1)
  /\ UNCHANGED <<messages, streaming, isStreaming, activeRun, queueVars, loopVars, task,
                 updateFailed, runVars, resets, faults>>

(***************************************************************************)
(* executeToolCallsSequential and executeToolCallsParallel.  Both prepare  *)
(* the calls one at a time; the sequential one finishes a call before it   *)
(* goes on, the parallel one starts all prepared calls at the end.         *)
(***************************************************************************)
Call == <<turn, k>>
CallsToGo == activeRun = "live" /\ k < reply.calls

\* Promise.all over the prepared calls of this batch (possibly none); what a run that failed had
\* prepared is never started.
Launch(tasks) ==
  /\ task' = [c \in Calls |-> IF c[1] = turn /\ tasks[c] = "prepared" THEN "running" ELSE tasks[c]]
  /\ pc' = "tools_running"
  /\ UNCHANGED <<k, pendingToolCalls, ended, late>>

NextCall(tasks) ==
  IF CallsToGo THEN StartCall(k + 1) /\ task' = tasks ELSE Launch(tasks)

\* prepareToolCall found the tool, the hook allowed it and nobody aborted.
ToolPrepared ==
  /\ pc = "tool_start" /\ activeRun = "live"
  /\ IF execution = "sequential"
       THEN Launch([task EXCEPT ![Call] = "prepared"])
       ELSE NextCall([task EXCEPT ![Call] = "prepared"])
  /\ UNCHANGED <<messages, streaming, isStreaming, activeRun, queueVars, loopVars, execution,
                 updateFailed, allTerminate, runVars, resets, faults>>

\* Bug: the end of a refused call does not clear it from pendingToolCalls.
Bug_RefusedStaysPending ==
  /\ pc = "tool_start" /\ pc' = "tool_end" /\ Notify
  /\ allTerminate' = FALSE
  /\ UNCHANGED <<stateVars, queueVars, loopVars, execution, k, task, updateFailed, runVars,
                 resets, faults>>

\* prepareToolCall returned an immediate error: tool_execution_end is emitted at once.
ToolRefused ==
  /\ pc = "tool_start" /\ pc' = "tool_end"
  /\ pendingToolCalls' = pendingToolCalls \ {Call} /\ Notify
  /\ allTerminate' = FALSE
  /\ UNCHANGED <<messages, streaming, isStreaming, activeRun, queueVars, loopVars, execution, k,
                 task, updateFailed, runVars, resets, faults>>

\* Bug: a refused call ends the batch, as an abort does.
Bug_RefusalBreaks ==
  /\ pc = "tool_end"
  /\ Launch([task EXCEPT ![Call] = "done"])
  /\ UNCHANGED <<messages, streaming, isStreaming, activeRun, queueVars, loopVars, execution,
                 updateFailed, allTerminate, runVars, resets, faults>>

RefusalSettles ==
  /\ pc = "tool_end"
  /\ IF execution = "sequential"
       THEN Launch([task EXCEPT ![Call] = "done"])
       ELSE NextCall([task EXCEPT ![Call] = "done"])
  /\ UNCHANGED <<messages, streaming, isStreaming, activeRun, queueVars, loopVars, execution,
                 updateFailed, allTerminate, runVars, resets, faults>>

Batch(n) == {turn} \X (1..n)

\* Bug: the results are emitted last call first.
Bug_ResultsReversed ==
  /\ pc = "tools_running" /\ \A c \in Batch(k) : task[c] = "done"
  /\ stage' = "results"
  /\ DeliverOr("turn_end",
       IF execution = "sequential" THEN <<ToolResult(Call)>>
                                   ELSE [i \in 1..k |-> ToolResult(<<turn, k + 1 - i>>)])
  /\ UNCHANGED <<messages, isStreaming, pendingToolCalls, activeRun, queueVars, context, results,
                 reply, hasMore, skipPoll, batchVars, runVars, resets, faults>>

\* Bug: the batch waits for every call of the reply, the skipped ones included.
Bug_WaitsForSkippedCalls ==
  /\ pc = "tools_running" /\ \A c \in Batch(reply.calls) : task[c] = "done"
  /\ stage' = "results"
  /\ DeliverOr("turn_end", [i \in 1..k |-> ToolResult(<<turn, i>>)])
  /\ UNCHANGED <<messages, isStreaming, pendingToolCalls, activeRun, queueVars, context, results,
                 reply, hasMore, skipPoll, batchVars, runVars, resets, faults>>

\* Every started call is finalized: emit the results that are not in the transcript yet.
BatchSettled ==
  /\ pc = "tools_running" /\ \A c \in Batch(k) : task[c] = "done"
  /\ stage' = "results"
  /\ DeliverOr("turn_end",
       IF execution = "sequential" THEN <<ToolResult(Call)>>
                                   ELSE [i \in 1..k |-> ToolResult(<<turn, i>>)])
  /\ UNCHANGED <<messages, isStreaming, pendingToolCalls, activeRun, queueVars, context, results,
                 reply, hasMore, skipPoll, batchVars, runVars, resets, faults>>

ResultDelivered ==
  /\ pc = "msg_end" /\ stage = "results"
  /\ LET batch == Append(results, Head(outbox)) IN
       \/ /\ Tail(outbox) # <<>>
          /\ DeliverOr("turn_end", Tail(outbox)) /\ results' = batch
          /\ UNCHANGED <<context, hasMore, k, pendingToolCalls>>
       \/ /\ Tail(outbox) = <<>> /\ execution = "sequential" /\ CallsToGo
          /\ StartCall(k + 1) /\ results' = batch /\ outbox' = <<>>
          /\ UNCHANGED <<context, hasMore, streaming>>
       \/ /\ Tail(outbox) = <<>> /\ ~(execution = "sequential" /\ CallsToGo)
          /\ EndTurn(batch, ~allTerminate) /\ outbox' = <<>>
          /\ UNCHANGED <<k, pendingToolCalls, streaming>>
  /\ UNCHANGED <<messages, isStreaming, activeRun, queueVars, stage, reply, skipPoll, execution,
                 task, updateFailed, allTerminate, runVars, resets, faults>>

\* turn_end's listeners, then prepareNextTurn, which keeps this context.
TurnEndSettles ==
  /\ pc = "turn_end" /\ pc' = "poll_steering"
  /\ UNCHANGED <<stateVars, queueVars, loopVars, batchVars, runVars, resets, faults, ended, late>>

FinalTurnEndSettles ==
  /\ pc = "final_turn_end" /\ pc' = "agent_end" /\ AgentEnd
  /\ UNCHANGED <<messages, isStreaming, pendingToolCalls, activeRun, queueVars, loopVars,
                 batchVars, runVars, resets, faults>>

\* Bug: finishRun forgets to clear activeRun.
Bug_RunStaysActive ==
  /\ isStreaming' = FALSE /\ streaming' = NoMessage /\ pendingToolCalls' = {}
  /\ pc' = "idle" /\ context' = <<>> /\ outbox' = <<>> /\ results' = <<>>
  /\ UNCHANGED <<messages, activeRun, queueVars, stage, reply, hasMore, skipPoll, batchVars,
                 runVars, resets, ended, late>>

FinishRun ==
  /\ isStreaming' = FALSE /\ streaming' = NoMessage /\ pendingToolCalls' = {}
  /\ activeRun' = "none" /\ pc' = "idle"
  /\ context' = <<>> /\ outbox' = <<>> /\ results' = <<>>
  /\ UNCHANGED <<messages, queueVars, stage, reply, hasMore, skipPoll, batchVars, runVars,
                 resets, ended, late>>

AgentEndSettles == pc = "agent_end" /\ FinishRun /\ UNCHANGED faults

(***************************************************************************)
(* A tool that has been started runs on its own: executePreparedToolCall,  *)
(* finalizeExecutedToolCall and the tool_execution_end it emits.  Nothing  *)
(* stops it when the run it was started for fails, so it may report to a   *)
(* later run, or to none; then processEvents rejects after reducing.       *)
(***************************************************************************)
Awaited(c) == pc = "tools_running" /\ c[1] = turn

\* An event of call c reaches the listeners of the active run.
NotifyOf(c) ==
  /\ late' = IF ended \/ c[1] <= base THEN late \cup {"tool"} ELSE late
  /\ UNCHANGED ended

ToolUpdates(c) ==
  /\ task[c] = "running"
  /\ IF activeRun = "none" THEN updateFailed' = updateFailed \cup {c} /\ UNCHANGED <<ended, late>>
                           ELSE NotifyOf(c) /\ UNCHANGED updateFailed
  /\ UNCHANGED <<stateVars, queueVars, pc, loopVars, execution, k, task, allTerminate, runVars,
                 resets, faults>>

UpdateRejected(c) ==
  /\ task[c] = "running" /\ activeRun # "none"
  /\ faults < MaxFaults /\ faults' = faults + 1
  /\ updateFailed' = updateFailed \cup {c} /\ NotifyOf(c)
  /\ UNCHANGED <<stateVars, queueVars, pc, loopVars, execution, k, task, allTerminate, runVars, resets>>

\* The tool returns or throws, afterToolCall runs, tool_execution_end is emitted.
ToolExecuted(c) ==
  /\ task[c] = "running" /\ c \notin updateFailed
  /\ pendingToolCalls' = pendingToolCalls \ {c}
  /\ \E terminate \in BOOLEAN :
       allTerminate' = IF c[1] = turn THEN allTerminate /\ terminate ELSE allTerminate
  /\ IF activeRun = "none"
       THEN task' = [task EXCEPT ![c] = "done"] /\ UNCHANGED <<ended, late>>
       ELSE task' = [task EXCEPT ![c] = "ending"] /\ NotifyOf(c)
  /\ UNCHANGED <<messages, streaming, isStreaming, activeRun, queueVars, pc, loopVars, execution,
                 k, updateFailed, runVars, resets, faults>>

ToolEndSettles(c) ==
  /\ task[c] = "ending" /\ task' = [task EXCEPT ![c] = "done"]
  /\ UNCHANGED <<stateVars, queueVars, pc, loopVars, execution, k, updateFailed, allTerminate,
                 runVars, resets, faults, ended, late>>

(***************************************************************************)
(* Failures.  A rejected listener or hook unwinds the run to               *)
(* runWithLifecycle, whose handleRunFailure reports a failure message; if  *)
(* a listener rejects again, only finishRun is left to do.                 *)
(***************************************************************************)
FailRun ==
  LET failure == Assistant(0, 0, IF activeRun = "aborted" THEN "aborted" ELSE "error") IN
  /\ reply' = failure /\ pc' = "failure_start" /\ MessageStart(failure)
  /\ context' = <<>> /\ outbox' = <<>> /\ results' = <<>>

AwaitsListeners ==
  {"agent_start", "first_turn_start", "msg_start", "msg_end", "turn_start", "streaming",
   "reply_start", "reply_end", "tool_start", "tool_end", "turn_end", "final_turn_end", "agent_end"}
AwaitsHook == {"request", "stream"}

RunRejects ==
  /\ pc \in AwaitsListeners \cup AwaitsHook
  /\ faults < MaxFaults /\ faults' = faults + 1
  /\ FailRun
  /\ UNCHANGED <<messages, isStreaming, pendingToolCalls, activeRun, queueVars, stage, hasMore,
                 skipPoll, batchVars, runVars, resets>>

\* The promise of one call rejects; Promise.all rejects with it, the others run on.
ToolRejects(c) ==
  /\ \/ task[c] = "running" /\ c \in updateFailed /\ UNCHANGED faults
     \/ /\ task[c] = "ending"
        /\ faults < MaxFaults /\ faults' = faults + 1
  /\ task' = [task EXCEPT ![c] = "done"]
  /\ IF Awaited(c) THEN FailRun
       ELSE UNCHANGED <<reply, pc, streaming, context, outbox, results, ended, late>>
  /\ UNCHANGED <<messages, isStreaming, pendingToolCalls, activeRun, queueVars, stage, hasMore, skipPoll, execution, k, updateFailed, allTerminate,
                 runVars, resets>>

\* handleRunFailure, from here on.
FailureStartSettles ==
  /\ pc = "failure_start" /\ pc' = "failure_end" /\ MessageEnd(reply)
  /\ UNCHANGED <<isStreaming, pendingToolCalls, activeRun, queueVars, loopVars, batchVars,
                 runVars, resets, faults>>

FailureEndSettles ==
  /\ pc = "failure_end" /\ pc' = "failure_turn_end" /\ Notify
  /\ errorMessage' = TRUE
  /\ UNCHANGED <<stateVars, queueVars, loopVars, batchVars, turn, base, runs, dirty, resets, faults>>

\* Bug: handleRunFailure stops at turn_end.
Bug_FailureWithoutAgentEnd == pc = "failure_turn_end" /\ FinishRun /\ UNCHANGED faults

FailureTurnEndSettles ==
  /\ pc = "failure_turn_end" /\ pc' = "failure_agent_end" /\ AgentEnd
  /\ UNCHANGED <<messages, isStreaming, pendingToolCalls, activeRun, queueVars, loopVars,
                 batchVars, runVars, resets, faults>>

FailureAgentEndSettles == pc = "failure_agent_end" /\ FinishRun /\ UNCHANGED faults

FailureRejects ==
  /\ pc \in {"failure_start", "failure_end", "failure_turn_end", "failure_agent_end"}
  /\ faults <= MaxFaults /\ faults' = faults + 1
  /\ FinishRun

(***************************************************************************)
(* The specification.                                                      *)
(***************************************************************************)
UserStep ==
  \/ \E q \in Queues : Enqueue(q) \/ ClearQueue(q) \/ SetQueueMode(q) \/ ContinueFromQueue(q)
  \/ Abort \/ Reset \/ Prompt \/ ContinueFromTranscript \/ DropFailedReply

LoopStep ==
  \/ AgentStartSettles \/ FirstTurnStartSettles \/ MessageStartSettles
  \/ PromptDelivered \/ PendingDelivered \/ ResultDelivered
  \/ PollInitial \/ PollSteering \/ PollFollowUp \/ TurnStartSettles
  \/ SendRequest \/ StreamStarts \/ StreamEnds \/ ReplyStartSettles
  \/ ReplyFailed \/ ReplyWithoutCalls \/ ReplyWithCalls
  \/ ToolPrepared \/ ToolRefused \/ RefusalSettles \/ BatchSettled
  \/ TurnEndSettles \/ FinalTurnEndSettles \/ AgentEndSettles
  \/ FailureStartSettles \/ FailureEndSettles \/ FailureTurnEndSettles \/ FailureAgentEndSettles

ToolStep(c) == ToolExecuted(c) \/ ToolEndSettles(c) \/ ToolRejects(c)

Next ==
  \/ UserStep \/ LoopStep \/ RunRejects \/ FailureRejects
  \/ \E c \in Calls : ToolStep(c) \/ ToolUpdates(c) \/ UpdateRejected(c)

Spec == Init /\ [][Next]_vars

(***************************************************************************)
(* The provider, the tools, the hooks and the listeners return.            *)
(***************************************************************************)
FairSpec == Spec /\ WF_vars(LoopStep) /\ \A c \in Calls : WF_vars(ToolStep(c))

(***************************************************************************)
(* Properties.                                                             *)
(***************************************************************************)
PCs == AwaitsListeners \cup AwaitsHook \cup
       {"idle", "poll_initial", "poll_steering", "poll_follow_up", "tools_running",
        "failure_start", "failure_end", "failure_turn_end", "failure_agent_end"}

TranscriptType ==
  /\ messages \in Seq(Message) /\ context \in Seq(Message)
  /\ outbox \in Seq(Message) /\ results \in Seq(Message)
  /\ streaming \in Message \cup {NoMessage}
  /\ reply \in AssistantMessage \cup {NoMessage}
QueueType ==
  /\ queue \in [Queues -> Seq(UserMessage)] /\ qmode \in [Queues -> Modes]
  /\ unsent \subseteq Msgs /\ takenBack \subseteq UserMessage
ControlType ==
  /\ pc \in PCs /\ stage \in {"prompts", "pending", "results"}
  /\ activeRun \in {"none", "live", "aborted"}
  /\ (activeRun = "none") <=> (pc = "idle")
FlagType ==
  /\ isStreaming \in BOOLEAN /\ errorMessage \in BOOLEAN /\ allTerminate \in BOOLEAN
  /\ hasMore \in BOOLEAN /\ skipPoll \in BOOLEAN /\ ended \in BOOLEAN /\ dirty \in BOOLEAN
BatchType ==
  /\ pendingToolCalls \subseteq Calls /\ updateFailed \subseteq Calls
  /\ task \in [Calls -> {"none", "prepared", "running", "ending", "done"}]
  /\ execution \in {"parallel", "sequential"} /\ k \in 0..MaxCalls
HistoryType ==
  /\ turn \in Nat /\ base \in Nat /\ runs \in Nat /\ resets \in Nat /\ faults \in Nat
  /\ late \subseteq {"run", "tool"}

\* Every variable has its type, and a run is parked somewhere exactly while it is active.
TypeOK ==
  TranscriptType /\ QueueType /\ ControlType /\ FlagType /\ BatchType /\ HistoryType

\* The loop is inside a tool batch.
InBatch == \/ pc \in {"tool_start", "tool_end", "tools_running"}
           \/ pc \in {"msg_start", "msg_end"} /\ stage = "results"

\* What each await knows: the message in hand exists, the request was made, the call at hand
\* is one of the reply's.
Parked ==
  /\ pc \in {"agent_start", "first_turn_start"} => stage = "prompts"
  /\ pc = "turn_start" => stage = "pending"
  /\ pc \in {"msg_start", "msg_end"} => outbox # <<>>
  /\ pc \in {"stream", "streaming", "reply_start", "reply_end"} => turn > 0
  /\ pc = "streaming" => context # <<>>
  /\ pc \in {"reply_start", "reply_end", "failure_start"} => reply \in AssistantMessage
  /\ pc \in {"reply_start", "reply_end"} /\ reply.calls > 0 => turn <= MaxToolTurn
  /\ InBatch => reply \in AssistantMessage /\ k \in 1..reply.calls /\ turn \in 1..MaxToolTurn

\* How the loop's copy of the messages and Agent's transcript differ at each await: by the
\* prompts or the message still in hand, by the reply being streamed, by the batch's results.
NoResultsOutsideBatch == ~InBatch => results = <<>>
PromptsAhead ==
  /\ pc \in {"agent_start", "first_turn_start"} => context = messages \o outbox
  /\ pc = "msg_start" /\ stage = "prompts" => context = messages \o outbox
  /\ pc = "msg_end" /\ stage = "prompts" => context = messages \o Tail(outbox)
PendingInHand ==
  /\ pc = "msg_start" /\ stage = "pending" => context = messages
  /\ pc = "msg_end" /\ stage = "pending" => messages = Append(context, Head(outbox))
ResultsAside ==
  /\ pc \in {"tool_start", "tool_end", "tools_running"} => messages = context \o results
  /\ pc = "msg_start" /\ stage = "results" => messages = context \o results
  /\ pc = "msg_end" /\ stage = "results" => messages = context \o Append(results, Head(outbox))
ReplyAhead ==
  /\ pc = "streaming" => Front(context) = messages
  /\ pc = "reply_start" => context = Append(messages, reply)
Together ==
  pc \in {"poll_initial", "turn_start", "request", "stream", "reply_end", "turn_end",
          "poll_steering", "poll_follow_up"} => context = messages
CopiesAgree ==
  /\ NoResultsOutsideBatch
  /\ ~dirty => PromptsAhead /\ PendingInHand /\ ResultsAside /\ ReplyAhead /\ Together

\* What a request sends is the transcript the user sees: the loop's own copy of the
\* messages and Agent's, kept apart since the run began, agree at every request.
RequestSeesTranscript == pc = "request" /\ ~dirty => context = messages

\* A tool result follows its assistant message, or the result of the call before it, with
\* nothing in between: parallel tools finish in any order, results are in source order.
ResultsInSourceOrder ==
  \A i \in DOMAIN messages : messages[i].role = "toolResult" =>
    LET c == messages[i].call IN
    \/ i = 1 /\ resets > 0
    \/ i > 1 /\ IF c[2] = 1
                 THEN messages[i-1].role = "assistant" /\ messages[i-1].turn = c[1]
                 ELSE messages[i-1] = ToolResult(<<c[1], c[2] - 1>>)

\* A run that nobody aborted never asks the model again before every call it made is answered.
RequestIsPaired ==
  pc = "request" /\ activeRun = "live" =>
    \A i \in DOMAIN context :
      context[i].role = "assistant" /\ context[i].turn > base /\ ~Failed(context[i]) =>
        \A j \in 1..context[i].calls :
          i + j <= Len(context) /\ context[i+j] = ToolResult(<<context[i].turn, j>>)

\* When a turn ends no tool call is shown as pending, however the batch was cut short.
NoCallPendingAtTurnEnd ==
  pc \in {"turn_end", "request", "stream"} => pendingToolCalls = {}

\* agent_end is the last event of its run while no listener, hook or tool update rejects: no event of
\* the run comes after it, not even in a later run ("`agent_end` is the final emitted event",
\* agent.ts).  A rejection on one of several parallel calls lets the others report later.
AgentEndIsFinal == faults = 0 => late = {}

\* Outbox messages whose message_end has not been emitted.
Undelivered == IF pc = "msg_end" THEN Tail(outbox) ELSE outbox

\* The user's messages the run has picked up; a batch's results are no user's messages.
OfUser(box) == IF box # <<>> /\ Head(box).role = "user" THEN box ELSE <<>>
InHand == OfUser(Undelivered)
Phase == IF activeRun = "none" THEN "idle" ELSE IF ended THEN "concluded" ELSE "running"

Mailbox == INSTANCE AgentMailbox WITH
  phase      <- Phase,
  lanes      <- queue,
  hand       <- InHand,
  transcript <- messages,
  posted     <- Msgs \ unsent,
  failures   <- faults

\* Agent keeps the promise of AgentMailbox across drains, aborts, resets and continued runs: a message
\* that waits leaves its lane in order, to the run that delivers it or because the user called a clear
\* or reset(), and a message in hand is dropped only by the very step in which a listener or a hook
\* rejects.
MailboxKept == Mailbox!Spec

\* A listener rejects one of the events handleRunFailure itself emits.
FailureIsRejected ==
  /\ pc \in {"failure_start", "failure_end", "failure_turn_end", "failure_agent_end"}
  /\ faults' = faults + 1

\* A run is over only after its agent_end, unless a listener rejects one of the events with which
\* that very run reports its failure.
RunsEndWithAgentEnd ==
  [][activeRun # "none" /\ activeRun' = "none" => ended \/ FailureIsRejected]_vars

\* Every run settles: no batch waits for a call that was never started, no queue keeps it alive.
RunSettles == activeRun # "none" ~> activeRun = "none"
==============================================================================
