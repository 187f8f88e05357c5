----------------------------- MODULE AgentProofs -----------------------------
(***************************************************************************)
(* Theorems about Agent, for every value of its constants.                 *)
(***************************************************************************)
EXTENDS Agent, SequenceTheorems, TLAPS

\* The constructors build messages of their types, and all of them are messages.
LEMMA MessageTypes ==
  /\ UserMessage \subseteq Message /\ AssistantMessage \subseteq Message
  /\ ToolResultMessage \subseteq Message
  /\ \A m \in Msgs, l \in Lanes : User(m, l) \in UserMessage
  /\ \A t \in Nat, n \in 0..MaxCalls, st \in Stops : Assistant(t, n, st) \in AssistantMessage
  /\ \A c \in Calls : ToolResult(c) \in ToolResultMessage
  BY DEF Message, UserMessage, AssistantMessage, ToolResultMessage, User, Assistant, ToolResult

\* The message handleRunFailure makes is an assistant's.
LEMMA FailureReply ==
  Assistant(0, 0, "aborted") \in AssistantMessage /\ Assistant(0, 0, "error") \in AssistantMessage
<1>1. 0 \in Nat /\ 0 \in 0..MaxCalls
  BY BoundsAssumption
<1>2. "aborted" \in Stops /\ "error" \in Stops
  BY DEF Stops
<1> QED BY <1>1, <1>2, MessageTypes

\* Draining splits a queue into what is taken and what stays.
LEMMA DrainTypes ==
  ASSUME NEW q \in Queues, queue \in [Queues -> Seq(UserMessage)]
  PROVE  Drained(q) \in Seq(UserMessage) /\ Undrained(q) \in Seq(UserMessage)
  BY DEF Drained, Undrained

\* What the helpers on the outbox and the context return for a nonempty sequence.
LEMMA SeqFacts ==
  ASSUME NEW S, NEW s \in Seq(S), s # <<>>
  PROVE  Head(s) \in S /\ Tail(s) \in Seq(S) /\ Front(s) \in Seq(S) /\ Len(s) > 0
  BY DEF Front

\* A queue's messages may be put in the outbox.
LEMMA UserSeqs == \A s \in Seq(UserMessage) : s \in Seq(Message)
  BY MessageTypes

\* DeliverOr parks at the listeners of message_start only with a message in hand.
LEMMA DeliverOrType ==
  ASSUME TranscriptType, NEW next, NEW box \in Seq(Message), DeliverOr(next, box)
  PROVE  /\ outbox' \in Seq(Message) /\ streaming' \in Message \cup {NoMessage}
         /\ outbox' = box /\ pc' \in {next, "msg_start"}
         /\ pc' = "msg_start" /\ next # "msg_start" => outbox' # <<>>
<1>1. CASE box = <<>>
  BY <1>1 DEF DeliverOr, TranscriptType
<1>2. CASE box # <<>>
  BY <1>2, SeqFacts DEF DeliverOr, MessageStart, TranscriptType
<1> QED BY <1>1, <1>2

\* createMutableAgentState and the constructor give every variable its type.
LEMMA InitType == Init => TypeOK
<1> SUFFICES ASSUME Init PROVE TypeOK
  OBVIOUS
<1>1. TranscriptType BY DEF Init, TranscriptType
<1>2. QueueType BY DEF Init, QueueType
<1>3. ControlType BY DEF Init, ControlType, PCs
<1>6. FlagType BY DEF Init, FlagType
<1>4. BatchType BY BoundsAssumption DEF Init, BatchType
<1>5. HistoryType BY DEF Init, HistoryType
<1> QED BY <1>1, <1>2, <1>3, <1>4, <1>5, <1>6 DEF TypeOK

\* The inductive invariant of the types: what each await knows is part of it, because the
\* outbox must not be empty when its head is taken and the call at hand must be one of Calls.
TypeInv == TypeOK /\ Parked

\* No step of the user, the run or a tool breaks a type or leaves an await without what it needs.
LEMMA TypeStep == TypeInv /\ [Next]_vars => TypeInv'
<1> SUFFICES ASSUME TypeInv, [Next]_vars PROVE TypeInv'
  OBVIOUS
<1> USE DEF TypeInv, TypeOK
<1>1. ASSUME NEW q \in Queues, Enqueue(q) PROVE TypeInv'
  <2>1. TranscriptType'
    BY <1>1 DEF Enqueue, stateVars, loopVars, batchVars, runVars, TranscriptType
  <2>2. QueueType'
    <3>1. PICK m \in unsent : queue' = [queue EXCEPT ![q] = Append(@, User(m, q))] /\ unsent' = unsent \ {m}
      BY <1>1 DEF Enqueue
    <3>2. User(m, q) \in UserMessage
      BY MessageTypes DEF QueueType, Queues, Lanes
    <3> QED BY <1>1, <3>1, <3>2 DEF Enqueue, QueueType
  <2>3. ControlType'
    BY <1>1 DEF Enqueue, stateVars, loopVars, batchVars, runVars, ControlType, PCs, AwaitsListeners, AwaitsHook
  <2>4. FlagType'
    BY <1>1 DEF Enqueue, stateVars, loopVars, batchVars, runVars, FlagType
  <2>5. BatchType'
    BY <1>1 DEF Enqueue, stateVars, loopVars, batchVars, runVars, BatchType
  <2>6. HistoryType'
    BY <1>1 DEF Enqueue, stateVars, loopVars, batchVars, runVars, HistoryType
  <2>7. Parked'
    BY <1>1 DEF Enqueue, stateVars, loopVars, batchVars, runVars, Parked, InBatch
  <2> QED
    BY <2>1, <2>2, <2>3, <2>4, <2>5, <2>6, <2>7
<1>2. ASSUME NEW q \in Queues, ClearQueue(q) PROVE TypeInv'
  <2>1. Range(queue[q]) \subseteq UserMessage
    BY DEF Range, QueueType
  <2>2. QueueType'
    BY <1>2, <2>1 DEF ClearQueue, QueueType
  <2>3. TranscriptType' /\ ControlType' /\ FlagType' /\ BatchType' /\ HistoryType' /\ Parked'
    BY <1>2 DEF ClearQueue, stateVars, loopVars, batchVars, runVars, TranscriptType, ControlType, FlagType, BatchType, HistoryType, Parked, InBatch, PCs, AwaitsListeners, AwaitsHook
  <2> QED BY <2>2, <2>3
<1>3. ASSUME NEW q \in Queues, SetQueueMode(q) PROVE TypeInv'
  <2>1. TranscriptType'
    BY <1>3 DEF SetQueueMode, stateVars, loopVars, batchVars, runVars, TranscriptType
  <2>2. QueueType'
    BY <1>3 DEF SetQueueMode, stateVars, loopVars, batchVars, runVars, QueueType, queueVars
  <2>3. ControlType'
    BY <1>3 DEF SetQueueMode, stateVars, loopVars, batchVars, runVars, ControlType, PCs, AwaitsListeners, AwaitsHook
  <2>4. FlagType'
    BY <1>3 DEF SetQueueMode, stateVars, loopVars, batchVars, runVars, FlagType
  <2>5. BatchType'
    BY <1>3 DEF SetQueueMode, stateVars, loopVars, batchVars, runVars, BatchType
  <2>6. HistoryType'
    BY <1>3 DEF SetQueueMode, stateVars, loopVars, batchVars, runVars, HistoryType
  <2>7. Parked'
    BY <1>3 DEF SetQueueMode, stateVars, loopVars, batchVars, runVars, Parked, InBatch
  <2> QED
    BY <2>1, <2>2, <2>3, <2>4, <2>5, <2>6, <2>7
<1>4. ASSUME NEW q \in Queues, ContinueFromQueue(q) PROVE TypeInv'
  <2>1. TranscriptType'
    <3>1. Drained(q) \in Seq(Message)
      BY DrainTypes, UserSeqs DEF QueueType
    <3>2. context' = messages \o Drained(q) /\ outbox' = Drained(q) /\ results' = <<>> /\ streaming' = NoMessage
      BY <1>4 DEF ContinueFromQueue, StartRun
    <3>3. UNCHANGED <<messages, reply>>
      BY <1>4 DEF ContinueFromQueue, StartRun
    <3> QED BY <3>1, <3>2, <3>3 DEF TranscriptType
  <2>2. QueueType'
    <3>1. queue' = [queue EXCEPT ![q] = Undrained(q)] /\ UNCHANGED <<qmode, unsent, takenBack>>
      BY <1>4 DEF ContinueFromQueue, Drain
    <3>2. Undrained(q) \in Seq(UserMessage)
      BY DrainTypes DEF QueueType
    <3> QED BY <3>1, <3>2 DEF QueueType
  <2>3. ControlType'
    BY <1>4 DEF ContinueFromQueue, StartRun, Drain, batchVars, ControlType, PCs, AwaitsListeners, AwaitsHook
  <2>4. FlagType'
    BY <1>4 DEF ContinueFromQueue, StartRun, Drain, batchVars, FlagType
  <2>5. BatchType'
    BY <1>4 DEF ContinueFromQueue, StartRun, Drain, batchVars, BatchType
  <2>6. HistoryType'
    BY <1>4 DEF ContinueFromQueue, StartRun, Drain, batchVars, HistoryType
  <2>7. Parked'
    BY <1>4 DEF ContinueFromQueue, StartRun, Drain, batchVars, Parked, InBatch
  <2> QED
    BY <2>1, <2>2, <2>3, <2>4, <2>5, <2>6, <2>7
<1>5. CASE Abort
  BY <1>5 DEF Abort, queueVars, loopVars, batchVars, runVars, TranscriptType, QueueType, ControlType, FlagType, BatchType, HistoryType, Parked, InBatch, PCs, AwaitsListeners, AwaitsHook
<1>6. CASE Reset
  <2>1. TranscriptType'
    BY <1>6 DEF Reset, loopVars, batchVars, TranscriptType, stateVars
  <2>2. QueueType'
    <3>1. Range(queue["steer"]) \subseteq UserMessage /\ Range(queue["followUp"]) \subseteq UserMessage
      BY DEF Range, QueueType, Queues
    <3> QED BY <1>6, <3>1 DEF Reset, QueueType
  <2>3. ControlType'
    BY <1>6 DEF Reset, loopVars, batchVars, ControlType, PCs, AwaitsListeners, AwaitsHook
  <2>4. FlagType'
    BY <1>6 DEF Reset, loopVars, batchVars, FlagType
  <2>5. BatchType'
    BY <1>6 DEF Reset, loopVars, batchVars, BatchType
  <2>6. HistoryType'
    BY <1>6 DEF Reset, loopVars, batchVars, HistoryType
  <2>7. Parked'
    BY <1>6 DEF Reset, loopVars, batchVars, Parked, InBatch
  <2> QED
    BY <2>1, <2>2, <2>3, <2>4, <2>5, <2>6, <2>7
<1>7. CASE Prompt
  <2>1. TranscriptType'
    <3>1. PICK batch \in Batches(unsent) : StartRun([i \in DOMAIN batch |-> User(batch[i], "prompt")], FALSE)
      BY <1>7 DEF Prompt
    <3> DEFINE prompts == [i \in DOMAIN batch |-> User(batch[i], "prompt")]
    <3>2. PICK n \in 1..MaxPrompt : batch \in [1..n -> unsent]
      BY DEF Batches
    <3>3. \A i \in 1..n : User(batch[i], "prompt") \in Message
      BY <3>2, MessageTypes DEF QueueType, Lanes
    <3>4. n \in Nat /\ DOMAIN batch = 1..n
      BY <3>2
    <3>5. prompts \in Seq(Message)
      BY <3>3, <3>4
    <3>6. context' = messages \o prompts /\ outbox' = prompts /\ results' = <<>> /\ streaming' = NoMessage /\ UNCHANGED <<messages, reply>>
      BY <3>1 DEF StartRun
    <3> HIDE DEF prompts
    <3> QED BY <3>5, <3>6 DEF TranscriptType
  <2>2. QueueType'
    BY <1>7 DEF Prompt, StartRun, batchVars, QueueType, queueVars
  <2>3. ControlType'
    BY <1>7 DEF Prompt, StartRun, batchVars, ControlType, PCs, AwaitsListeners, AwaitsHook
  <2>4. FlagType'
    BY <1>7 DEF Prompt, StartRun, batchVars, FlagType
  <2>5. BatchType'
    BY <1>7 DEF Prompt, StartRun, batchVars, BatchType
  <2>6. HistoryType'
    BY <1>7 DEF Prompt, StartRun, batchVars, HistoryType
  <2>7. Parked'
    BY <1>7 DEF Prompt, StartRun, batchVars, Parked, InBatch
  <2> QED
    BY <2>1, <2>2, <2>3, <2>4, <2>5, <2>6, <2>7
<1>8. CASE ContinueFromTranscript
  <2>1. TranscriptType'
    BY <1>8 DEF ContinueFromTranscript, StartRun, queueVars, batchVars, TranscriptType, loopVars, stateVars
  <2>2. QueueType'
    BY <1>8 DEF ContinueFromTranscript, StartRun, queueVars, batchVars, QueueType
  <2>3. ControlType'
    BY <1>8 DEF ContinueFromTranscript, StartRun, queueVars, batchVars, ControlType, PCs, AwaitsListeners, AwaitsHook
  <2>4. FlagType'
    BY <1>8 DEF ContinueFromTranscript, StartRun, queueVars, batchVars, FlagType
  <2>5. BatchType'
    BY <1>8 DEF ContinueFromTranscript, StartRun, queueVars, batchVars, BatchType
  <2>6. HistoryType'
    BY <1>8 DEF ContinueFromTranscript, StartRun, queueVars, batchVars, HistoryType
  <2>7. Parked'
    BY <1>8 DEF ContinueFromTranscript, StartRun, queueVars, batchVars, Parked, InBatch
  <2> QED
    BY <2>1, <2>2, <2>3, <2>4, <2>5, <2>6, <2>7
<1>9. CASE DropFailedReply
  <2>1. TranscriptType'
    <3>1. messages # <<>> /\ messages' = Front(messages) /\ UNCHANGED <<context, outbox, results, streaming, reply>>
      BY <1>9 DEF DropFailedReply, loopVars
    <3>2. Front(messages) \in Seq(Message)
      BY <3>1, SeqFacts DEF TranscriptType
    <3> QED BY <3>1, <3>2 DEF TranscriptType
  <2>2. QueueType'
    BY <1>9 DEF DropFailedReply, queueVars, loopVars, batchVars, runVars, QueueType
  <2>3. ControlType'
    BY <1>9 DEF DropFailedReply, queueVars, loopVars, batchVars, runVars, ControlType, PCs, AwaitsListeners, AwaitsHook
  <2>4. FlagType'
    BY <1>9 DEF DropFailedReply, queueVars, loopVars, batchVars, runVars, FlagType
  <2>5. BatchType'
    BY <1>9 DEF DropFailedReply, queueVars, loopVars, batchVars, runVars, BatchType
  <2>6. HistoryType'
    BY <1>9 DEF DropFailedReply, queueVars, loopVars, batchVars, runVars, HistoryType
  <2>7. Parked'
    BY <1>9 DEF DropFailedReply, queueVars, loopVars, batchVars, runVars, Parked, InBatch
  <2> QED
    BY <2>1, <2>2, <2>3, <2>4, <2>5, <2>6, <2>7
<1>10. CASE AgentStartSettles
  BY <1>10 DEF AgentStartSettles, Notify, stateVars, queueVars, loopVars, batchVars, runVars, TranscriptType, QueueType, ControlType, FlagType, BatchType, HistoryType, Parked, InBatch, PCs, AwaitsListeners, AwaitsHook
<1>11. CASE FirstTurnStartSettles
  <2>1. TranscriptType'
    BY <1>11 DEF FirstTurnStartSettles, Notify, MessageStart, DeliverOr, queueVars, batchVars, runVars, TranscriptType, loopVars, stateVars
  <2>2. QueueType'
    BY <1>11 DEF FirstTurnStartSettles, Notify, MessageStart, DeliverOr, queueVars, batchVars, runVars, QueueType
  <2>3. ControlType'
    BY <1>11 DEF FirstTurnStartSettles, Notify, MessageStart, DeliverOr, queueVars, batchVars, runVars, ControlType, PCs, AwaitsListeners, AwaitsHook
  <2>4. FlagType'
    BY <1>11 DEF FirstTurnStartSettles, Notify, MessageStart, DeliverOr, queueVars, batchVars, runVars, FlagType
  <2>5. BatchType'
    BY <1>11 DEF FirstTurnStartSettles, Notify, MessageStart, DeliverOr, queueVars, batchVars, runVars, BatchType
  <2>6. HistoryType'
    BY <1>11 DEF FirstTurnStartSettles, Notify, MessageStart, DeliverOr, queueVars, batchVars, runVars, HistoryType
  <2>7. Parked'
    BY <1>11, DeliverOrType DEF FirstTurnStartSettles, Notify, MessageStart, DeliverOr, queueVars, batchVars, runVars, Parked, InBatch
  <2> QED
    BY <2>1, <2>2, <2>3, <2>4, <2>5, <2>6, <2>7
<1>12. CASE MessageStartSettles
  BY <1>12 DEF MessageStartSettles, Notify, MessageEnd, queueVars, loopVars, batchVars, runVars, TranscriptType, QueueType, ControlType, FlagType, BatchType, HistoryType, Parked, InBatch, PCs, AwaitsListeners, AwaitsHook
<1>13. CASE PromptDelivered
  <2>1. TranscriptType'
    <3>1. Head(outbox) \in Message /\ Tail(outbox) \in Seq(Message)
      BY <1>13, SeqFacts DEF PromptDelivered, TranscriptType, Parked
    <3>2. DeliverOr("poll_initial", Tail(outbox))
      BY <1>13 DEF PromptDelivered
    <3>3. outbox' \in Seq(Message) /\ streaming' \in Message \cup {NoMessage}
      BY <3>1, <3>2, DeliverOrType
    <3> QED BY <1>13, <3>3 DEF PromptDelivered, TranscriptType
  <2>2. QueueType'
    BY <1>13 DEF PromptDelivered, Notify, MessageStart, DeliverOr, queueVars, batchVars, runVars, QueueType
  <2>3. ControlType'
    BY <1>13 DEF PromptDelivered, Notify, MessageStart, DeliverOr, queueVars, batchVars, runVars, ControlType, PCs, AwaitsListeners, AwaitsHook
  <2>4. FlagType'
    BY <1>13 DEF PromptDelivered, Notify, MessageStart, DeliverOr, queueVars, batchVars, runVars, FlagType
  <2>5. BatchType'
    BY <1>13 DEF PromptDelivered, Notify, MessageStart, DeliverOr, queueVars, batchVars, runVars, BatchType
  <2>6. HistoryType'
    BY <1>13 DEF PromptDelivered, Notify, MessageStart, DeliverOr, queueVars, batchVars, runVars, HistoryType
  <2>7. Parked'
    BY <1>13 DEF PromptDelivered, Notify, MessageStart, DeliverOr, queueVars, batchVars, runVars, Parked, InBatch
  <2> QED
    BY <2>1, <2>2, <2>3, <2>4, <2>5, <2>6, <2>7
<1>14. CASE PendingDelivered
  <2>1. TranscriptType'
    <3>1. Head(outbox) \in Message /\ Tail(outbox) \in Seq(Message)
      BY <1>14, SeqFacts DEF PendingDelivered, TranscriptType, Parked
    <3>2. DeliverOr("request", Tail(outbox))
      BY <1>14 DEF PendingDelivered
    <3>3. outbox' \in Seq(Message) /\ streaming' \in Message \cup {NoMessage}
      BY <3>1, <3>2, DeliverOrType
    <3> QED BY <1>14, <3>3, <3>1 DEF PendingDelivered, TranscriptType
  <2>2. QueueType'
    BY <1>14 DEF PendingDelivered, Notify, MessageStart, DeliverOr, queueVars, batchVars, runVars, QueueType
  <2>3. ControlType'
    BY <1>14 DEF PendingDelivered, Notify, MessageStart, DeliverOr, queueVars, batchVars, runVars, ControlType, PCs, AwaitsListeners, AwaitsHook
  <2>4. FlagType'
    BY <1>14 DEF PendingDelivered, Notify, MessageStart, DeliverOr, queueVars, batchVars, runVars, FlagType
  <2>5. BatchType'
    BY <1>14 DEF PendingDelivered, Notify, MessageStart, DeliverOr, queueVars, batchVars, runVars, BatchType
  <2>6. HistoryType'
    BY <1>14 DEF PendingDelivered, Notify, MessageStart, DeliverOr, queueVars, batchVars, runVars, HistoryType
  <2>7. Parked'
    BY <1>14 DEF PendingDelivered, Notify, MessageStart, DeliverOr, queueVars, batchVars, runVars, Parked, InBatch
  <2> QED
    BY <2>1, <2>2, <2>3, <2>4, <2>5, <2>6, <2>7
<1>15. CASE ResultDelivered
  <2>1. TranscriptType'
    <3> DEFINE batch == Append(results, Head(outbox))
    <3>1. Tail(outbox) \in Seq(Message) /\ batch \in Seq(Message)
      BY <1>15, SeqFacts DEF ResultDelivered, TranscriptType, Parked
    <3>2. UNCHANGED <<messages, reply>>
      BY <1>15 DEF ResultDelivered
    <3>3. CASE Tail(outbox) # <<>>
      <4>1. DeliverOr("turn_end", Tail(outbox)) /\ results' = batch /\ UNCHANGED context
        BY <1>15, <3>3 DEF ResultDelivered
      <4>2. outbox' \in Seq(Message) /\ streaming' \in Message \cup {NoMessage}
        BY <3>1, <4>1, DeliverOrType
      <4> QED BY <3>1, <3>2, <4>1, <4>2 DEF TranscriptType
    <3>4. CASE Tail(outbox) = <<>>
      <4>1. context' \in {context, context \o batch} /\ (results' = batch \/ results' = <<>>) /\ outbox' = <<>> /\ UNCHANGED streaming
        BY <1>15, <3>4 DEF ResultDelivered, EndTurn
      <4>2. context \o batch \in Seq(Message)
        BY <3>1 DEF TranscriptType
      <4>3. context' \in Seq(Message)
        BY <4>1, <4>2 DEF TranscriptType
      <4>4. results' \in Seq(Message)
        <5>1. CASE results' = batch
          BY <5>1, <3>1
        <5>2. CASE results' = <<>>
          BY <5>2 DEF TranscriptType
        <5> QED BY <4>1, <5>1, <5>2
      <4>5. outbox' \in Seq(Message)
        BY <4>1 DEF TranscriptType
      <4>6. UNCHANGED <<messages, streaming, reply>>
        BY <3>2, <4>1
      <4> QED BY <4>3, <4>4, <4>5, <4>6 DEF TranscriptType
    <3> QED BY <3>3, <3>4
  <2>2. QueueType'
    BY <1>15 DEF ResultDelivered, Notify, MessageStart, DeliverOr, StartCall, EndTurn, CallsToGo, queueVars, runVars, QueueType
  <2>3. ControlType'
    BY <1>15 DEF ResultDelivered, Notify, MessageStart, DeliverOr, StartCall, EndTurn, CallsToGo, queueVars, runVars, ControlType, PCs, AwaitsListeners, AwaitsHook
  <2>4. FlagType'
    BY <1>15 DEF ResultDelivered, Notify, MessageStart, DeliverOr, StartCall, EndTurn, CallsToGo, queueVars, runVars, FlagType
  <2>5. BatchType'
    <3>0. turn \in 1..MaxToolTurn /\ reply \in AssistantMessage
      BY <1>15 DEF ResultDelivered, Parked, InBatch
    <3>1. \A i \in 1..reply.calls : <<turn, i>> \in Calls
      BY <3>0, BoundsAssumption DEF Calls, AssistantMessage
    <3>2. reply.calls \in 0..MaxCalls
      BY <1>15 DEF ResultDelivered, Parked, InBatch, AssistantMessage
    <3>3. \/ UNCHANGED <<k, pendingToolCalls>>
          \/ k < reply.calls /\ k' = k + 1 /\ pendingToolCalls' = pendingToolCalls \cup {<<turn, k + 1>>}
      BY <1>15 DEF ResultDelivered, StartCall, CallsToGo
    <3>4. UNCHANGED <<task, execution, updateFailed>>
      BY <1>15 DEF ResultDelivered
    <3>5. k' \in 0..MaxCalls /\ pendingToolCalls' \subseteq Calls
      BY <3>1, <3>2, <3>3, BoundsAssumption DEF BatchType
    <3> QED BY <3>4, <3>5 DEF BatchType
  <2>6. HistoryType'
    BY <1>15 DEF ResultDelivered, Notify, MessageStart, DeliverOr, StartCall, EndTurn, CallsToGo, queueVars, runVars, HistoryType
  <2>7. Parked'
    <3>1. reply \in AssistantMessage /\ k \in 1..reply.calls /\ reply.calls \in Nat /\ turn \in 1..MaxToolTurn
      BY <1>15, BoundsAssumption DEF ResultDelivered, Parked, InBatch, AssistantMessage
    <3>2. UNCHANGED <<turn, reply, stage>>
      BY <1>15 DEF ResultDelivered, runVars
    <3>3. \/ pc' = "msg_start" /\ outbox' # <<>> /\ UNCHANGED k
          \/ pc' = "tool_start" /\ k < reply.calls /\ k' = k + 1
          \/ pc' = "turn_end" /\ UNCHANGED k
      BY <1>15 DEF ResultDelivered, DeliverOr, StartCall, CallsToGo, EndTurn
    <3> QED BY <3>1, <3>2, <3>3 DEF Parked, InBatch
  <2> QED
    BY <2>1, <2>2, <2>3, <2>4, <2>5, <2>6, <2>7
<1>16. CASE PollInitial
  <2>1. TranscriptType'
    <3>1. Drained("steer") \in Seq(Message) /\ <<>> \in Seq(Message)
      BY DrainTypes, UserSeqs DEF QueueType, Queues
    <3>2. DeliverOr("request", <<>>) \/ DeliverOr("request", Drained("steer"))
      BY <1>16 DEF PollInitial
    <3>3. outbox' \in Seq(Message) /\ streaming' \in Message \cup {NoMessage}
      BY <3>1, <3>2, DeliverOrType
    <3> QED BY <1>16, <3>3 DEF PollInitial, TranscriptType
  <2>2. QueueType'
    <3>1. UNCHANGED <<qmode, unsent, takenBack>> /\ queue' \in {queue, [queue EXCEPT !["steer"] = Undrained("steer")]}
      BY <1>16 DEF PollInitial, Drain, queueVars
    <3>2. Undrained("steer") \in Seq(UserMessage)
      BY DrainTypes DEF QueueType, Queues
    <3> QED BY <3>1, <3>2 DEF QueueType
  <2>3. ControlType'
    BY <1>16 DEF PollInitial, Notify, MessageStart, DeliverOr, Drain, queueVars, batchVars, runVars, ControlType, PCs, AwaitsListeners, AwaitsHook
  <2>4. FlagType'
    BY <1>16 DEF PollInitial, Notify, MessageStart, DeliverOr, Drain, queueVars, batchVars, runVars, FlagType
  <2>5. BatchType'
    BY <1>16 DEF PollInitial, Notify, MessageStart, DeliverOr, Drain, queueVars, batchVars, runVars, BatchType
  <2>6. HistoryType'
    BY <1>16 DEF PollInitial, Notify, MessageStart, DeliverOr, Drain, queueVars, batchVars, runVars, HistoryType
  <2>7. Parked'
    BY <1>16 DEF PollInitial, Notify, MessageStart, DeliverOr, Drain, queueVars, batchVars, runVars, Parked, InBatch
  <2> QED
    BY <2>1, <2>2, <2>3, <2>4, <2>5, <2>6, <2>7
<1>17. CASE PollSteering
  <2>1. TranscriptType'
    <3>1. Drained("steer") \in Seq(Message)
      BY DrainTypes, UserSeqs DEF QueueType, Queues
    <3>2. outbox' \in {outbox, Drained("steer")} /\ streaming' \in {streaming, NoMessage}
      BY <1>17 DEF PollSteering, NextTurn, AgentEnd
    <3>3. UNCHANGED <<messages, context, results, reply>>
      BY <1>17 DEF PollSteering
    <3> QED BY <3>1, <3>2, <3>3 DEF TranscriptType
  <2>2. QueueType'
    <3>1. UNCHANGED <<qmode, unsent, takenBack>> /\ queue' \in {queue, [queue EXCEPT !["steer"] = Undrained("steer")]}
      BY <1>17 DEF PollSteering, Drain, queueVars
    <3>2. Undrained("steer") \in Seq(UserMessage)
      BY DrainTypes DEF QueueType, Queues
    <3> QED BY <3>1, <3>2 DEF QueueType
  <2>3. ControlType'
    BY <1>17 DEF PollSteering, Notify, NextTurn, Drain, batchVars, runVars, ControlType, PCs, AwaitsListeners, AwaitsHook
  <2>4. FlagType'
    BY <1>17 DEF PollSteering, Notify, NextTurn, Drain, batchVars, runVars, FlagType
  <2>5. BatchType'
    BY <1>17 DEF PollSteering, Notify, NextTurn, Drain, batchVars, runVars, BatchType
  <2>6. HistoryType'
    BY <1>17 DEF PollSteering, Notify, NextTurn, Drain, batchVars, runVars, HistoryType
  <2>7. Parked'
    BY <1>17 DEF PollSteering, Notify, NextTurn, Drain, batchVars, runVars, Parked, InBatch
  <2> QED
    BY <2>1, <2>2, <2>3, <2>4, <2>5, <2>6, <2>7
<1>18. CASE PollFollowUp
  <2>1. TranscriptType'
    <3>1. Drained("followUp") \in Seq(Message)
      BY DrainTypes, UserSeqs DEF QueueType, Queues
    <3>2. outbox' \in {outbox, Drained("followUp")} /\ streaming' \in {streaming, NoMessage}
      BY <1>18 DEF PollFollowUp, NextTurn, AgentEnd
    <3>3. UNCHANGED <<messages, context, results, reply>>
      BY <1>18 DEF PollFollowUp
    <3> QED BY <3>1, <3>2, <3>3 DEF TranscriptType
  <2>2. QueueType'
    <3>1. UNCHANGED <<qmode, unsent, takenBack>> /\ queue' \in {queue, [queue EXCEPT !["followUp"] = Undrained("followUp")]}
      BY <1>18 DEF PollFollowUp, Drain, queueVars
    <3>2. Undrained("followUp") \in Seq(UserMessage)
      BY DrainTypes DEF QueueType, Queues
    <3> QED BY <3>1, <3>2 DEF QueueType
  <2>3. ControlType'
    BY <1>18 DEF PollFollowUp, Notify, AgentEnd, NextTurn, Drain, batchVars, runVars, ControlType, PCs, AwaitsListeners, AwaitsHook
  <2>4. FlagType'
    BY <1>18 DEF PollFollowUp, Notify, AgentEnd, NextTurn, Drain, batchVars, runVars, FlagType
  <2>5. BatchType'
    BY <1>18 DEF PollFollowUp, Notify, AgentEnd, NextTurn, Drain, batchVars, runVars, BatchType
  <2>6. HistoryType'
    BY <1>18 DEF PollFollowUp, Notify, AgentEnd, NextTurn, Drain, batchVars, runVars, HistoryType
  <2>7. Parked'
    BY <1>18 DEF PollFollowUp, Notify, AgentEnd, NextTurn, Drain, batchVars, runVars, Parked, InBatch
  <2> QED
    BY <2>1, <2>2, <2>3, <2>4, <2>5, <2>6, <2>7
<1>19. CASE TurnStartSettles
  <2>1. TranscriptType'
    BY <1>19 DEF TurnStartSettles, Notify, MessageStart, DeliverOr, queueVars, batchVars, runVars, TranscriptType, loopVars, stateVars
  <2>2. QueueType'
    BY <1>19 DEF TurnStartSettles, Notify, MessageStart, DeliverOr, queueVars, batchVars, runVars, QueueType
  <2>3. ControlType'
    BY <1>19 DEF TurnStartSettles, Notify, MessageStart, DeliverOr, queueVars, batchVars, runVars, ControlType, PCs, AwaitsListeners, AwaitsHook
  <2>4. FlagType'
    BY <1>19 DEF TurnStartSettles, Notify, MessageStart, DeliverOr, queueVars, batchVars, runVars, FlagType
  <2>5. BatchType'
    BY <1>19 DEF TurnStartSettles, Notify, MessageStart, DeliverOr, queueVars, batchVars, runVars, BatchType
  <2>6. HistoryType'
    BY <1>19 DEF TurnStartSettles, Notify, MessageStart, DeliverOr, queueVars, batchVars, runVars, HistoryType
  <2>7. Parked'
    BY <1>19, DeliverOrType DEF TurnStartSettles, Notify, MessageStart, DeliverOr, queueVars, batchVars, runVars, Parked, InBatch
  <2> QED
    BY <2>1, <2>2, <2>3, <2>4, <2>5, <2>6, <2>7
<1>20. CASE SendRequest
  BY <1>20 DEF SendRequest, stateVars, queueVars, loopVars, batchVars, TranscriptType, QueueType, ControlType, FlagType, BatchType, HistoryType, Parked, InBatch, PCs, AwaitsListeners, AwaitsHook
<1>21. CASE StreamStarts
  <2>1. TranscriptType'
    <3>1. Partial \in Message
      BY MessageTypes, BoundsAssumption DEF Partial, Stops, HistoryType
    <3>2. context' = Append(context, Partial) /\ streaming' = Partial /\ UNCHANGED <<messages, outbox, results, reply>>
      BY <1>21 DEF StreamStarts, MessageStart
    <3> QED BY <3>1, <3>2 DEF TranscriptType
  <2>2. QueueType'
    BY <1>21 DEF StreamStarts, Notify, MessageStart, Partial, queueVars, batchVars, runVars, QueueType
  <2>3. ControlType'
    BY <1>21 DEF StreamStarts, Notify, MessageStart, Partial, queueVars, batchVars, runVars, ControlType, PCs, AwaitsListeners, AwaitsHook
  <2>4. FlagType'
    BY <1>21 DEF StreamStarts, Notify, MessageStart, Partial, queueVars, batchVars, runVars, FlagType
  <2>5. BatchType'
    BY <1>21 DEF StreamStarts, Notify, MessageStart, Partial, queueVars, batchVars, runVars, BatchType
  <2>6. HistoryType'
    BY <1>21 DEF StreamStarts, Notify, MessageStart, Partial, queueVars, batchVars, runVars, HistoryType
  <2>7. Parked'
    BY <1>21 DEF StreamStarts, Notify, MessageStart, Partial, queueVars, batchVars, runVars, Parked, InBatch
  <2> QED
    BY <2>1, <2>2, <2>3, <2>4, <2>5, <2>6, <2>7
<1>22. CASE StreamEnds
  <2>1. TranscriptType'
    <3>1. reply' \in Answers
      BY <1>22 DEF StreamEnds
    <3>2. reply' \in AssistantMessage
      BY <3>1, BoundsAssumption DEF Answers, AssistantMessage, Stops, HistoryType
    <3>3. reply' \in Message
      BY <3>2, MessageTypes
    <3>4. CASE pc = "streaming"
      <4>1. context' = Append(Front(context), reply') /\ messages' = Append(messages, reply') /\ streaming' = NoMessage /\ UNCHANGED <<outbox, results>>
        BY <1>22, <3>4 DEF StreamEnds, MessageEnd
      <4>2. Front(context) \in Seq(Message)
        BY <3>4, SeqFacts DEF TranscriptType, Parked
      <4> QED BY <3>2, <3>3, <4>1, <4>2 DEF TranscriptType
    <3>5. CASE pc = "stream"
      <4>1. context' = Append(context, reply') /\ streaming' = reply' /\ UNCHANGED <<messages, outbox, results>>
        BY <1>22, <3>5 DEF StreamEnds, MessageStart
      <4> QED BY <3>2, <3>3, <4>1 DEF TranscriptType
    <3> QED BY <1>22, <3>4, <3>5 DEF StreamEnds
  <2>2. QueueType'
    BY <1>22 DEF StreamEnds, Notify, MessageStart, MessageEnd, Answers, queueVars, batchVars, runVars, QueueType
  <2>3. ControlType'
    BY <1>22 DEF StreamEnds, Notify, MessageStart, MessageEnd, Answers, queueVars, batchVars, runVars, ControlType, PCs, AwaitsListeners, AwaitsHook
  <2>4. FlagType'
    BY <1>22 DEF StreamEnds, Notify, MessageStart, MessageEnd, Answers, queueVars, batchVars, runVars, FlagType
  <2>5. BatchType'
    BY <1>22 DEF StreamEnds, Notify, MessageStart, MessageEnd, Answers, queueVars, batchVars, runVars, BatchType
  <2>6. HistoryType'
    BY <1>22 DEF StreamEnds, Notify, MessageStart, MessageEnd, Answers, queueVars, batchVars, runVars, HistoryType
  <2>7. Parked'
    <3>1. reply' \in Answers
      BY <1>22 DEF StreamEnds
    <3>2. reply' \in AssistantMessage
      BY <3>1, BoundsAssumption DEF Answers, AssistantMessage, Stops, HistoryType
    <3>3. reply' \in Message
      BY <3>2, MessageTypes
    <3>4. reply'.calls > 0 => turn <= MaxToolTurn
      BY <3>1, BoundsAssumption DEF Answers, HistoryType
    <3>5. pc \in {"stream", "streaming"} /\ pc' \in {"reply_start", "reply_end"} /\ UNCHANGED turn
      BY <1>22 DEF StreamEnds, runVars
    <3> QED BY <3>2, <3>4, <3>5 DEF Parked, InBatch
  <2> QED
    BY <2>1, <2>2, <2>3, <2>4, <2>5, <2>6, <2>7
<1>23. CASE ReplyStartSettles
  <2>1. TranscriptType'
    <3>1. reply \in Message
      BY <1>23, MessageTypes DEF ReplyStartSettles, Parked
    <3>2. messages' = Append(messages, reply) /\ streaming' = NoMessage /\ UNCHANGED loopVars
      BY <1>23 DEF ReplyStartSettles, MessageEnd
    <3> QED BY <3>1, <3>2 DEF TranscriptType, loopVars
  <2>2. QueueType'
    BY <1>23 DEF ReplyStartSettles, Notify, MessageEnd, queueVars, loopVars, batchVars, runVars, QueueType
  <2>3. ControlType'
    BY <1>23 DEF ReplyStartSettles, Notify, MessageEnd, queueVars, loopVars, batchVars, runVars, ControlType, PCs, AwaitsListeners, AwaitsHook
  <2>4. FlagType'
    BY <1>23 DEF ReplyStartSettles, Notify, MessageEnd, queueVars, loopVars, batchVars, runVars, FlagType
  <2>5. BatchType'
    BY <1>23 DEF ReplyStartSettles, Notify, MessageEnd, queueVars, loopVars, batchVars, runVars, BatchType
  <2>6. HistoryType'
    BY <1>23 DEF ReplyStartSettles, Notify, MessageEnd, queueVars, loopVars, batchVars, runVars, HistoryType
  <2>7. Parked'
    BY <1>23 DEF ReplyStartSettles, Notify, MessageEnd, queueVars, loopVars, batchVars, runVars, Parked, InBatch
  <2> QED
    BY <2>1, <2>2, <2>3, <2>4, <2>5, <2>6, <2>7
<1>24. CASE ReplyFailed
  BY <1>24 DEF ReplyFailed, Notify, Failed, stateVars, queueVars, loopVars, batchVars, TranscriptType, QueueType, ControlType, FlagType, BatchType, HistoryType, Parked, InBatch, PCs, AwaitsListeners, AwaitsHook
<1>25. CASE ReplyWithoutCalls
  <2>1. TranscriptType'
    BY <1>25 DEF ReplyWithoutCalls, Notify, EndTurn, Failed, stateVars, queueVars, batchVars, runVars, TranscriptType, loopVars
  <2>2. QueueType'
    BY <1>25 DEF ReplyWithoutCalls, Notify, EndTurn, Failed, stateVars, queueVars, batchVars, runVars, QueueType
  <2>3. ControlType'
    BY <1>25 DEF ReplyWithoutCalls, Notify, EndTurn, Failed, stateVars, queueVars, batchVars, runVars, ControlType, PCs, AwaitsListeners, AwaitsHook
  <2>4. FlagType'
    BY <1>25 DEF ReplyWithoutCalls, Notify, EndTurn, Failed, stateVars, queueVars, batchVars, runVars, FlagType
  <2>5. BatchType'
    BY <1>25 DEF ReplyWithoutCalls, Notify, EndTurn, Failed, stateVars, queueVars, batchVars, runVars, BatchType
  <2>6. HistoryType'
    BY <1>25 DEF ReplyWithoutCalls, Notify, EndTurn, Failed, stateVars, queueVars, batchVars, runVars, HistoryType
  <2>7. Parked'
    BY <1>25 DEF ReplyWithoutCalls, Notify, EndTurn, Failed, stateVars, queueVars, batchVars, runVars, Parked, InBatch
  <2> QED
    BY <2>1, <2>2, <2>3, <2>4, <2>5, <2>6, <2>7
<1>26. CASE ReplyWithCalls
  <2>1. TranscriptType'
    BY <1>26 DEF ReplyWithCalls, Notify, StartCall, Failed, queueVars, loopVars, runVars, TranscriptType, stateVars
  <2>2. QueueType'
    BY <1>26 DEF ReplyWithCalls, Notify, StartCall, Failed, queueVars, loopVars, runVars, QueueType
  <2>3. ControlType'
    BY <1>26 DEF ReplyWithCalls, Notify, StartCall, Failed, queueVars, loopVars, runVars, ControlType, PCs, AwaitsListeners, AwaitsHook
  <2>4. FlagType'
    BY <1>26 DEF ReplyWithCalls, Notify, StartCall, Failed, queueVars, loopVars, runVars, FlagType
  <2>5. BatchType'
    <3>1. reply.calls \in 1..MaxCalls /\ <<turn, 1>> \in Calls
      BY <1>26, BoundsAssumption DEF ReplyWithCalls, Calls, Parked, AssistantMessage, HistoryType
    <3>2. k' = 1 /\ pendingToolCalls' = pendingToolCalls \cup {<<turn, 1>>} /\ execution' \in Executions /\ UNCHANGED <<task, updateFailed>>
      BY <1>26 DEF ReplyWithCalls, StartCall
    <3> QED BY <3>1, <3>2, BoundsAssumption DEF BatchType
  <2>6. HistoryType'
    BY <1>26 DEF ReplyWithCalls, Notify, StartCall, Failed, queueVars, loopVars, runVars, HistoryType
  <2>7. Parked'
    <3>1. reply \in AssistantMessage /\ reply.calls \in 1..MaxCalls /\ turn \in 1..MaxToolTurn
      BY <1>26, BoundsAssumption DEF ReplyWithCalls, Parked, AssistantMessage, HistoryType
    <3>2. k' = 1 /\ pc' = "tool_start" /\ UNCHANGED <<turn, reply>>
      BY <1>26 DEF ReplyWithCalls, StartCall, loopVars, runVars
    <3> QED BY <3>1, <3>2, BoundsAssumption DEF Parked, InBatch
  <2> QED
    BY <2>1, <2>2, <2>3, <2>4, <2>5, <2>6, <2>7
<1>27. CASE ToolPrepared
  <2>1. TranscriptType'
    BY <1>27 DEF ToolPrepared, Notify, StartCall, Launch, NextCall, CallsToGo, Call, queueVars, loopVars, runVars, TranscriptType, stateVars
  <2>2. QueueType'
    BY <1>27 DEF ToolPrepared, Notify, StartCall, Launch, NextCall, CallsToGo, Call, queueVars, loopVars, runVars, QueueType
  <2>3. ControlType'
    BY <1>27 DEF ToolPrepared, Notify, StartCall, Launch, NextCall, CallsToGo, Call, queueVars, loopVars, runVars, ControlType, PCs, AwaitsListeners, AwaitsHook
  <2>4. FlagType'
    BY <1>27 DEF ToolPrepared, Notify, StartCall, Launch, NextCall, CallsToGo, Call, queueVars, loopVars, runVars, FlagType
  <2>5. BatchType'
    <3>1. \A i \in 1..reply.calls : <<turn, i>> \in Calls
      BY <1>27, BoundsAssumption DEF ToolPrepared, Calls, Parked, InBatch, AssistantMessage, HistoryType
    <3>2. reply.calls \in 0..MaxCalls
      BY <1>27 DEF ToolPrepared, Parked, InBatch, AssistantMessage
    <3> DEFINE tasks == [task EXCEPT ![Call] = "prepared"]
    <3>3. tasks \in [Calls -> {"none", "prepared", "running", "ending", "done"}]
      BY DEF BatchType
    <3>4. task' \in [Calls -> {"none", "prepared", "running", "ending", "done"}]
      BY <1>27, <3>3 DEF ToolPrepared, Launch, NextCall
    <3>5. \/ UNCHANGED <<k, pendingToolCalls>>
          \/ k < reply.calls /\ k' = k + 1 /\ pendingToolCalls' = pendingToolCalls \cup {<<turn, k + 1>>}
      BY <1>27 DEF ToolPrepared, Launch, NextCall, StartCall, CallsToGo
    <3>6. k' \in 0..MaxCalls /\ pendingToolCalls' \subseteq Calls
      BY <3>1, <3>2, <3>5, BoundsAssumption DEF BatchType
    <3>7. UNCHANGED <<execution, updateFailed>>
      BY <1>27 DEF ToolPrepared
    <3> QED BY <3>4, <3>6, <3>7 DEF BatchType
  <2>6. HistoryType'
    BY <1>27 DEF ToolPrepared, Notify, StartCall, Launch, NextCall, CallsToGo, Call, queueVars, loopVars, runVars, HistoryType
  <2>7. Parked'
    <3>1. reply \in AssistantMessage /\ k \in 1..reply.calls /\ reply.calls \in Nat /\ turn \in 1..MaxToolTurn
      BY <1>27, BoundsAssumption DEF ToolPrepared, Parked, InBatch, AssistantMessage
    <3>2. k' = k \/ (k < reply.calls /\ k' = k + 1)
      BY <1>27 DEF ToolPrepared, Launch, NextCall, StartCall, CallsToGo
    <3>4. pc' \in {"tool_start", "tools_running"}
      BY <1>27 DEF ToolPrepared, Launch, NextCall, StartCall, CallsToGo
    <3>3. UNCHANGED <<turn, reply>>
      BY <1>27 DEF ToolPrepared, loopVars, runVars
    <3> QED BY <3>1, <3>2, <3>3, <3>4 DEF Parked, InBatch
  <2> QED
    BY <2>1, <2>2, <2>3, <2>4, <2>5, <2>6, <2>7
<1>28. CASE ToolRefused
  <2>1. TranscriptType'
    BY <1>28 DEF ToolRefused, Notify, Call, queueVars, loopVars, runVars, TranscriptType, stateVars
  <2>2. QueueType'
    BY <1>28 DEF ToolRefused, Notify, Call, queueVars, loopVars, runVars, QueueType
  <2>3. ControlType'
    BY <1>28 DEF ToolRefused, Notify, Call, queueVars, loopVars, runVars, ControlType, PCs, AwaitsListeners, AwaitsHook
  <2>4. FlagType'
    BY <1>28 DEF ToolRefused, Notify, Call, queueVars, loopVars, runVars, FlagType
  <2>5. BatchType'
    BY <1>28 DEF ToolRefused, Notify, Call, queueVars, loopVars, runVars, BatchType
  <2>6. HistoryType'
    BY <1>28 DEF ToolRefused, Notify, Call, queueVars, loopVars, runVars, HistoryType
  <2>7. Parked'
    BY <1>28 DEF ToolRefused, Notify, Call, queueVars, loopVars, runVars, Parked, InBatch
  <2> QED
    BY <2>1, <2>2, <2>3, <2>4, <2>5, <2>6, <2>7
<1>29. CASE RefusalSettles
  <2>1. TranscriptType'
    BY <1>29 DEF RefusalSettles, Notify, StartCall, Launch, NextCall, CallsToGo, Call, queueVars, loopVars, runVars, TranscriptType, stateVars
  <2>2. QueueType'
    BY <1>29 DEF RefusalSettles, Notify, StartCall, Launch, NextCall, CallsToGo, Call, queueVars, loopVars, runVars, QueueType
  <2>3. ControlType'
    BY <1>29 DEF RefusalSettles, Notify, StartCall, Launch, NextCall, CallsToGo, Call, queueVars, loopVars, runVars, ControlType, PCs, AwaitsListeners, AwaitsHook
  <2>4. FlagType'
    BY <1>29 DEF RefusalSettles, Notify, StartCall, Launch, NextCall, CallsToGo, Call, queueVars, loopVars, runVars, FlagType
  <2>5. BatchType'
    <3>1. \A i \in 1..reply.calls : <<turn, i>> \in Calls
      BY <1>29, BoundsAssumption DEF RefusalSettles, Calls, Parked, InBatch, AssistantMessage, HistoryType
    <3>2. reply.calls \in 0..MaxCalls
      BY <1>29 DEF RefusalSettles, Parked, InBatch, AssistantMessage
    <3> DEFINE tasks == [task EXCEPT ![Call] = "done"]
    <3>3. tasks \in [Calls -> {"none", "prepared", "running", "ending", "done"}]
      BY DEF BatchType
    <3>4. task' \in [Calls -> {"none", "prepared", "running", "ending", "done"}]
      BY <1>29, <3>3 DEF RefusalSettles, Launch, NextCall
    <3>5. \/ UNCHANGED <<k, pendingToolCalls>>
          \/ k < reply.calls /\ k' = k + 1 /\ pendingToolCalls' = pendingToolCalls \cup {<<turn, k + 1>>}
      BY <1>29 DEF RefusalSettles, Launch, NextCall, StartCall, CallsToGo
    <3>6. k' \in 0..MaxCalls /\ pendingToolCalls' \subseteq Calls
      BY <3>1, <3>2, <3>5, BoundsAssumption DEF BatchType
    <3>7. UNCHANGED <<execution, updateFailed>>
      BY <1>29 DEF RefusalSettles
    <3> QED BY <3>4, <3>6, <3>7 DEF BatchType
  <2>6. HistoryType'
    BY <1>29 DEF RefusalSettles, Notify, StartCall, Launch, NextCall, CallsToGo, Call, queueVars, loopVars, runVars, HistoryType
  <2>7. Parked'
    <3>1. reply \in AssistantMessage /\ k \in 1..reply.calls /\ reply.calls \in Nat /\ turn \in 1..MaxToolTurn
      BY <1>29, BoundsAssumption DEF RefusalSettles, Parked, InBatch, AssistantMessage
    <3>2. k' = k \/ (k < reply.calls /\ k' = k + 1)
      BY <1>29 DEF RefusalSettles, Launch, NextCall, StartCall, CallsToGo
    <3>4. pc' \in {"tool_start", "tools_running"}
      BY <1>29 DEF RefusalSettles, Launch, NextCall, StartCall, CallsToGo
    <3>3. UNCHANGED <<turn, reply>>
      BY <1>29 DEF RefusalSettles, loopVars, runVars
    <3> QED BY <3>1, <3>2, <3>3, <3>4 DEF Parked, InBatch
  <2> QED
    BY <2>1, <2>2, <2>3, <2>4, <2>5, <2>6, <2>7
<1>30. CASE BatchSettled
  <2>1. TranscriptType'
    <3>1. reply \in AssistantMessage /\ k \in 1..reply.calls /\ reply.calls \in 0..MaxCalls /\ turn \in 1..MaxToolTurn
      BY <1>30 DEF BatchSettled, Parked, InBatch, AssistantMessage
    <3>2. k \in Nat /\ \A i \in 1..k : ToolResult(<<turn, i>>) \in Message
      BY <3>1, BoundsAssumption, MessageTypes DEF Calls
    <3> DEFINE box == IF execution = "sequential" THEN <<ToolResult(Call)>> ELSE [i \in 1..k |-> ToolResult(<<turn, i>>)]
    <3>3. box \in Seq(Message)
      BY <3>1, <3>2 DEF Call
    <3>4. DeliverOr("turn_end", box)
      BY <1>30 DEF BatchSettled
    <3> HIDE DEF box
    <3>5. outbox' \in Seq(Message) /\ streaming' \in Message \cup {NoMessage}
      BY <3>3, <3>4, DeliverOrType
    <3> QED BY <1>30, <3>5 DEF BatchSettled, TranscriptType
  <2>2. QueueType'
    BY <1>30 DEF BatchSettled, Notify, MessageStart, DeliverOr, Call, Batch, queueVars, batchVars, runVars, QueueType
  <2>3. ControlType'
    BY <1>30 DEF BatchSettled, Notify, MessageStart, DeliverOr, Call, Batch, queueVars, batchVars, runVars, ControlType, PCs, AwaitsListeners, AwaitsHook
  <2>4. FlagType'
    BY <1>30 DEF BatchSettled, Notify, MessageStart, DeliverOr, Call, Batch, queueVars, batchVars, runVars, FlagType
  <2>5. BatchType'
    BY <1>30 DEF BatchSettled, Notify, MessageStart, DeliverOr, Call, Batch, queueVars, batchVars, runVars, BatchType
  <2>6. HistoryType'
    BY <1>30 DEF BatchSettled, Notify, MessageStart, DeliverOr, Call, Batch, queueVars, batchVars, runVars, HistoryType
  <2>7. Parked'
    BY <1>30 DEF BatchSettled, Notify, MessageStart, DeliverOr, Call, Batch, queueVars, batchVars, runVars, Parked, InBatch
  <2> QED
    BY <2>1, <2>2, <2>3, <2>4, <2>5, <2>6, <2>7
<1>31. CASE TurnEndSettles
  BY <1>31 DEF TurnEndSettles, stateVars, queueVars, loopVars, batchVars, runVars, TranscriptType, QueueType, ControlType, FlagType, BatchType, HistoryType, Parked, InBatch, PCs, AwaitsListeners, AwaitsHook
<1>32. CASE FinalTurnEndSettles
  BY <1>32 DEF FinalTurnEndSettles, AgentEnd, queueVars, loopVars, batchVars, runVars, TranscriptType, QueueType, ControlType, FlagType, BatchType, HistoryType, Parked, InBatch, PCs, AwaitsListeners, AwaitsHook
<1>33. CASE AgentEndSettles
  <2>1. TranscriptType'
    BY <1>33 DEF AgentEndSettles, FinishRun, queueVars, batchVars, runVars, TranscriptType, loopVars, stateVars
  <2>2. QueueType'
    BY <1>33 DEF AgentEndSettles, FinishRun, queueVars, batchVars, runVars, QueueType
  <2>3. ControlType'
    BY <1>33 DEF AgentEndSettles, FinishRun, queueVars, batchVars, runVars, ControlType, PCs, AwaitsListeners, AwaitsHook
  <2>4. FlagType'
    BY <1>33 DEF AgentEndSettles, FinishRun, queueVars, batchVars, runVars, FlagType
  <2>5. BatchType'
    BY <1>33 DEF AgentEndSettles, FinishRun, queueVars, batchVars, runVars, BatchType
  <2>6. HistoryType'
    BY <1>33 DEF AgentEndSettles, FinishRun, queueVars, batchVars, runVars, HistoryType
  <2>7. Parked'
    BY <1>33 DEF AgentEndSettles, FinishRun, queueVars, batchVars, runVars, Parked, InBatch
  <2> QED
    BY <2>1, <2>2, <2>3, <2>4, <2>5, <2>6, <2>7
<1>34. CASE FailureStartSettles
  <2>1. TranscriptType'
    <3>1. reply \in Message
      BY <1>34, MessageTypes DEF FailureStartSettles, Parked
    <3>2. messages' = Append(messages, reply) /\ streaming' = NoMessage /\ UNCHANGED loopVars
      BY <1>34 DEF FailureStartSettles, MessageEnd
    <3> QED BY <3>1, <3>2 DEF TranscriptType, loopVars
  <2>2. QueueType'
    BY <1>34 DEF FailureStartSettles, Notify, MessageEnd, queueVars, loopVars, batchVars, runVars, QueueType
  <2>3. ControlType'
    BY <1>34 DEF FailureStartSettles, Notify, MessageEnd, queueVars, loopVars, batchVars, runVars, ControlType, PCs, AwaitsListeners, AwaitsHook
  <2>4. FlagType'
    BY <1>34 DEF FailureStartSettles, Notify, MessageEnd, queueVars, loopVars, batchVars, runVars, FlagType
  <2>5. BatchType'
    BY <1>34 DEF FailureStartSettles, Notify, MessageEnd, queueVars, loopVars, batchVars, runVars, BatchType
  <2>6. HistoryType'
    BY <1>34 DEF FailureStartSettles, Notify, MessageEnd, queueVars, loopVars, batchVars, runVars, HistoryType
  <2>7. Parked'
    BY <1>34 DEF FailureStartSettles, Notify, MessageEnd, queueVars, loopVars, batchVars, runVars, Parked, InBatch
  <2> QED
    BY <2>1, <2>2, <2>3, <2>4, <2>5, <2>6, <2>7
<1>35. CASE FailureEndSettles
  BY <1>35 DEF FailureEndSettles, Notify, stateVars, queueVars, loopVars, batchVars, TranscriptType, QueueType, ControlType, FlagType, BatchType, HistoryType, Parked, InBatch, PCs, AwaitsListeners, AwaitsHook
<1>36. CASE FailureTurnEndSettles
  BY <1>36 DEF FailureTurnEndSettles, AgentEnd, queueVars, loopVars, batchVars, runVars, TranscriptType, QueueType, ControlType, FlagType, BatchType, HistoryType, Parked, InBatch, PCs, AwaitsListeners, AwaitsHook
<1>37. CASE FailureAgentEndSettles
  <2>1. TranscriptType'
    BY <1>37 DEF FailureAgentEndSettles, FinishRun, queueVars, batchVars, runVars, TranscriptType, loopVars, stateVars
  <2>2. QueueType'
    BY <1>37 DEF FailureAgentEndSettles, FinishRun, queueVars, batchVars, runVars, QueueType
  <2>3. ControlType'
    BY <1>37 DEF FailureAgentEndSettles, FinishRun, queueVars, batchVars, runVars, ControlType, PCs, AwaitsListeners, AwaitsHook
  <2>4. FlagType'
    BY <1>37 DEF FailureAgentEndSettles, FinishRun, queueVars, batchVars, runVars, FlagType
  <2>5. BatchType'
    BY <1>37 DEF FailureAgentEndSettles, FinishRun, queueVars, batchVars, runVars, BatchType
  <2>6. HistoryType'
    BY <1>37 DEF FailureAgentEndSettles, FinishRun, queueVars, batchVars, runVars, HistoryType
  <2>7. Parked'
    BY <1>37 DEF FailureAgentEndSettles, FinishRun, queueVars, batchVars, runVars, Parked, InBatch
  <2> QED
    BY <2>1, <2>2, <2>3, <2>4, <2>5, <2>6, <2>7
<1>38. CASE RunRejects
  <2>1. TranscriptType'
    <3>1. Assistant(0, 0, "aborted") \in AssistantMessage /\ Assistant(0, 0, "error") \in AssistantMessage
      BY FailureReply
    <3>2. reply' \in AssistantMessage /\ streaming' = reply'
      BY <1>38, <3>1 DEF RunRejects, FailRun, MessageStart
    <3>3. context' = <<>> /\ outbox' = <<>> /\ results' = <<>> /\ UNCHANGED messages
      BY <1>38 DEF RunRejects, FailRun
    <3> QED BY <3>2, <3>3, MessageTypes DEF TranscriptType
  <2>2. QueueType'
    BY <1>38 DEF RunRejects, Notify, MessageStart, FailRun, queueVars, batchVars, runVars, QueueType
  <2>3. ControlType'
    BY <1>38 DEF RunRejects, Notify, MessageStart, FailRun, queueVars, batchVars, runVars, ControlType, PCs, AwaitsListeners, AwaitsHook
  <2>4. FlagType'
    BY <1>38 DEF RunRejects, Notify, MessageStart, FailRun, queueVars, batchVars, runVars, FlagType
  <2>5. BatchType'
    BY <1>38 DEF RunRejects, Notify, MessageStart, FailRun, queueVars, batchVars, runVars, BatchType
  <2>6. HistoryType'
    BY <1>38 DEF RunRejects, Notify, MessageStart, FailRun, queueVars, batchVars, runVars, HistoryType
  <2>7. Parked'
    <3>1. Assistant(0, 0, "aborted") \in AssistantMessage /\ Assistant(0, 0, "error") \in AssistantMessage
      BY FailureReply
    <3>2. reply' \in AssistantMessage /\ pc' = "failure_start"
      BY <1>38, <3>1 DEF RunRejects, FailRun
    <3> QED BY <3>2 DEF Parked, InBatch
  <2> QED
    BY <2>1, <2>2, <2>3, <2>4, <2>5, <2>6, <2>7
<1>39. CASE FailureRejects
  <2>1. TranscriptType'
    BY <1>39 DEF FailureRejects, FinishRun, queueVars, batchVars, runVars, TranscriptType, loopVars, stateVars
  <2>2. QueueType'
    BY <1>39 DEF FailureRejects, FinishRun, queueVars, batchVars, runVars, QueueType
  <2>3. ControlType'
    BY <1>39 DEF FailureRejects, FinishRun, queueVars, batchVars, runVars, ControlType, PCs, AwaitsListeners, AwaitsHook
  <2>4. FlagType'
    BY <1>39 DEF FailureRejects, FinishRun, queueVars, batchVars, runVars, FlagType
  <2>5. BatchType'
    BY <1>39 DEF FailureRejects, FinishRun, queueVars, batchVars, runVars, BatchType
  <2>6. HistoryType'
    BY <1>39 DEF FailureRejects, FinishRun, queueVars, batchVars, runVars, HistoryType
  <2>7. Parked'
    BY <1>39 DEF FailureRejects, FinishRun, queueVars, batchVars, runVars, Parked, InBatch
  <2> QED
    BY <2>1, <2>2, <2>3, <2>4, <2>5, <2>6, <2>7
<1>40. ASSUME NEW c \in Calls, ToolExecuted(c) PROVE TypeInv'
  <2>1. TranscriptType'
    BY <1>40 DEF ToolExecuted, NotifyOf, queueVars, loopVars, runVars, TranscriptType, stateVars
  <2>2. QueueType'
    BY <1>40 DEF ToolExecuted, NotifyOf, queueVars, loopVars, runVars, QueueType
  <2>3. ControlType'
    BY <1>40 DEF ToolExecuted, NotifyOf, queueVars, loopVars, runVars, ControlType, PCs, AwaitsListeners, AwaitsHook
  <2>4. FlagType'
    BY <1>40 DEF ToolExecuted, NotifyOf, queueVars, loopVars, runVars, FlagType
  <2>5. BatchType'
    BY <1>40 DEF ToolExecuted, NotifyOf, queueVars, loopVars, runVars, BatchType
  <2>6. HistoryType'
    BY <1>40 DEF ToolExecuted, NotifyOf, queueVars, loopVars, runVars, HistoryType
  <2>7. Parked'
    BY <1>40 DEF ToolExecuted, NotifyOf, queueVars, loopVars, runVars, Parked, InBatch
  <2> QED
    BY <2>1, <2>2, <2>3, <2>4, <2>5, <2>6, <2>7
<1>41. ASSUME NEW c \in Calls, ToolEndSettles(c) PROVE TypeInv'
  BY <1>41 DEF ToolEndSettles, stateVars, queueVars, loopVars, runVars, TranscriptType, QueueType, ControlType, FlagType, BatchType, HistoryType, Parked, InBatch, PCs, AwaitsListeners, AwaitsHook
<1>42. ASSUME NEW c \in Calls, ToolRejects(c) PROVE TypeInv'
  <2>1. TranscriptType'
    <3>1. Assistant(0, 0, "aborted") \in AssistantMessage /\ Assistant(0, 0, "error") \in AssistantMessage
      BY FailureReply
    <3>2. CASE Awaited(c)
      <4>1. reply' \in AssistantMessage /\ streaming' = reply'
        BY <1>42, <3>1, <3>2 DEF ToolRejects, FailRun, MessageStart
      <4>2. context' = <<>> /\ outbox' = <<>> /\ results' = <<>> /\ UNCHANGED messages
        BY <1>42, <3>2 DEF ToolRejects, FailRun
      <4> QED BY <4>1, <4>2, MessageTypes DEF TranscriptType
    <3>3. CASE ~Awaited(c)
      BY <1>42, <3>3 DEF ToolRejects, TranscriptType
    <3> QED BY <3>2, <3>3
  <2>2. QueueType'
    BY <1>42 DEF ToolRejects, Notify, MessageStart, FailRun, Awaited, queueVars, runVars, QueueType
  <2>3. ControlType'
    BY <1>42 DEF ToolRejects, Notify, MessageStart, FailRun, Awaited, queueVars, runVars, ControlType, PCs, AwaitsListeners, AwaitsHook
  <2>4. FlagType'
    BY <1>42 DEF ToolRejects, Notify, MessageStart, FailRun, Awaited, queueVars, runVars, FlagType
  <2>5. BatchType'
    BY <1>42 DEF ToolRejects, Notify, MessageStart, FailRun, Awaited, queueVars, runVars, BatchType
  <2>6. HistoryType'
    <3>1. faults' \in {faults, faults + 1} /\ UNCHANGED <<turn, base, runs, resets>>
      BY <1>42 DEF ToolRejects, runVars
    <3>2. late' \subseteq late \cup {"run"}
      BY <1>42 DEF ToolRejects, FailRun, MessageStart, Notify
    <3> QED BY <3>1, <3>2 DEF HistoryType
  <2>7. Parked'
    <3>1. Assistant(0, 0, "aborted") \in AssistantMessage /\ Assistant(0, 0, "error") \in AssistantMessage
      BY FailureReply
    <3>2. CASE Awaited(c)
      <4>1. reply' \in AssistantMessage /\ pc' = "failure_start"
        BY <1>42, <3>1, <3>2 DEF ToolRejects, FailRun
      <4> QED BY <4>1 DEF Parked, InBatch
    <3>3. CASE ~Awaited(c)
      BY <1>42, <3>3 DEF ToolRejects, Parked, InBatch, runVars
    <3> QED BY <3>2, <3>3
  <2> QED
    BY <2>1, <2>2, <2>3, <2>4, <2>5, <2>6, <2>7
<1>43. ASSUME NEW c \in Calls, ToolUpdates(c) PROVE TypeInv'
  <2>1. TranscriptType'
    BY <1>43 DEF ToolUpdates, NotifyOf, stateVars, queueVars, loopVars, runVars, TranscriptType
  <2>2. QueueType'
    BY <1>43 DEF ToolUpdates, NotifyOf, stateVars, queueVars, loopVars, runVars, QueueType
  <2>3. ControlType'
    BY <1>43 DEF ToolUpdates, NotifyOf, stateVars, queueVars, loopVars, runVars, ControlType, PCs, AwaitsListeners, AwaitsHook
  <2>4. FlagType'
    BY <1>43 DEF ToolUpdates, NotifyOf, stateVars, queueVars, loopVars, runVars, FlagType
  <2>5. BatchType'
    BY <1>43 DEF ToolUpdates, NotifyOf, stateVars, queueVars, loopVars, runVars, BatchType
  <2>6. HistoryType'
    BY <1>43 DEF ToolUpdates, NotifyOf, stateVars, queueVars, loopVars, runVars, HistoryType
  <2>7. Parked'
    BY <1>43 DEF ToolUpdates, NotifyOf, stateVars, queueVars, loopVars, runVars, Parked, InBatch
  <2> QED
    BY <2>1, <2>2, <2>3, <2>4, <2>5, <2>6, <2>7
<1>44. ASSUME NEW c \in Calls, UpdateRejected(c) PROVE TypeInv'
  BY <1>44 DEF UpdateRejected, NotifyOf, stateVars, queueVars, loopVars, runVars, TranscriptType, QueueType, ControlType, FlagType, BatchType, HistoryType, Parked, InBatch, PCs, AwaitsListeners, AwaitsHook
<1>45. CASE UNCHANGED vars
  BY <1>45 DEF vars, stateVars, queueVars, loopVars, batchVars, runVars, TranscriptType, QueueType, ControlType, FlagType, BatchType, HistoryType, Parked, InBatch
<1> QED
  BY <1>1, <1>2, <1>3, <1>4, <1>5, <1>6, <1>7, <1>8, <1>9, <1>10, <1>11, <1>12, <1>13, <1>14, <1>15, <1>16, <1>17, <1>18, <1>19, <1>20, <1>21, <1>22, <1>23, <1>24, <1>25, <1>26, <1>27, <1>28, <1>29, <1>30, <1>31, <1>32, <1>33, <1>34, <1>35, <1>36, <1>37, <1>38, <1>39, <1>40, <1>41, <1>42, <1>43, <1>44, <1>45 DEF Next, UserStep, LoopStep, ToolStep

\* The sequence identities that moving a message from one copy to the other rests on.
LEMMA SeqAlgebra ==
  ASSUME NEW S, NEW s \in Seq(S), NEW t \in Seq(S), NEW e \in S
  PROVE  /\ s \o <<>> = s
         /\ t # <<>> => s \o t = Append(s, Head(t)) \o Tail(t)
         /\ Append(s \o t, e) = s \o Append(t, e)
         /\ Front(Append(s, e)) = s
<1>1. s \o <<>> = s
  OBVIOUS
<1>2. t # <<>> => s \o t = Append(s, Head(t)) \o Tail(t)
  OBVIOUS
<1>3. Append(s \o t, e) = s \o Append(t, e)
  OBVIOUS
<1>4. Front(Append(s, e)) = s
  BY DEF Front
<1> QED BY <1>1, <1>2, <1>3, <1>4

\* Every step moves a message to the other copy exactly when the await it leads to says so.
LEMMA CopiesStep == TypeInv /\ CopiesAgree /\ [Next]_vars => CopiesAgree'
<1> SUFFICES ASSUME TypeInv, CopiesAgree, [Next]_vars PROVE CopiesAgree'
  OBVIOUS
<1> USE DEF CopiesAgree, NoResultsOutsideBatch, PromptsAhead, PendingInHand, ResultsAside, ReplyAhead, Together, InBatch
<1>1. ASSUME NEW q \in Queues, Enqueue(q) PROVE CopiesAgree'
  BY <1>1 DEF Enqueue, stateVars, loopVars, batchVars, runVars
<1>2. ASSUME NEW q \in Queues, ClearQueue(q) PROVE CopiesAgree'
  BY <1>2 DEF ClearQueue, stateVars, loopVars, batchVars, runVars
<1>3. ASSUME NEW q \in Queues, SetQueueMode(q) PROVE CopiesAgree'
  BY <1>3 DEF SetQueueMode, stateVars, loopVars, batchVars, runVars
<1>4. ASSUME NEW q \in Queues, ContinueFromQueue(q) PROVE CopiesAgree'
  BY <1>4 DEF ContinueFromQueue, StartRun, Drain, batchVars
<1>5. CASE Abort
  BY <1>5 DEF Abort, queueVars, loopVars, batchVars, runVars
<1>6. CASE Reset
  <2>1. NoResultsOutsideBatch'
    BY <1>6 DEF Reset, loopVars
  <2>2. ASSUME ~dirty' PROVE pc' = "idle"
    BY <1>6, <2>2 DEF Reset, TypeInv, TypeOK, ControlType
  <2> QED BY <2>1, <2>2
<1>7. CASE Prompt
  BY <1>7 DEF Prompt, StartRun, batchVars
<1>8. CASE ContinueFromTranscript
  BY <1>8 DEF ContinueFromTranscript, StartRun, queueVars, batchVars
<1>9. CASE DropFailedReply
  <2>1. pc' = "idle" /\ results' = results /\ pc = "idle"
    BY <1>9 DEF DropFailedReply, loopVars, TypeInv, TypeOK, ControlType
  <2> QED BY <2>1
<1>10. CASE AgentStartSettles
  BY <1>10 DEF AgentStartSettles, Notify, stateVars, queueVars, loopVars, batchVars, runVars
<1>11. CASE FirstTurnStartSettles
  <2>1. UNCHANGED <<messages, context, results, stage, dirty>> /\ stage = "prompts" /\ outbox' = outbox
    BY <1>11 DEF FirstTurnStartSettles, DeliverOr, runVars, TypeInv, Parked
  <2>2. pc' = "msg_start" \/ (pc' = "poll_initial" /\ outbox = <<>>)
    BY <1>11 DEF FirstTurnStartSettles, DeliverOr
  <2>3. messages \o <<>> = messages
    BY SeqAlgebra DEF TypeInv, TypeOK, TranscriptType
  <2> QED BY <1>11, <2>1, <2>2, <2>3 DEF FirstTurnStartSettles
<1>12. CASE MessageStartSettles
  <2>1. outbox # <<>> /\ Head(outbox) \in Message
    BY <1>12, SeqFacts DEF MessageStartSettles, TypeInv, TypeOK, TranscriptType, Parked
  <2>2. messages' = Append(messages, Head(outbox)) /\ UNCHANGED <<context, outbox, results, stage, dirty>>
    BY <1>12 DEF MessageStartSettles, MessageEnd, loopVars, runVars
  <2>3. messages \o outbox = Append(messages, Head(outbox)) \o Tail(outbox)
    BY <2>1, SeqAlgebra DEF TypeInv, TypeOK, TranscriptType
  <2>4. Append(context \o results, Head(outbox)) = context \o Append(results, Head(outbox))
    BY <2>1, SeqAlgebra DEF TypeInv, TypeOK, TranscriptType
  <2> QED BY <1>12, <2>2, <2>3, <2>4 DEF MessageStartSettles
<1>13. CASE PromptDelivered
  <2>1. UNCHANGED <<messages, context, results, stage, dirty>> /\ stage = "prompts" /\ outbox' = Tail(outbox)
    BY <1>13 DEF PromptDelivered, DeliverOr, runVars
  <2>2. pc' = "msg_start" \/ (pc' = "poll_initial" /\ outbox' = <<>>)
    BY <1>13 DEF PromptDelivered, DeliverOr
  <2>3. messages \o <<>> = messages
    BY SeqAlgebra DEF TypeInv, TypeOK, TranscriptType
  <2> QED BY <1>13, <2>1, <2>2, <2>3 DEF PromptDelivered
<1>14. CASE PendingDelivered
  BY <1>14 DEF PendingDelivered, Notify, MessageStart, DeliverOr, queueVars, batchVars, runVars
<1>15. CASE ResultDelivered
  BY <1>15 DEF ResultDelivered, Notify, MessageStart, DeliverOr, StartCall, EndTurn, CallsToGo, queueVars, runVars
<1>16. CASE PollInitial
  BY <1>16 DEF PollInitial, Notify, MessageStart, DeliverOr, Drain, queueVars, batchVars, runVars
<1>17. CASE PollSteering
  BY <1>17 DEF PollSteering, Notify, NextTurn, Drain, batchVars, runVars
<1>18. CASE PollFollowUp
  BY <1>18 DEF PollFollowUp, Notify, AgentEnd, NextTurn, Drain, batchVars, runVars
<1>19. CASE TurnStartSettles
  <2>1. UNCHANGED <<messages, context, results, stage, dirty>> /\ stage = "pending"
    BY <1>19 DEF TurnStartSettles, runVars, TypeInv, Parked
  <2>2. pc' \in {"msg_start", "request"}
    BY <1>19 DEF TurnStartSettles, DeliverOr
  <2> QED BY <1>19, <2>1, <2>2 DEF TurnStartSettles
<1>20. CASE SendRequest
  BY <1>20 DEF SendRequest, stateVars, queueVars, loopVars, batchVars
<1>21. CASE StreamStarts
  <2>1. Partial \in Message
    BY MessageTypes, BoundsAssumption DEF Partial, Stops, TypeInv, TypeOK, HistoryType
  <2>2. Front(Append(context, Partial)) = context
    BY <2>1, SeqAlgebra DEF TypeInv, TypeOK, TranscriptType
  <2>3. context' = Append(context, Partial) /\ UNCHANGED <<messages, results, stage, dirty>>
    BY <1>21 DEF StreamStarts, runVars
  <2> QED BY <1>21, <2>2, <2>3 DEF StreamStarts
<1>22. CASE StreamEnds
  <2>1. UNCHANGED <<results, stage, dirty>>
    BY <1>22 DEF StreamEnds, runVars
  <2>2. \/ /\ pc = "streaming" /\ pc' = "reply_end"
           /\ context' = Append(Front(context), reply') /\ messages' = Append(messages, reply')
        \/ /\ pc = "stream" /\ pc' = "reply_start"
           /\ context' = Append(context, reply') /\ UNCHANGED messages
    BY <1>22 DEF StreamEnds, MessageEnd
  <2> QED BY <2>1, <2>2
<1>23. CASE ReplyStartSettles
  BY <1>23 DEF ReplyStartSettles, Notify, MessageEnd, queueVars, loopVars, batchVars, runVars
<1>24. CASE ReplyFailed
  BY <1>24 DEF ReplyFailed, Notify, Failed, stateVars, queueVars, loopVars, batchVars
<1>25. CASE ReplyWithoutCalls
  BY <1>25 DEF ReplyWithoutCalls, Notify, EndTurn, Failed, stateVars, queueVars, batchVars, runVars
<1>26. CASE ReplyWithCalls
  <2>1. context \o <<>> = context
    BY SeqAlgebra DEF TypeInv, TypeOK, TranscriptType
  <2>2. pc = "reply_end" /\ pc' = "tool_start" /\ UNCHANGED <<messages, context, results, dirty>>
    BY <1>26 DEF ReplyWithCalls, StartCall, loopVars, runVars
  <2> QED BY <2>1, <2>2
<1>27. CASE ToolPrepared
  BY <1>27 DEF ToolPrepared, Notify, StartCall, Launch, NextCall, CallsToGo, Call, queueVars, loopVars, runVars
<1>28. CASE ToolRefused
  BY <1>28 DEF ToolRefused, Notify, Call, queueVars, loopVars, runVars
<1>29. CASE RefusalSettles
  BY <1>29 DEF RefusalSettles, Notify, StartCall, Launch, NextCall, CallsToGo, Call, queueVars, loopVars, runVars
<1>30. CASE BatchSettled
  <2>1. k \in Nat /\ k > 0
    BY <1>30, BoundsAssumption DEF BatchSettled, TypeInv, TypeOK, BatchType, Parked, InBatch
  <2> DEFINE box == IF execution = "sequential" THEN <<ToolResult(Call)>> ELSE [i \in 1..k |-> ToolResult(<<turn, i>>)]
  <2>2. box # <<>>
    BY <2>1
  <2>3. DeliverOr("turn_end", box) /\ pc = "tools_running" /\ stage' = "results" /\ UNCHANGED <<messages, context, results, dirty>>
    BY <1>30 DEF BatchSettled, runVars
  <2> HIDE DEF box
  <2>4. pc' = "msg_start"
    BY <2>2, <2>3 DEF DeliverOr
  <2> QED BY <2>3, <2>4
<1>31. CASE TurnEndSettles
  BY <1>31 DEF TurnEndSettles, stateVars, queueVars, loopVars, batchVars, runVars
<1>32. CASE FinalTurnEndSettles
  BY <1>32 DEF FinalTurnEndSettles, AgentEnd, queueVars, loopVars, batchVars, runVars
<1>33. CASE AgentEndSettles
  BY <1>33 DEF AgentEndSettles, FinishRun, queueVars, batchVars, runVars
<1>34. CASE FailureStartSettles
  BY <1>34 DEF FailureStartSettles, Notify, MessageEnd, queueVars, loopVars, batchVars, runVars
<1>35. CASE FailureEndSettles
  BY <1>35 DEF FailureEndSettles, Notify, stateVars, queueVars, loopVars, batchVars
<1>36. CASE FailureTurnEndSettles
  BY <1>36 DEF FailureTurnEndSettles, AgentEnd, queueVars, loopVars, batchVars, runVars
<1>37. CASE FailureAgentEndSettles
  BY <1>37 DEF FailureAgentEndSettles, FinishRun, queueVars, batchVars, runVars
<1>38. CASE RunRejects
  BY <1>38 DEF RunRejects, Notify, MessageStart, FailRun, queueVars, batchVars, runVars
<1>39. CASE FailureRejects
  BY <1>39 DEF FailureRejects, FinishRun, queueVars, batchVars, runVars
<1>40. ASSUME NEW c \in Calls, ToolExecuted(c) PROVE CopiesAgree'
  BY <1>40 DEF ToolExecuted, NotifyOf, queueVars, loopVars, runVars
<1>41. ASSUME NEW c \in Calls, ToolEndSettles(c) PROVE CopiesAgree'
  BY <1>41 DEF ToolEndSettles, stateVars, queueVars, loopVars, runVars
<1>42. ASSUME NEW c \in Calls, ToolRejects(c) PROVE CopiesAgree'
  BY <1>42 DEF ToolRejects, Notify, MessageStart, FailRun, Awaited, queueVars, runVars
<1>43. ASSUME NEW c \in Calls, ToolUpdates(c) PROVE CopiesAgree'
  BY <1>43 DEF ToolUpdates, NotifyOf, stateVars, queueVars, loopVars, runVars
<1>44. ASSUME NEW c \in Calls, UpdateRejected(c) PROVE CopiesAgree'
  BY <1>44 DEF UpdateRejected, NotifyOf, stateVars, queueVars, loopVars, runVars
<1>45. CASE UNCHANGED vars
  BY <1>45 DEF vars, stateVars, loopVars, runVars
<1> QED
  BY <1>1, <1>2, <1>3, <1>4, <1>5, <1>6, <1>7, <1>8, <1>9, <1>10, <1>11, <1>12, <1>13, <1>14, <1>15, <1>16, <1>17, <1>18, <1>19, <1>20, <1>21, <1>22, <1>23, <1>24, <1>25, <1>26, <1>27, <1>28, <1>29, <1>30, <1>31, <1>32, <1>33, <1>34, <1>35, <1>36, <1>37, <1>38, <1>39, <1>40, <1>41, <1>42, <1>43, <1>44, <1>45 DEF Next, UserStep, LoopStep, ToolStep

\* Agent starts idle, with both copies empty.
LEMMA InitCopies == Init => Parked /\ CopiesAgree
  BY DEF Init, Parked, InBatch, CopiesAgree, NoResultsOutsideBatch, PromptsAhead, PendingInHand,
         ResultsAside, ReplyAhead, Together

\* The inductive invariant of the two copies.
CopiesInv == TypeInv /\ CopiesAgree

\* CopiesInv holds in every reachable state.
LEMMA Copies == Spec => []CopiesInv
<1>1. Init => CopiesInv
  BY InitType, InitCopies DEF CopiesInv, TypeInv
<1>2. CopiesInv /\ [Next]_vars => CopiesInv'
  BY TypeStep, CopiesStep DEF CopiesInv
<1> QED BY <1>1, <1>2, PTL DEF Spec

\* Type correctness of Agent for any number of messages, calls, runs, resets and failures: every
\* variable keeps its type and a run is parked at an await exactly while it is active.
THEOREM TypeCorrect == Spec => []TypeOK
<1>1. CopiesInv => TypeOK
  BY DEF CopiesInv, TypeInv
<1> QED BY <1>1, Copies, PTL

\* The request of every turn carries Agent's transcript, message for message, whatever was
\* queued, delivered, refused, aborted or failed since the run began.
THEOREM RequestsSeeTranscript == Spec => []RequestSeesTranscript
<1>1. CopiesInv => RequestSeesTranscript
  BY DEF CopiesInv, CopiesAgree, Together, RequestSeesTranscript
<1> QED BY <1>1, Copies, PTL

\* Between awaits the two copies differ only by what is in hand: the prompts, the reply being
\* streamed, the results of the batch.
THEOREM CopiesAlwaysAgree == Spec => []CopiesAgree
<1>1. CopiesInv => CopiesAgree
  BY DEF CopiesInv
<1> QED BY <1>1, Copies, PTL

(***************************************************************************)
(* The tool calls of a batch.                                              *)
(***************************************************************************)
Failing  == {"failure_start", "failure_end", "failure_turn_end", "failure_agent_end"}
TaskStates == {"none", "prepared", "running", "ending", "done"}
Replying == {"stream", "streaming", "reply_start", "reply_end"}

\* The calls of a request are new to it, and run only while their batch waits for them.
CallFollows(c) ==
  /\ c[1] > turn => task[c] = "none"
  /\ pc \in Replying /\ c[1] = turn => task[c] = "none"
  /\ InBatch /\ c[1] = turn =>
       /\ c[2] > k => task[c] = "none"
       /\ c[2] = k /\ pc \in {"tool_start", "tool_end"} => task[c] = "none"
       /\ task[c] \in {"running", "ending"} => pc = "tools_running"
TasksFollow == \A c \in Calls : CallFollows(c)

\* A call is shown as pending from its start to its end, within its batch.
ShownRightly(c) ==
  /\ InBatch \/ pc \in Failing
  /\ InBatch =>
       /\ pc \in {"tool_start", "tool_end", "tools_running"}
       /\ c[1] = turn /\ c[2] <= k
       /\ task[c] \in {"prepared", "running"} \/ (pc = "tool_start" /\ c[2] = k)
PendingFollows == \A c \in pendingToolCalls : ShownRightly(c)

\* While nothing has rejected, what runs is awaited, and nothing follows agent_end.
Attended(c) == task[c] \in {"running", "ending"} => pc = "tools_running" /\ c[1] = turn
Calm ==
  /\ late = {} /\ updateFailed = {} /\ pc \notin Failing
  /\ ended => pc \in {"agent_end", "idle"}
  /\ \A c \in Calls : Attended(c)
Quiet == faults = 0 => Calm

\* The requests of a run come after its base.
Counted == base <= turn /\ (pc \in Replying \/ InBatch => base < turn)

\* What the pairs that name calls are made of.
LEMMA CallParts ==
  /\ \A c \in Calls : c[1] \in Nat /\ c[2] \in Nat /\ c[1] >= 1 /\ c[2] >= 1 /\ c[1] <= MaxToolTurn /\ c[2] <= MaxCalls
  /\ \A c \in Calls : \A t, i : c = <<t, i>> <=> (c[1] = t /\ c[2] = i)
  /\ \A t \in 1..MaxToolTurn, i \in 1..MaxCalls : <<t, i>> \in Calls
  BY BoundsAssumption DEF Calls

\* The call at hand is one of Calls.
LEMMA CallAtHand == TypeInv /\ InBatch => Call \in Calls /\ k + 1 \in Nat /\ (k < reply.calls => <<turn, k + 1>> \in Calls)
<1> SUFFICES ASSUME TypeInv, InBatch PROVE Call \in Calls /\ k + 1 \in Nat /\ (k < reply.calls => <<turn, k + 1>> \in Calls)
  OBVIOUS
<1>1. reply.calls \in 0..MaxCalls /\ k \in 1..reply.calls /\ turn \in 1..MaxToolTurn
  BY DEF TypeInv, Parked, AssistantMessage
<1> QED BY <1>1, CallParts, BoundsAssumption DEF Call

\* What the user and the tools do beside the loop leaves the batch as it is, and so does a step
\* of the loop outside of it.
LEMMA TasksFrame ==
  ASSUME TasksFollow, UNCHANGED <<turn, task>>,
         UNCHANGED <<pc, stage, k>> \/ (pc' \notin Replying /\ ~InBatch')
  PROVE  TasksFollow'
<1> SUFFICES ASSUME NEW c \in Calls PROVE CallFollows(c)'
  BY DEF TasksFollow
<1>1. CallFollows(c)
  BY DEF TasksFollow
<1> QED BY <1>1 DEF CallFollows, InBatch

\* Within the replying and the batch, the calls stay none until the loop has started them.
LEMMA TasksOn ==
  ASSUME TasksFollow, UNCHANGED <<turn, task>>,
         \/ pc \in Replying /\ pc' \in Replying
         \/ pc \in Replying /\ pc' = "tool_start" /\ k' = 1
         \/ pc = "tool_start" /\ pc' = "tool_end" /\ k' = k
         \/ pc \in {"msg_start", "msg_end"} /\ InBatch /\ pc' \in {"msg_start", "msg_end"} /\ k' = k
         \/ pc = "msg_end" /\ InBatch /\ pc' = "tool_start" /\ k' = k + 1 /\ k \in Nat
  PROVE  TasksFollow'
<1> SUFFICES ASSUME NEW c \in Calls PROVE CallFollows(c)'
  BY DEF TasksFollow
<1>1. CallFollows(c) /\ c[1] \in Nat /\ c[2] \in Nat /\ c[2] >= 1
  BY CallParts DEF TasksFollow
<1> QED BY <1>1 DEF CallFollows, InBatch, Replying

\* A tool's own steps leave the calls that are not running as they are.
LEMMA TasksTool ==
  ASSUME TasksFollow, NEW c \in Calls, task[c] \in {"running", "ending"}, task \in [Calls -> TaskStates],
         NEW s \in {"ending", "done"}, task' = [task EXCEPT ![c] = s], turn' = turn,
         s = "ending" => UNCHANGED <<pc, stage, k>>,
         UNCHANGED <<pc, stage, k>> \/ pc' = "failure_start"
  PROVE  TasksFollow'
<1> SUFFICES ASSUME NEW d \in Calls PROVE CallFollows(d)'
  BY DEF TasksFollow
<1>1. CallFollows(c) /\ CallFollows(d)
  BY DEF TasksFollow
<1>2. CASE c = d
  BY <1>1, <1>2, CallParts DEF CallFollows, InBatch, Replying
<1>3. CASE c # d
  BY <1>1, <1>3 DEF CallFollows, InBatch, Replying
<1> QED BY <1>2, <1>3

\* The calls of a batch are new, and those that run are awaited.
LEMMA TasksStep == TypeInv /\ TasksFollow /\ [Next]_vars => TasksFollow'
<1> SUFFICES ASSUME TypeInv, TasksFollow, [Next]_vars PROVE TasksFollow'
  OBVIOUS
<1>1. ASSUME NEW q \in Queues, Enqueue(q) PROVE TasksFollow'
  BY <1>1, TasksFrame DEF Enqueue, stateVars, loopVars, batchVars, runVars, InBatch, Replying
<1>2. ASSUME NEW q \in Queues, ClearQueue(q) PROVE TasksFollow'
  BY <1>2, TasksFrame DEF ClearQueue, stateVars, loopVars, batchVars, runVars, InBatch, Replying
<1>3. ASSUME NEW q \in Queues, SetQueueMode(q) PROVE TasksFollow'
  BY <1>3, TasksFrame DEF SetQueueMode, stateVars, loopVars, batchVars, runVars, InBatch, Replying
<1>4. ASSUME NEW q \in Queues, ContinueFromQueue(q) PROVE TasksFollow'
  BY <1>4, TasksFrame DEF ContinueFromQueue, StartRun, batchVars, Drain, InBatch, Replying
<1>5. CASE Abort
  BY <1>5, TasksFrame DEF Abort, queueVars, loopVars, batchVars, runVars, InBatch, Replying
<1>6. CASE Reset
  BY <1>6, TasksFrame DEF Reset, loopVars, batchVars, InBatch, Replying
<1>7. CASE Prompt
  BY <1>7, TasksFrame DEF Prompt, StartRun, batchVars, InBatch, Replying
<1>8. CASE ContinueFromTranscript
  BY <1>8, TasksFrame DEF ContinueFromTranscript, StartRun, batchVars, queueVars, InBatch, Replying
<1>9. CASE DropFailedReply
  BY <1>9, TasksFrame DEF DropFailedReply, queueVars, loopVars, batchVars, runVars, InBatch,
     Replying
<1>10. CASE AgentStartSettles
  BY <1>10, TasksFrame DEF AgentStartSettles, Notify, stateVars, queueVars, loopVars, batchVars,
     runVars, InBatch, Replying
<1>11. CASE FirstTurnStartSettles
  BY <1>11, TasksFrame DEF FirstTurnStartSettles, DeliverOr, MessageStart, Notify, queueVars,
     batchVars, runVars, TypeInv, Parked, InBatch, Replying
<1>12. CASE MessageStartSettles
  <2>1. pc = "msg_start" /\ pc' = "msg_end" /\ UNCHANGED <<turn, task, k, stage>>
    BY <1>12 DEF MessageStartSettles, loopVars, batchVars, runVars
  <2> QED BY <2>1, TasksOn, TasksFrame DEF InBatch, Replying
<1>13. CASE PromptDelivered
  BY <1>13, TasksFrame DEF PromptDelivered, DeliverOr, MessageStart, Notify, queueVars, batchVars,
     runVars, InBatch, Replying
<1>14. CASE PendingDelivered
  BY <1>14, TasksFrame DEF PendingDelivered, DeliverOr, MessageStart, Notify, queueVars, batchVars,
     runVars, InBatch, Replying
<1>15. CASE ResultDelivered
  <2>1. InBatch /\ pc = "msg_end" /\ UNCHANGED <<turn, task>> /\ stage' = "results"
    BY <1>15 DEF ResultDelivered, InBatch, runVars
  <2>2. k \in Nat
    BY DEF TypeInv, TypeOK, BatchType, TaskStates
  <2>3. \/ pc' \in {"turn_end", "msg_start"} /\ k' = k
        \/ pc' = "tool_start" /\ k' = k + 1
    BY <1>15 DEF ResultDelivered, DeliverOr, StartCall, EndTurn
  <2> QED BY <2>1, <2>2, <2>3, TasksOn, TasksFrame DEF InBatch, Replying
<1>16. CASE PollInitial
  BY <1>16, TasksFrame DEF PollInitial, DeliverOr, MessageStart, Notify, queueVars, Drain,
     batchVars, runVars, InBatch, Replying
<1>17. CASE PollSteering
  BY <1>17, TasksFrame DEF PollSteering, Drain, NextTurn, Notify, batchVars, runVars, InBatch,
     Replying
<1>18. CASE PollFollowUp
  BY <1>18, TasksFrame DEF PollFollowUp, Drain, NextTurn, Notify, AgentEnd, batchVars, runVars,
     InBatch, Replying
<1>19. CASE TurnStartSettles
  BY <1>19, TasksFrame DEF TurnStartSettles, DeliverOr, MessageStart, Notify, queueVars, batchVars,
     runVars, TypeInv, Parked, InBatch, Replying
<1>20. CASE SendRequest
  <2> SUFFICES ASSUME NEW c \in Calls PROVE CallFollows(c)'
    BY DEF TasksFollow
  <2>1. CallFollows(c) /\ c[1] \in Nat /\ turn \in Nat
    BY CallParts DEF TasksFollow, TypeInv, TypeOK, HistoryType
  <2>2. pc' = "stream" /\ turn' = turn + 1 /\ task' = task
    BY <1>20 DEF SendRequest, batchVars
  <2> QED BY <2>1, <2>2 DEF CallFollows, InBatch, Replying
<1>21. CASE StreamStarts
  BY <1>21, TasksOn DEF StreamStarts, MessageStart, Notify, queueVars, batchVars, runVars, Replying,
     InBatch
<1>22. CASE StreamEnds
  BY <1>22, TasksOn DEF StreamEnds, MessageEnd, Notify, MessageStart, queueVars, batchVars, runVars,
     Replying
<1>23. CASE ReplyStartSettles
  BY <1>23, TasksOn DEF ReplyStartSettles, MessageEnd, Notify, queueVars, loopVars, batchVars,
     runVars, Replying, InBatch
<1>24. CASE ReplyFailed
  BY <1>24, TasksFrame DEF ReplyFailed, Notify, stateVars, queueVars, loopVars, batchVars, InBatch,
     Replying
<1>25. CASE ReplyWithoutCalls
  BY <1>25, TasksFrame DEF ReplyWithoutCalls, EndTurn, Notify, stateVars, queueVars, batchVars,
     runVars, InBatch, Replying
<1>26. CASE ReplyWithCalls
  BY <1>26, TasksOn DEF ReplyWithCalls, StartCall, Notify, queueVars, loopVars, runVars, Replying
<1>27. CASE ToolPrepared
  <2>1. Call \in Calls /\ InBatch /\ k \in Nat /\ turn \in Nat /\ task \in [Calls -> TaskStates]
    BY <1>27, CallAtHand DEF ToolPrepared, InBatch, TypeInv, TypeOK, HistoryType, BatchType, TaskStates
  <2> SUFFICES ASSUME NEW c \in Calls PROVE CallFollows(c)'
    BY DEF TasksFollow
  <2>2. CallFollows(c) /\ (c = Call <=> c[1] = turn /\ c[2] = k) /\ c[1] \in Nat /\ c[2] \in Nat
    BY CallParts DEF TasksFollow, Call
  <2> DEFINE tasks == [task EXCEPT ![Call] = "prepared"]
  <2>3. tasks[c] = IF c = Call THEN "prepared" ELSE task[c]
    BY <2>1
  <2>4. turn' = turn /\ pc \in {"tool_start", "tool_end"}
    BY <1>27 DEF ToolPrepared, runVars
  <2>5. CASE Launch(tasks)
    <3>1. pc' = "tools_running" /\ k' = k
      BY <2>5 DEF Launch
    <3>2. task'[c] = IF c[1] = turn /\ tasks[c] = "prepared" THEN "running" ELSE tasks[c]
      BY <2>5 DEF Launch
    <3> HIDE DEF tasks
    <3> QED BY <2>1, <2>2, <2>3, <2>4, <3>1, <3>2 DEF CallFollows, InBatch, Replying
  <2>6. CASE StartCall(k + 1) /\ task' = tasks
    <3>1. pc' = "tool_start" /\ k' = k + 1
      BY <2>6 DEF StartCall
    <3> HIDE DEF tasks
    <3> QED BY <2>1, <2>2, <2>3, <2>4, <2>6, <3>1 DEF CallFollows, InBatch, Replying
  <2>7. Launch(tasks) \/ (StartCall(k + 1) /\ task' = tasks)
    BY <1>27 DEF ToolPrepared, NextCall
  <2> QED BY <2>5, <2>6, <2>7
<1>28. CASE ToolRefused
  BY <1>28, TasksOn DEF ToolRefused, Call, Notify, queueVars, loopVars, runVars, Replying, InBatch
<1>29. CASE RefusalSettles
  <2>1. Call \in Calls /\ InBatch /\ k \in Nat /\ turn \in Nat /\ task \in [Calls -> TaskStates]
    BY <1>29, CallAtHand DEF RefusalSettles, InBatch, TypeInv, TypeOK, HistoryType, BatchType, TaskStates
  <2> SUFFICES ASSUME NEW c \in Calls PROVE CallFollows(c)'
    BY DEF TasksFollow
  <2>2. CallFollows(c) /\ (c = Call <=> c[1] = turn /\ c[2] = k) /\ c[1] \in Nat /\ c[2] \in Nat
    BY CallParts DEF TasksFollow, Call
  <2> DEFINE tasks == [task EXCEPT ![Call] = "done"]
  <2>3. tasks[c] = IF c = Call THEN "done" ELSE task[c]
    BY <2>1
  <2>4. turn' = turn /\ pc \in {"tool_start", "tool_end"}
    BY <1>29 DEF RefusalSettles, runVars
  <2>5. CASE Launch(tasks)
    <3>1. pc' = "tools_running" /\ k' = k
      BY <2>5 DEF Launch
    <3>2. task'[c] = IF c[1] = turn /\ tasks[c] = "prepared" THEN "running" ELSE tasks[c]
      BY <2>5 DEF Launch
    <3> HIDE DEF tasks
    <3> QED BY <2>1, <2>2, <2>3, <2>4, <3>1, <3>2 DEF CallFollows, InBatch, Replying
  <2>6. CASE StartCall(k + 1) /\ task' = tasks
    <3>1. pc' = "tool_start" /\ k' = k + 1
      BY <2>6 DEF StartCall
    <3> HIDE DEF tasks
    <3> QED BY <2>1, <2>2, <2>3, <2>4, <2>6, <3>1 DEF CallFollows, InBatch, Replying
  <2>7. Launch(tasks) \/ (StartCall(k + 1) /\ task' = tasks)
    BY <1>29 DEF RefusalSettles, NextCall
  <2> QED BY <2>5, <2>6, <2>7
<1>30. CASE BatchSettled
  <2>1. InBatch /\ k \in Nat /\ turn \in Nat
    BY <1>30, CallAtHand DEF BatchSettled, InBatch, TypeInv, TypeOK, HistoryType, BatchType
  <2>2. pc = "tools_running" /\ pc' \in {"msg_start", "turn_end"} /\ UNCHANGED <<turn, k, task>>
    BY <1>30 DEF BatchSettled, DeliverOr, batchVars, runVars
  <2>3. \A c \in Calls : c[1] = turn /\ c[2] <= k => task[c] = "done"
    <3>1. \A c \in Calls : c[1] = turn /\ c[2] <= k => c \in Batch(k)
      BY <2>1, CallParts DEF Batch, Calls
    <3> QED BY <1>30, <3>1 DEF BatchSettled
  <2> SUFFICES ASSUME NEW c \in Calls PROVE CallFollows(c)'
    BY DEF TasksFollow
  <2>4. CallFollows(c) /\ c[1] \in Nat /\ c[2] \in Nat
    BY CallParts DEF TasksFollow
  <2> QED BY <2>1, <2>2, <2>3, <2>4 DEF CallFollows, InBatch, Replying
<1>31. CASE TurnEndSettles
  BY <1>31, TasksFrame DEF TurnEndSettles, stateVars, queueVars, loopVars, batchVars, runVars,
     InBatch, Replying
<1>32. CASE FinalTurnEndSettles
  BY <1>32, TasksFrame DEF FinalTurnEndSettles, AgentEnd, queueVars, loopVars, batchVars, runVars,
     InBatch, Replying
<1>33. CASE AgentEndSettles
  BY <1>33, TasksFrame DEF AgentEndSettles, FinishRun, queueVars, batchVars, runVars, InBatch,
     Replying
<1>34. CASE FailureStartSettles
  BY <1>34, TasksFrame DEF FailureStartSettles, MessageEnd, Notify, queueVars, loopVars, batchVars,
     runVars, InBatch, Replying
<1>35. CASE FailureEndSettles
  BY <1>35, TasksFrame DEF FailureEndSettles, Notify, stateVars, queueVars, loopVars, batchVars,
     InBatch, Replying
<1>36. CASE FailureTurnEndSettles
  BY <1>36, TasksFrame DEF FailureTurnEndSettles, AgentEnd, queueVars, loopVars, batchVars, runVars,
     InBatch, Replying
<1>37. CASE FailureAgentEndSettles
  BY <1>37, TasksFrame DEF FailureAgentEndSettles, FinishRun, queueVars, batchVars, runVars,
     InBatch, Replying
<1>38. CASE RunRejects
  BY <1>38, TasksFrame DEF RunRejects, AwaitsListeners, AwaitsHook, FailRun, MessageStart, Notify,
     queueVars, batchVars, runVars, InBatch, Replying
<1>39. CASE FailureRejects
  BY <1>39, TasksFrame DEF FailureRejects, FinishRun, queueVars, batchVars, runVars, InBatch,
     Replying
<1>40. ASSUME NEW c \in Calls, ToolExecuted(c) PROVE TasksFollow'
  <2>1. task \in [Calls -> TaskStates]
    BY DEF TypeInv, TypeOK, BatchType, TaskStates
  <2>2. PICK s \in {"ending", "done"} : task' = [task EXCEPT ![c] = s]
    BY <1>40 DEF ToolExecuted
  <2>3. task[c] = "running" /\ UNCHANGED <<turn, pc, stage, k>>
    BY <1>40 DEF ToolExecuted, loopVars, runVars
  <2> QED BY <2>1, <2>2, <2>3, TasksTool
<1>41. ASSUME NEW c \in Calls, ToolEndSettles(c) PROVE TasksFollow'
  <2>1. task \in [Calls -> TaskStates]
    BY DEF TypeInv, TypeOK, BatchType, TaskStates
  <2>2. task' = [task EXCEPT ![c] = "done"] /\ task[c] = "ending" /\ UNCHANGED <<turn, pc, stage, k>>
    BY <1>41 DEF ToolEndSettles, loopVars, runVars
  <2> QED BY <2>1, <2>2, TasksTool
<1>42. ASSUME NEW c \in Calls, ToolRejects(c) PROVE TasksFollow'
  <2>1. task \in [Calls -> TaskStates]
    BY DEF TypeInv, TypeOK, BatchType, TaskStates
  <2>2. /\ task' = [task EXCEPT ![c] = "done"] /\ task[c] \in {"running", "ending"}
        /\ UNCHANGED <<turn, stage, k>> /\ (pc' = pc \/ pc' = "failure_start")
    BY <1>42 DEF ToolRejects, FailRun, runVars
  <2> QED BY <2>1, <2>2, TasksTool
<1>43. ASSUME NEW c \in Calls, ToolUpdates(c) PROVE TasksFollow'
  BY <1>43, TasksFrame DEF ToolUpdates, NotifyOf, stateVars, queueVars, loopVars, runVars, InBatch,
     Replying
<1>44. ASSUME NEW c \in Calls, UpdateRejected(c) PROVE TasksFollow'
  BY <1>44, TasksFrame DEF UpdateRejected, NotifyOf, stateVars, queueVars, loopVars, runVars,
     InBatch, Replying
<1>45. CASE UNCHANGED vars
  BY <1>45, TasksFrame DEF vars, loopVars, batchVars, runVars
<1> QED
  BY <1>1, <1>2, <1>3, <1>4, <1>5, <1>6, <1>7, <1>8, <1>9, <1>10, <1>11, <1>12, <1>13, <1>14, <1>15,
     <1>16, <1>17, <1>18, <1>19, <1>20, <1>21, <1>22, <1>23, <1>24, <1>25, <1>26, <1>27, <1>28,
     <1>29, <1>30, <1>31, <1>32, <1>33, <1>34, <1>35, <1>36, <1>37, <1>38, <1>39, <1>40, <1>41,
     <1>42, <1>43, <1>44, <1>45 DEF Next, UserStep, LoopStep, ToolStep

\* No call is pending outside of a batch and of the report of a failure, and none once its results are emitted.
LEMMA PendingFrame ==
  ASSUME PendingFollows, pendingToolCalls' \subseteq pendingToolCalls,
         \/ UNCHANGED <<pc, stage, k, turn, task>>
         \/ pc' \in Failing
         \/ ~InBatch /\ pc \notin Failing
         \/ pc \in {"msg_start", "msg_end"}
  PROVE  PendingFollows'
<1> SUFFICES ASSUME NEW c \in pendingToolCalls' PROVE ShownRightly(c)'
  BY DEF PendingFollows
<1>1. ShownRightly(c)
  BY DEF PendingFollows
<1> QED BY <1>1 DEF ShownRightly, InBatch, Failing

\* The next call is shown, and those before it stay as they are.
LEMMA PendingNext ==
  ASSUME PendingFollows, NEW i \in Nat, pendingToolCalls' \subseteq pendingToolCalls \cup {<<turn, i>>},
         pc' = "tool_start", k' = i, turn' = turn,
         \A c \in pendingToolCalls : c[1] = turn /\ c[2] \in Nat /\ c[2] <= i /\ task'[c] \in {"prepared", "running"}
  PROVE  PendingFollows'
<1> SUFFICES ASSUME NEW c \in pendingToolCalls' PROVE ShownRightly(c)'
  BY DEF PendingFollows
<1>1. c \in pendingToolCalls \/ c = <<turn, i>>
  OBVIOUS
<1> QED BY <1>1 DEF ShownRightly, InBatch, Failing

\* A tool's own step takes its call out, or its call is not of this batch.
LEMMA PendingTool ==
  ASSUME PendingFollows, NEW c \in Calls, task \in [Calls -> TaskStates], NEW s, task' = [task EXCEPT ![c] = s],
         pendingToolCalls' \subseteq pendingToolCalls, pendingToolCalls \subseteq Calls,
         UNCHANGED <<pc, stage, k, turn>>, c \in pendingToolCalls' => ~InBatch
  PROVE  PendingFollows'
<1> SUFFICES ASSUME NEW d \in pendingToolCalls' PROVE ShownRightly(d)'
  BY DEF PendingFollows
<1>1. ShownRightly(d)
  BY DEF PendingFollows
<1>2. CASE d = c
  BY <1>1, <1>2 DEF ShownRightly, InBatch
<1>3. CASE d # c
  BY <1>1, <1>3 DEF ShownRightly, InBatch
<1> QED BY <1>2, <1>3

\* What is shown as pending starts and ends with its call.
LEMMA PendingStep == TypeInv /\ TasksFollow /\ PendingFollows /\ [Next]_vars => PendingFollows'
<1> SUFFICES ASSUME TypeInv, TasksFollow, PendingFollows, [Next]_vars PROVE PendingFollows'
  OBVIOUS
<1>1. ASSUME NEW q \in Queues, Enqueue(q) PROVE PendingFollows'
  BY <1>1, PendingFrame DEF Enqueue, stateVars, loopVars, batchVars, runVars, InBatch, Failing
<1>2. ASSUME NEW q \in Queues, ClearQueue(q) PROVE PendingFollows'
  BY <1>2, PendingFrame DEF ClearQueue, stateVars, loopVars, batchVars, runVars, InBatch, Failing
<1>3. ASSUME NEW q \in Queues, SetQueueMode(q) PROVE PendingFollows'
  BY <1>3, PendingFrame DEF SetQueueMode, stateVars, loopVars, batchVars, runVars, InBatch, Failing
<1>4. ASSUME NEW q \in Queues, ContinueFromQueue(q) PROVE PendingFollows'
  BY <1>4, PendingFrame DEF ContinueFromQueue, StartRun, batchVars, Drain, TypeInv, TypeOK,
     ControlType, InBatch, Failing
<1>5. CASE Abort
  BY <1>5, PendingFrame DEF Abort, queueVars, loopVars, batchVars, runVars, InBatch, Failing
<1>6. CASE Reset
  <2>1. pendingToolCalls' = {}
    BY <1>6 DEF Reset, FinishRun
  <2> QED BY <2>1 DEF PendingFollows
<1>7. CASE Prompt
  BY <1>7, PendingFrame DEF Prompt, StartRun, batchVars, TypeInv, TypeOK, ControlType, InBatch,
     Failing
<1>8. CASE ContinueFromTranscript
  BY <1>8, PendingFrame DEF ContinueFromTranscript, StartRun, batchVars, queueVars, TypeInv, TypeOK,
     ControlType, InBatch, Failing
<1>9. CASE DropFailedReply
  BY <1>9, PendingFrame DEF DropFailedReply, queueVars, loopVars, batchVars, runVars, TypeInv,
     TypeOK, ControlType, InBatch, Failing
<1>10. CASE AgentStartSettles
  BY <1>10, PendingFrame DEF AgentStartSettles, Notify, stateVars, queueVars, loopVars, batchVars,
     runVars, InBatch, Failing
<1>11. CASE FirstTurnStartSettles
  BY <1>11, PendingFrame DEF FirstTurnStartSettles, DeliverOr, MessageStart, Notify, queueVars,
     batchVars, runVars, TypeInv, Parked, InBatch, Failing
<1>12. CASE MessageStartSettles
  BY <1>12, PendingFrame DEF MessageStartSettles, MessageEnd, Notify, queueVars, loopVars,
     batchVars, runVars, InBatch, Failing
<1>13. CASE PromptDelivered
  BY <1>13, PendingFrame DEF PromptDelivered, DeliverOr, MessageStart, Notify, queueVars, batchVars,
     runVars, InBatch, Failing
<1>14. CASE PendingDelivered
  BY <1>14, PendingFrame DEF PendingDelivered, DeliverOr, MessageStart, Notify, queueVars,
     batchVars, runVars, InBatch, Failing
<1>15. CASE ResultDelivered
  <2>1. InBatch /\ pc = "msg_end" /\ UNCHANGED turn /\ k \in Nat
    BY <1>15 DEF ResultDelivered, InBatch, runVars, TypeInv, TypeOK, BatchType
  <2>2. pendingToolCalls = {}
    BY <2>1 DEF PendingFollows, ShownRightly
  <2>3. \/ pendingToolCalls' = {}
        \/ pc' = "tool_start" /\ k' = k + 1 /\ pendingToolCalls' = {<<turn, k + 1>>}
    BY <1>15, <2>2 DEF ResultDelivered, StartCall
  <2> QED BY <2>1, <2>2, <2>3, PendingNext DEF PendingFollows
<1>16. CASE PollInitial
  BY <1>16, PendingFrame DEF PollInitial, DeliverOr, MessageStart, Notify, queueVars, Drain,
     batchVars, runVars, InBatch, Failing
<1>17. CASE PollSteering
  BY <1>17, PendingFrame DEF PollSteering, Drain, NextTurn, Notify, batchVars, runVars, InBatch,
     Failing
<1>18. CASE PollFollowUp
  BY <1>18, PendingFrame DEF PollFollowUp, Drain, NextTurn, Notify, AgentEnd, batchVars, runVars,
     InBatch, Failing
<1>19. CASE TurnStartSettles
  BY <1>19, PendingFrame DEF TurnStartSettles, DeliverOr, MessageStart, Notify, queueVars,
     batchVars, runVars, InBatch, Failing
<1>20. CASE SendRequest
  BY <1>20, PendingFrame DEF SendRequest, stateVars, queueVars, loopVars, batchVars, InBatch,
     Failing
<1>21. CASE StreamStarts
  BY <1>21, PendingFrame DEF StreamStarts, MessageStart, Notify, queueVars, batchVars, runVars,
     InBatch, Failing
<1>22. CASE StreamEnds
  BY <1>22, PendingFrame DEF StreamEnds, MessageEnd, Notify, MessageStart, queueVars, batchVars,
     runVars, InBatch, Failing
<1>23. CASE ReplyStartSettles
  BY <1>23, PendingFrame DEF ReplyStartSettles, MessageEnd, Notify, queueVars, loopVars, batchVars,
     runVars, InBatch, Failing
<1>24. CASE ReplyFailed
  BY <1>24, PendingFrame DEF ReplyFailed, Notify, stateVars, queueVars, loopVars, batchVars,
     InBatch, Failing
<1>25. CASE ReplyWithoutCalls
  BY <1>25, PendingFrame DEF ReplyWithoutCalls, EndTurn, Notify, stateVars, queueVars, batchVars,
     runVars, InBatch, Failing
<1>26. CASE ReplyWithCalls
  <2>1. pc = "reply_end" /\ pc' = "tool_start" /\ k' = 1 /\ UNCHANGED turn
    BY <1>26 DEF ReplyWithCalls, StartCall, runVars
  <2>2. pendingToolCalls = {}
    BY <2>1 DEF PendingFollows, ShownRightly, InBatch, Failing
  <2>3. pendingToolCalls' = pendingToolCalls \cup {<<turn, 1>>}
    BY <1>26 DEF ReplyWithCalls, StartCall
  <2> QED BY <2>1, <2>2, <2>3, PendingNext
<1>27. CASE ToolPrepared
  <2>1. /\ Call \in Calls /\ InBatch /\ k \in Nat /\ task \in [Calls -> TaskStates]
        /\ pendingToolCalls \subseteq Calls
    BY <1>27, CallAtHand DEF ToolPrepared, InBatch, TypeInv, TypeOK, BatchType, TaskStates
  <2> DEFINE tasks == [task EXCEPT ![Call] = "prepared"]
  <2>2. turn' = turn /\ pc \in {"tool_start", "tool_end"}
    BY <1>27 DEF ToolPrepared, runVars
  <2>3. \A c \in pendingToolCalls : /\ c[1] = turn /\ c[2] \in Nat /\ c[2] <= k
                                    /\ tasks[c] \in {"prepared", "running"}
    <3> SUFFICES ASSUME NEW c \in pendingToolCalls
                 PROVE  c[1] = turn /\ c[2] \in Nat /\ c[2] <= k /\ tasks[c] \in {"prepared", "running"}
      OBVIOUS
    <3>1. ShownRightly(c) /\ c \in Calls /\ c[2] \in Nat /\ (c = Call <=> c[1] = turn /\ c[2] = k)
      BY <2>1, CallParts DEF PendingFollows, Call
    <3>2. tasks[c] = IF c = Call THEN "prepared" ELSE task[c]
      BY <2>1, <3>1
    <3>3. pc = "tool_end" => c # Call
      BY <2>1, <3>1 DEF TasksFollow, CallFollows, ShownRightly
    <3> QED BY <1>27, <2>1, <2>2, <3>1, <3>2, <3>3 DEF ShownRightly, ToolPrepared
  <2>4. CASE Launch(tasks)
    <3>1. pc' = "tools_running" /\ UNCHANGED <<k, pendingToolCalls>>
      BY <2>4 DEF Launch
    <3>2. \A c \in pendingToolCalls : task'[c] = "running"
      BY <2>1, <2>3, <2>4 DEF Launch
    <3> QED BY <2>2, <2>3, <3>1, <3>2 DEF PendingFollows, ShownRightly, InBatch
  <2>5. CASE StartCall(k + 1) /\ task' = tasks
    <3>1. pc' = "tool_start" /\ k' = k + 1 /\ pendingToolCalls' = pendingToolCalls \cup {<<turn, k + 1>>}
      BY <2>5 DEF StartCall
    <3>2. \A c \in pendingToolCalls : c[2] <= k + 1
      BY <2>1, <2>3
    <3> HIDE DEF tasks
    <3> QED BY <2>1, <2>2, <2>3, <2>5, <3>1, <3>2, PendingNext
  <2>6. Launch(tasks) \/ (StartCall(k + 1) /\ task' = tasks)
    BY <1>27 DEF ToolPrepared, NextCall
  <2> QED BY <2>4, <2>5, <2>6
<1>28. CASE ToolRefused
  <2>1. /\ pc = "tool_start" /\ pc' = "tool_end" /\ UNCHANGED <<turn, k, task>>
        /\ pendingToolCalls' = pendingToolCalls \ {Call}
    BY <1>28 DEF ToolRefused, runVars
  <2>2. pendingToolCalls \subseteq Calls
    BY DEF TypeInv, TypeOK, BatchType
  <2> SUFFICES ASSUME NEW c \in pendingToolCalls' PROVE ShownRightly(c)'
    BY DEF PendingFollows
  <2>3. ShownRightly(c) /\ c # Call /\ (c = Call <=> c[1] = turn /\ c[2] = k)
    BY <2>1, <2>2, CallParts DEF PendingFollows, Call
  <2> QED BY <2>1, <2>3 DEF ShownRightly, InBatch
<1>29. CASE RefusalSettles
  <2>1. /\ Call \in Calls /\ InBatch /\ k \in Nat /\ task \in [Calls -> TaskStates]
        /\ pendingToolCalls \subseteq Calls
    BY <1>29, CallAtHand DEF RefusalSettles, InBatch, TypeInv, TypeOK, BatchType, TaskStates
  <2> DEFINE tasks == [task EXCEPT ![Call] = "done"]
  <2>2. turn' = turn /\ pc \in {"tool_start", "tool_end"}
    BY <1>29 DEF RefusalSettles, runVars
  <2>3. \A c \in pendingToolCalls : /\ c[1] = turn /\ c[2] \in Nat /\ c[2] <= k
                                    /\ tasks[c] \in {"prepared", "running"}
    <3> SUFFICES ASSUME NEW c \in pendingToolCalls
                 PROVE  c[1] = turn /\ c[2] \in Nat /\ c[2] <= k /\ tasks[c] \in {"prepared", "running"}
      OBVIOUS
    <3>1. ShownRightly(c) /\ c \in Calls /\ c[2] \in Nat /\ (c = Call <=> c[1] = turn /\ c[2] = k)
      BY <2>1, CallParts DEF PendingFollows, Call
    <3>2. tasks[c] = IF c = Call THEN "done" ELSE task[c]
      BY <2>1, <3>1
    <3>3. pc = "tool_end" => c # Call
      BY <2>1, <3>1 DEF TasksFollow, CallFollows, ShownRightly
    <3> QED BY <1>29, <2>1, <2>2, <3>1, <3>2, <3>3 DEF ShownRightly, RefusalSettles
  <2>4. CASE Launch(tasks)
    <3>1. pc' = "tools_running" /\ UNCHANGED <<k, pendingToolCalls>>
      BY <2>4 DEF Launch
    <3>2. \A c \in pendingToolCalls : task'[c] = "running"
      BY <2>1, <2>3, <2>4 DEF Launch
    <3> QED BY <2>2, <2>3, <3>1, <3>2 DEF PendingFollows, ShownRightly, InBatch
  <2>5. CASE StartCall(k + 1) /\ task' = tasks
    <3>1. pc' = "tool_start" /\ k' = k + 1 /\ pendingToolCalls' = pendingToolCalls \cup {<<turn, k + 1>>}
      BY <2>5 DEF StartCall
    <3>2. \A c \in pendingToolCalls : c[2] <= k + 1
      BY <2>1, <2>3
    <3> HIDE DEF tasks
    <3> QED BY <2>1, <2>2, <2>3, <2>5, <3>1, <3>2, PendingNext
  <2>6. Launch(tasks) \/ (StartCall(k + 1) /\ task' = tasks)
    BY <1>29 DEF RefusalSettles, NextCall
  <2> QED BY <2>4, <2>5, <2>6
<1>30. CASE BatchSettled
  <2>1. /\ pc = "tools_running" /\ pendingToolCalls' = pendingToolCalls /\ k \in Nat
        /\ pendingToolCalls \subseteq Calls
    BY <1>30 DEF BatchSettled, TypeInv, TypeOK, BatchType
  <2>2. ASSUME NEW c \in pendingToolCalls PROVE FALSE
    <3>1. ShownRightly(c) /\ c \in Calls
      BY <2>1 DEF PendingFollows
    <3>2. c \in Batch(k)
      BY <2>1, <3>1, CallParts DEF Batch, Calls, ShownRightly, InBatch
    <3> QED BY <1>30, <2>1, <3>1, <3>2 DEF BatchSettled, ShownRightly, InBatch
  <2> QED BY <2>1, <2>2 DEF PendingFollows
<1>31. CASE TurnEndSettles
  BY <1>31, PendingFrame DEF TurnEndSettles, stateVars, queueVars, loopVars, batchVars, runVars,
     InBatch, Failing
<1>32. CASE FinalTurnEndSettles
  BY <1>32, PendingFrame DEF FinalTurnEndSettles, AgentEnd, queueVars, loopVars, batchVars, runVars,
     InBatch, Failing
<1>33. CASE AgentEndSettles
  <2>1. pendingToolCalls' = {}
    BY <1>33 DEF AgentEndSettles, FinishRun
  <2> QED BY <2>1 DEF PendingFollows
<1>34. CASE FailureStartSettles
  BY <1>34, PendingFrame DEF FailureStartSettles, MessageEnd, Notify, queueVars, loopVars,
     batchVars, runVars, InBatch, Failing
<1>35. CASE FailureEndSettles
  BY <1>35, PendingFrame DEF FailureEndSettles, Notify, stateVars, queueVars, loopVars, batchVars,
     InBatch, Failing
<1>36. CASE FailureTurnEndSettles
  BY <1>36, PendingFrame DEF FailureTurnEndSettles, AgentEnd, queueVars, loopVars, batchVars,
     runVars, InBatch, Failing
<1>37. CASE FailureAgentEndSettles
  <2>1. pendingToolCalls' = {}
    BY <1>37 DEF FailureAgentEndSettles, FinishRun
  <2> QED BY <2>1 DEF PendingFollows
<1>38. CASE RunRejects
  BY <1>38, PendingFrame DEF RunRejects, AwaitsListeners, AwaitsHook, FailRun, MessageStart, Notify,
     queueVars, batchVars, runVars, InBatch, Failing
<1>39. CASE FailureRejects
  <2>1. pendingToolCalls' = {}
    BY <1>39 DEF FailureRejects, FinishRun
  <2> QED BY <2>1 DEF PendingFollows
<1>40. ASSUME NEW c \in Calls, ToolExecuted(c) PROVE PendingFollows'
  <2>1. task \in [Calls -> TaskStates] /\ pendingToolCalls \subseteq Calls
    BY DEF TypeInv, TypeOK, BatchType, TaskStates
  <2>2. PICK s \in {"ending", "done"} : task' = [task EXCEPT ![c] = s]
    BY <1>40 DEF ToolExecuted
  <2>3. pendingToolCalls' = pendingToolCalls \ {c} /\ UNCHANGED <<turn, pc, stage, k>>
    BY <1>40 DEF ToolExecuted, loopVars, runVars
  <2> QED BY <2>1, <2>2, <2>3, PendingTool
<1>41. ASSUME NEW c \in Calls, ToolEndSettles(c) PROVE PendingFollows'
  <2>1. task \in [Calls -> TaskStates] /\ pendingToolCalls \subseteq Calls
    BY DEF TypeInv, TypeOK, BatchType, TaskStates
  <2>2. task' = [task EXCEPT ![c] = "done"] /\ UNCHANGED <<turn, pc, stage, k, pendingToolCalls>>
    BY <1>41 DEF ToolEndSettles, stateVars, loopVars, runVars
  <2>3. c \in pendingToolCalls => ~InBatch
    <3> SUFFICES ASSUME c \in pendingToolCalls, InBatch PROVE FALSE
      OBVIOUS
    <3>1. ShownRightly(c) /\ CallFollows(c)
      BY DEF PendingFollows, TasksFollow
    <3> QED BY <1>41, <3>1 DEF ToolEndSettles, ShownRightly, CallFollows
  <2> QED BY <2>1, <2>2, <2>3, PendingTool
<1>42. ASSUME NEW c \in Calls, ToolRejects(c) PROVE PendingFollows'
  <2>1. task \in [Calls -> TaskStates] /\ pendingToolCalls \subseteq Calls
    BY DEF TypeInv, TypeOK, BatchType, TaskStates
  <2>2. /\ task' = [task EXCEPT ![c] = "done"] /\ task[c] \in {"running", "ending"}
        /\ UNCHANGED <<turn, stage, k, pendingToolCalls>>
    BY <1>42 DEF ToolRejects, runVars
  <2>3. CASE Awaited(c)
    <3>1. pc' \in Failing
      BY <1>42, <2>3 DEF ToolRejects, FailRun, Failing
    <3> QED BY <2>2, <3>1, PendingFrame
  <2>4. CASE ~Awaited(c)
    <3>3. pc' = pc
      BY <1>42, <2>4 DEF ToolRejects
    <3>4. c \in pendingToolCalls => ~InBatch
      <4> SUFFICES ASSUME c \in pendingToolCalls, InBatch PROVE FALSE
        OBVIOUS
      <4>1. ShownRightly(c) /\ CallFollows(c)
        BY DEF PendingFollows, TasksFollow
      <4> QED BY <2>2, <2>4, <4>1 DEF Awaited, ShownRightly, CallFollows
    <3> QED BY <2>1, <2>2, <3>3, <3>4, PendingTool
  <2> QED BY <2>3, <2>4
<1>43. ASSUME NEW c \in Calls, ToolUpdates(c) PROVE PendingFollows'
  BY <1>43, PendingFrame DEF ToolUpdates, NotifyOf, stateVars, queueVars, loopVars, runVars,
     InBatch, Failing
<1>44. ASSUME NEW c \in Calls, UpdateRejected(c) PROVE PendingFollows'
  BY <1>44, PendingFrame DEF UpdateRejected, NotifyOf, stateVars, queueVars, loopVars, runVars,
     InBatch, Failing
<1>45. CASE UNCHANGED vars
  BY <1>45, PendingFrame DEF vars, stateVars, loopVars, batchVars, runVars
<1> QED
  BY <1>1, <1>2, <1>3, <1>4, <1>5, <1>6, <1>7, <1>8, <1>9, <1>10, <1>11, <1>12, <1>13, <1>14, <1>15,
     <1>16, <1>17, <1>18, <1>19, <1>20, <1>21, <1>22, <1>23, <1>24, <1>25, <1>26, <1>27, <1>28,
     <1>29, <1>30, <1>31, <1>32, <1>33, <1>34, <1>35, <1>36, <1>37, <1>38, <1>39, <1>40, <1>41,
     <1>42, <1>43, <1>44, <1>45 DEF Next, UserStep, LoopStep, ToolStep

\* Only a request counts, and only a run moves the base.
LEMMA CountedFrame ==
  ASSUME Counted, UNCHANGED <<base, turn>>, pc' \in Replying \/ InBatch' => pc \in Replying \/ InBatch
  PROVE  Counted'
  BY DEF Counted

\* Requests are counted from the base of their run.
LEMMA CountedStep == TypeInv /\ Counted /\ [Next]_vars => Counted'
<1> SUFFICES ASSUME TypeInv, Counted, [Next]_vars PROVE Counted'
  OBVIOUS
<1>1. ASSUME NEW q \in Queues, Enqueue(q) PROVE Counted'
  BY <1>1, CountedFrame DEF Enqueue, stateVars, loopVars, batchVars, runVars, InBatch, Replying
<1>2. ASSUME NEW q \in Queues, ClearQueue(q) PROVE Counted'
  BY <1>2, CountedFrame DEF ClearQueue, stateVars, loopVars, batchVars, runVars, InBatch, Replying
<1>3. ASSUME NEW q \in Queues, SetQueueMode(q) PROVE Counted'
  BY <1>3, CountedFrame DEF SetQueueMode, stateVars, loopVars, batchVars, runVars, InBatch, Replying
<1>4. ASSUME NEW q \in Queues, ContinueFromQueue(q) PROVE Counted'
  <2>1. base' = turn /\ turn' = turn /\ pc' = "agent_start" /\ turn \in Nat
    BY <1>4 DEF ContinueFromQueue, StartRun, TypeInv, TypeOK, HistoryType
  <2> QED BY <2>1 DEF Counted, InBatch, Replying
<1>5. CASE Abort
  BY <1>5, CountedFrame DEF Abort, queueVars, loopVars, batchVars, runVars, InBatch, Replying
<1>6. CASE Reset
  BY <1>6, CountedFrame DEF Reset, loopVars, batchVars, InBatch, Replying
<1>7. CASE Prompt
  <2>1. base' = turn /\ turn' = turn /\ pc' = "agent_start" /\ turn \in Nat
    BY <1>7 DEF Prompt, StartRun, TypeInv, TypeOK, HistoryType
  <2> QED BY <2>1 DEF Counted, InBatch, Replying
<1>8. CASE ContinueFromTranscript
  <2>1. base' = turn /\ turn' = turn /\ pc' = "agent_start" /\ turn \in Nat
    BY <1>8 DEF ContinueFromTranscript, StartRun, TypeInv, TypeOK, HistoryType
  <2> QED BY <2>1 DEF Counted, InBatch, Replying
<1>9. CASE DropFailedReply
  BY <1>9, CountedFrame DEF DropFailedReply, queueVars, loopVars, batchVars, runVars, InBatch,
     Replying
<1>10. CASE AgentStartSettles
  BY <1>10, CountedFrame DEF AgentStartSettles, Notify, stateVars, queueVars, loopVars, batchVars,
     runVars, InBatch, Replying
<1>11. CASE FirstTurnStartSettles
  BY <1>11, CountedFrame DEF FirstTurnStartSettles, DeliverOr, MessageStart, Notify, queueVars,
     batchVars, runVars, TypeInv, Parked, InBatch, Replying
<1>12. CASE MessageStartSettles
  BY <1>12, CountedFrame DEF MessageStartSettles, MessageEnd, Notify, queueVars, loopVars,
     batchVars, runVars, InBatch, Replying
<1>13. CASE PromptDelivered
  BY <1>13, CountedFrame DEF PromptDelivered, DeliverOr, MessageStart, Notify, queueVars, batchVars,
     runVars, InBatch, Replying
<1>14. CASE PendingDelivered
  BY <1>14, CountedFrame DEF PendingDelivered, DeliverOr, MessageStart, Notify, queueVars,
     batchVars, runVars, InBatch, Replying
<1>15. CASE ResultDelivered
  BY <1>15, CountedFrame DEF ResultDelivered, DeliverOr, MessageStart, Notify, CallsToGo, StartCall,
     EndTurn, queueVars, runVars, InBatch, Replying
<1>16. CASE PollInitial
  BY <1>16, CountedFrame DEF PollInitial, DeliverOr, MessageStart, Notify, queueVars, Drain,
     batchVars, runVars, InBatch, Replying
<1>17. CASE PollSteering
  BY <1>17, CountedFrame DEF PollSteering, Drain, NextTurn, Notify, batchVars, runVars, InBatch,
     Replying
<1>18. CASE PollFollowUp
  BY <1>18, CountedFrame DEF PollFollowUp, Drain, NextTurn, Notify, AgentEnd, batchVars, runVars,
     InBatch, Replying
<1>19. CASE TurnStartSettles
  BY <1>19, CountedFrame DEF TurnStartSettles, DeliverOr, MessageStart, Notify, queueVars,
     batchVars, runVars, TypeInv, Parked, InBatch, Replying
<1>20. CASE SendRequest
  <2>1. base' = base /\ turn' = turn + 1 /\ base \in Nat /\ turn \in Nat
    BY <1>20 DEF SendRequest, TypeInv, TypeOK, HistoryType
  <2> QED BY <2>1 DEF Counted
<1>21. CASE StreamStarts
  BY <1>21, CountedFrame DEF StreamStarts, MessageStart, Notify, queueVars, batchVars, runVars,
     InBatch, Replying
<1>22. CASE StreamEnds
  BY <1>22, CountedFrame DEF StreamEnds, MessageEnd, Notify, MessageStart, queueVars, batchVars,
     runVars, InBatch, Replying
<1>23. CASE ReplyStartSettles
  BY <1>23, CountedFrame DEF ReplyStartSettles, MessageEnd, Notify, queueVars, loopVars, batchVars,
     runVars, InBatch, Replying
<1>24. CASE ReplyFailed
  BY <1>24, CountedFrame DEF ReplyFailed, Notify, stateVars, queueVars, loopVars, batchVars,
     InBatch, Replying
<1>25. CASE ReplyWithoutCalls
  BY <1>25, CountedFrame DEF ReplyWithoutCalls, EndTurn, Notify, stateVars, queueVars, batchVars,
     runVars, InBatch, Replying
<1>26. CASE ReplyWithCalls
  BY <1>26, CountedFrame DEF ReplyWithCalls, StartCall, Notify, queueVars, loopVars, runVars,
     InBatch, Replying
<1>27. CASE ToolPrepared
  BY <1>27, CountedFrame DEF ToolPrepared, Launch, Call, NextCall, CallsToGo, StartCall, Notify,
     queueVars, loopVars, runVars, InBatch, Replying
<1>28. CASE ToolRefused
  BY <1>28, CountedFrame DEF ToolRefused, Call, Notify, queueVars, loopVars, runVars, InBatch,
     Replying
<1>29. CASE RefusalSettles
  BY <1>29, CountedFrame DEF RefusalSettles, Launch, Call, NextCall, CallsToGo, StartCall, Notify,
     queueVars, loopVars, runVars, InBatch, Replying
<1>30. CASE BatchSettled
  BY <1>30, CountedFrame DEF BatchSettled, DeliverOr, MessageStart, Notify, Call, queueVars,
     batchVars, runVars, InBatch, Replying
<1>31. CASE TurnEndSettles
  BY <1>31, CountedFrame DEF TurnEndSettles, stateVars, queueVars, loopVars, batchVars, runVars,
     InBatch, Replying
<1>32. CASE FinalTurnEndSettles
  BY <1>32, CountedFrame DEF FinalTurnEndSettles, AgentEnd, queueVars, loopVars, batchVars, runVars,
     InBatch, Replying
<1>33. CASE AgentEndSettles
  BY <1>33, CountedFrame DEF AgentEndSettles, FinishRun, queueVars, batchVars, runVars, InBatch,
     Replying
<1>34. CASE FailureStartSettles
  BY <1>34, CountedFrame DEF FailureStartSettles, MessageEnd, Notify, queueVars, loopVars,
     batchVars, runVars, InBatch, Replying
<1>35. CASE FailureEndSettles
  BY <1>35, CountedFrame DEF FailureEndSettles, Notify, stateVars, queueVars, loopVars, batchVars,
     InBatch, Replying
<1>36. CASE FailureTurnEndSettles
  BY <1>36, CountedFrame DEF FailureTurnEndSettles, AgentEnd, queueVars, loopVars, batchVars,
     runVars, InBatch, Replying
<1>37. CASE FailureAgentEndSettles
  BY <1>37, CountedFrame DEF FailureAgentEndSettles, FinishRun, queueVars, batchVars, runVars,
     InBatch, Replying
<1>38. CASE RunRejects
  BY <1>38, CountedFrame DEF RunRejects, AwaitsListeners, AwaitsHook, FailRun, MessageStart, Notify,
     queueVars, batchVars, runVars, InBatch, Replying
<1>39. CASE FailureRejects
  BY <1>39, CountedFrame DEF FailureRejects, FinishRun, queueVars, batchVars, runVars, InBatch,
     Replying
<1>40. ASSUME NEW c \in Calls, ToolExecuted(c) PROVE Counted'
  BY <1>40, CountedFrame DEF ToolExecuted, NotifyOf, queueVars, loopVars, runVars, InBatch, Replying
<1>41. ASSUME NEW c \in Calls, ToolEndSettles(c) PROVE Counted'
  BY <1>41, CountedFrame DEF ToolEndSettles, stateVars, queueVars, loopVars, runVars, InBatch,
     Replying
<1>42. ASSUME NEW c \in Calls, ToolRejects(c) PROVE Counted'
  BY <1>42, CountedFrame DEF ToolRejects, Awaited, FailRun, MessageStart, Notify, queueVars,
     runVars, InBatch, Replying
<1>43. ASSUME NEW c \in Calls, ToolUpdates(c) PROVE Counted'
  BY <1>43, CountedFrame DEF ToolUpdates, NotifyOf, stateVars, queueVars, loopVars, runVars,
     InBatch, Replying
<1>44. ASSUME NEW c \in Calls, UpdateRejected(c) PROVE Counted'
  BY <1>44, CountedFrame DEF UpdateRejected, NotifyOf, stateVars, queueVars, loopVars, runVars,
     InBatch, Replying
<1>45. CASE UNCHANGED vars
  BY <1>45, CountedFrame DEF vars, loopVars, runVars, InBatch, Replying
<1> QED
  BY <1>1, <1>2, <1>3, <1>4, <1>5, <1>6, <1>7, <1>8, <1>9, <1>10, <1>11, <1>12, <1>13, <1>14, <1>15,
     <1>16, <1>17, <1>18, <1>19, <1>20, <1>21, <1>22, <1>23, <1>24, <1>25, <1>26, <1>27, <1>28,
     <1>29, <1>30, <1>31, <1>32, <1>33, <1>34, <1>35, <1>36, <1>37, <1>38, <1>39, <1>40, <1>41,
     <1>42, <1>43, <1>44, <1>45 DEF Next, UserStep, LoopStep, ToolStep

\* What rejects is counted for good, and what follows a rejection is not quiet any more.
LEMMA QuietFault == faults' = faults + 1 /\ faults \in Nat => Quiet'
  BY DEF Quiet, Calm

\* A step that starts no tool and no report, and does not leave a running one, stays quiet.
LEMMA QuietFrame ==
  ASSUME Quiet, faults' = faults, UNCHANGED updateFailed,
         faults = 0 => /\ late' = late /\ pc' \notin Failing
                       /\ ended' => pc' \in {"agent_end", "idle"}
                       /\ UNCHANGED <<task, turn>>
                       /\ pc = "tools_running" => pc' = pc \/ \A c \in Calls : task[c] \notin {"running", "ending"}
  PROVE  Quiet'
<1> SUFFICES ASSUME faults' = 0 PROVE Calm'
  BY DEF Quiet, Calm
<1>1. ASSUME NEW c \in Calls PROVE Attended(c)'
  BY DEF Quiet, Calm, Attended
<1> QED BY <1>1 DEF Quiet, Calm

\* Nothing runs on or follows agent_end until something rejects.
LEMMA QuietStep == TypeInv /\ TasksFollow /\ Counted /\ Quiet /\ [Next]_vars => Quiet'
<1> SUFFICES ASSUME TypeInv, TasksFollow, Counted, Quiet, [Next]_vars PROVE Quiet'
  OBVIOUS
<1>1. ASSUME NEW q \in Queues, Enqueue(q) PROVE Quiet'
  BY <1>1, QuietFrame DEF Enqueue, stateVars, loopVars, batchVars, runVars, Quiet, Calm, Failing
<1>2. ASSUME NEW q \in Queues, ClearQueue(q) PROVE Quiet'
  BY <1>2, QuietFrame DEF ClearQueue, stateVars, loopVars, batchVars, runVars, Quiet, Calm, Failing
<1>3. ASSUME NEW q \in Queues, SetQueueMode(q) PROVE Quiet'
  BY <1>3, QuietFrame DEF SetQueueMode, stateVars, loopVars, batchVars, runVars, Quiet, Calm,
     Failing
<1>4. ASSUME NEW q \in Queues, ContinueFromQueue(q) PROVE Quiet'
  BY <1>4, QuietFrame DEF ContinueFromQueue, StartRun, batchVars, Drain, Quiet, Calm, Failing,
     TypeInv, TypeOK, ControlType
<1>5. CASE Abort
  BY <1>5, QuietFrame DEF Abort, queueVars, loopVars, batchVars, runVars, Quiet, Calm, Failing
<1>6. CASE Reset
  BY <1>6, QuietFrame DEF Reset, loopVars, batchVars, Quiet, Calm, Failing
<1>7. CASE Prompt
  BY <1>7, QuietFrame DEF Prompt, StartRun, batchVars, Quiet, Calm, Failing, TypeInv, TypeOK,
     ControlType
<1>8. CASE ContinueFromTranscript
  BY <1>8, QuietFrame DEF ContinueFromTranscript, StartRun, batchVars, queueVars, Quiet, Calm,
     Failing, TypeInv, TypeOK, ControlType
<1>9. CASE DropFailedReply
  BY <1>9, QuietFrame DEF DropFailedReply, queueVars, loopVars, batchVars, runVars, Quiet, Calm,
     Failing
<1>10. CASE AgentStartSettles
  BY <1>10, QuietFrame DEF AgentStartSettles, Notify, stateVars, queueVars, loopVars, batchVars,
     runVars, Quiet, Calm, Failing
<1>11. CASE FirstTurnStartSettles
  BY <1>11, QuietFrame DEF FirstTurnStartSettles, DeliverOr, MessageStart, Notify, queueVars,
     batchVars, runVars, Quiet, Calm, Failing
<1>12. CASE MessageStartSettles
  BY <1>12, QuietFrame DEF MessageStartSettles, MessageEnd, Notify, queueVars, loopVars, batchVars,
     runVars, Quiet, Calm, Failing
<1>13. CASE PromptDelivered
  BY <1>13, QuietFrame DEF PromptDelivered, DeliverOr, MessageStart, Notify, queueVars, batchVars,
     runVars, Quiet, Calm, Failing
<1>14. CASE PendingDelivered
  BY <1>14, QuietFrame DEF PendingDelivered, DeliverOr, MessageStart, Notify, queueVars, batchVars,
     runVars, Quiet, Calm, Failing
<1>15. CASE ResultDelivered
  BY <1>15, QuietFrame DEF ResultDelivered, DeliverOr, MessageStart, Notify, CallsToGo, StartCall,
     EndTurn, queueVars, runVars, Quiet, Calm, Failing
<1>16. CASE PollInitial
  BY <1>16, QuietFrame DEF PollInitial, DeliverOr, MessageStart, Notify, queueVars, Drain,
     batchVars, runVars, Quiet, Calm, Failing
<1>17. CASE PollSteering
  BY <1>17, QuietFrame DEF PollSteering, Drain, NextTurn, Notify, batchVars, runVars, Quiet, Calm,
     Failing
<1>18. CASE PollFollowUp
  BY <1>18, QuietFrame DEF PollFollowUp, Drain, NextTurn, Notify, AgentEnd, batchVars, runVars,
     Quiet, Calm, Failing
<1>19. CASE TurnStartSettles
  BY <1>19, QuietFrame DEF TurnStartSettles, DeliverOr, MessageStart, Notify, queueVars, batchVars,
     runVars, Quiet, Calm, Failing
<1>20. CASE SendRequest
  <2> SUFFICES ASSUME faults' = 0 PROVE Calm'
    BY DEF Quiet, Calm
  <2>1. faults = 0 /\ pc = "request" /\ pc' = "stream" /\ UNCHANGED <<late, ended, updateFailed, task>>
    BY <1>20 DEF SendRequest, batchVars
  <2>2. ASSUME NEW c \in Calls PROVE Attended(c)'
    BY <2>1 DEF Quiet, Calm, Attended
  <2> QED BY <2>1, <2>2 DEF Quiet, Calm, Failing
<1>21. CASE StreamStarts
  BY <1>21, QuietFrame DEF StreamStarts, MessageStart, Notify, queueVars, batchVars, runVars, Quiet,
     Calm, Failing
<1>22. CASE StreamEnds
  BY <1>22, QuietFrame DEF StreamEnds, MessageEnd, Notify, MessageStart, queueVars, batchVars,
     runVars, Quiet, Calm, Failing
<1>23. CASE ReplyStartSettles
  BY <1>23, QuietFrame DEF ReplyStartSettles, MessageEnd, Notify, queueVars, loopVars, batchVars,
     runVars, Quiet, Calm, Failing
<1>24. CASE ReplyFailed
  BY <1>24, QuietFrame DEF ReplyFailed, Notify, stateVars, queueVars, loopVars, batchVars, Quiet,
     Calm, Failing
<1>25. CASE ReplyWithoutCalls
  BY <1>25, QuietFrame DEF ReplyWithoutCalls, EndTurn, Notify, stateVars, queueVars, batchVars,
     runVars, Quiet, Calm, Failing
<1>26. CASE ReplyWithCalls
  BY <1>26, QuietFrame DEF ReplyWithCalls, StartCall, Notify, queueVars, loopVars, runVars, Quiet,
     Calm, Failing
<1>27. CASE ToolPrepared
  <2> SUFFICES ASSUME faults' = 0 PROVE Calm'
    BY DEF Quiet, Calm
  <2> DEFINE tasks == [task EXCEPT ![Call] = "prepared"]
  <2>1. faults = 0 /\ pc \in {"tool_start", "tool_end"} /\ UNCHANGED <<updateFailed, turn>> /\ ~ended
    BY <1>27 DEF ToolPrepared, runVars, Quiet, Calm
  <2>2. task \in [Calls -> TaskStates]
    BY DEF TypeInv, TypeOK, BatchType, TaskStates
  <2>3. \A c \in Calls : tasks[c] \notin {"running", "ending"}
    BY <2>1, <2>2 DEF Quiet, Calm, Attended
  <2>4. CASE Launch(tasks)
    <3>1. pc' = "tools_running" /\ UNCHANGED <<late, ended>>
      BY <2>4 DEF Launch
    <3>2. ASSUME NEW c \in Calls PROVE Attended(c)'
      <4>1. task'[c] \in {"running", "ending"} => c[1] = turn
        BY <2>3, <2>4 DEF Launch
      <4> QED BY <2>1, <3>1, <4>1 DEF Attended
    <3> QED BY <2>1, <3>1, <3>2 DEF Quiet, Calm, Failing
  <2>5. CASE StartCall(k + 1) /\ task' = tasks
    <3>1. pc' = "tool_start" /\ UNCHANGED <<late, ended>>
      BY <2>1, <2>5 DEF StartCall, Notify
    <3>2. ASSUME NEW c \in Calls PROVE Attended(c)'
      BY <2>3, <2>5 DEF Attended
    <3> QED BY <2>1, <3>1, <3>2 DEF Quiet, Calm, Failing
  <2>6. Launch(tasks) \/ (StartCall(k + 1) /\ task' = tasks)
    BY <1>27 DEF ToolPrepared, NextCall
  <2> QED BY <2>4, <2>5, <2>6
<1>28. CASE ToolRefused
  BY <1>28, QuietFrame DEF ToolRefused, Call, Notify, queueVars, loopVars, runVars, Quiet, Calm,
     Failing
<1>29. CASE RefusalSettles
  <2> SUFFICES ASSUME faults' = 0 PROVE Calm'
    BY DEF Quiet, Calm
  <2> DEFINE tasks == [task EXCEPT ![Call] = "done"]
  <2>1. faults = 0 /\ pc \in {"tool_start", "tool_end"} /\ UNCHANGED <<updateFailed, turn>> /\ ~ended
    BY <1>29 DEF RefusalSettles, runVars, Quiet, Calm
  <2>2. task \in [Calls -> TaskStates]
    BY DEF TypeInv, TypeOK, BatchType, TaskStates
  <2>3. \A c \in Calls : tasks[c] \notin {"running", "ending"}
    BY <2>1, <2>2 DEF Quiet, Calm, Attended
  <2>4. CASE Launch(tasks)
    <3>1. pc' = "tools_running" /\ UNCHANGED <<late, ended>>
      BY <2>4 DEF Launch
    <3>2. ASSUME NEW c \in Calls PROVE Attended(c)'
      <4>1. task'[c] \in {"running", "ending"} => c[1] = turn
        BY <2>3, <2>4 DEF Launch
      <4> QED BY <2>1, <3>1, <4>1 DEF Attended
    <3> QED BY <2>1, <3>1, <3>2 DEF Quiet, Calm, Failing
  <2>5. CASE StartCall(k + 1) /\ task' = tasks
    <3>1. pc' = "tool_start" /\ UNCHANGED <<late, ended>>
      BY <2>1, <2>5 DEF StartCall, Notify
    <3>2. ASSUME NEW c \in Calls PROVE Attended(c)'
      BY <2>3, <2>5 DEF Attended
    <3> QED BY <2>1, <3>1, <3>2 DEF Quiet, Calm, Failing
  <2>6. Launch(tasks) \/ (StartCall(k + 1) /\ task' = tasks)
    BY <1>29 DEF RefusalSettles, NextCall
  <2> QED BY <2>4, <2>5, <2>6
<1>30. CASE BatchSettled
  <2>1. pc = "tools_running" /\ k \in Nat /\ InBatch
    BY <1>30 DEF BatchSettled, TypeInv, TypeOK, BatchType, InBatch
  <2>2. faults = 0 => \A c \in Calls : task[c] \notin {"running", "ending"}
    <3> SUFFICES ASSUME faults = 0, NEW c \in Calls, task[c] \in {"running", "ending"} PROVE FALSE
      OBVIOUS
    <3>1. c[1] = turn /\ CallFollows(c)
      BY DEF Quiet, Calm, Attended, TasksFollow
    <3>2. c[2] <= k
      BY <2>1, <3>1, CallParts DEF CallFollows
    <3>3. c \in Batch(k)
      BY <2>1, <3>1, <3>2, CallParts DEF Batch, Calls
    <3> QED BY <1>30, <3>3 DEF BatchSettled
  <2>3. ~InBatch \/ faults # 0 \/ ~ended
    BY <2>1 DEF Quiet, Calm
  <2> QED BY <1>30, <2>1, <2>2, <2>3, QuietFrame
         DEF BatchSettled, DeliverOr, MessageStart, Notify, batchVars, runVars, Quiet, Calm, Failing
<1>31. CASE TurnEndSettles
  BY <1>31, QuietFrame DEF TurnEndSettles, stateVars, queueVars, loopVars, batchVars, runVars,
     Quiet, Calm, Failing
<1>32. CASE FinalTurnEndSettles
  BY <1>32, QuietFrame DEF FinalTurnEndSettles, AgentEnd, queueVars, loopVars, batchVars, runVars,
     Quiet, Calm, Failing
<1>33. CASE AgentEndSettles
  BY <1>33, QuietFrame DEF AgentEndSettles, FinishRun, queueVars, batchVars, runVars, Quiet, Calm,
     Failing
<1>34. CASE FailureStartSettles
  BY <1>34, QuietFrame DEF FailureStartSettles, MessageEnd, Notify, queueVars, loopVars, batchVars,
     runVars, Quiet, Calm, Failing
<1>35. CASE FailureEndSettles
  BY <1>35, QuietFrame DEF FailureEndSettles, Notify, stateVars, queueVars, loopVars, batchVars,
     Quiet, Calm, Failing
<1>36. CASE FailureTurnEndSettles
  BY <1>36, QuietFrame DEF FailureTurnEndSettles, AgentEnd, queueVars, loopVars, batchVars, runVars,
     Quiet, Calm, Failing
<1>37. CASE FailureAgentEndSettles
  BY <1>37, QuietFrame DEF FailureAgentEndSettles, FinishRun, queueVars, batchVars, runVars, Quiet,
     Calm, Failing
<1>38. CASE RunRejects
  <2>1. faults \in Nat
    BY DEF TypeInv, TypeOK, HistoryType
  <2>2. faults' = faults + 1
    BY <1>38 DEF RunRejects
  <2> QED BY <2>1, <2>2, QuietFault
<1>39. CASE FailureRejects
  <2>1. faults \in Nat
    BY DEF TypeInv, TypeOK, HistoryType
  <2>2. faults' = faults + 1
    BY <1>39 DEF FailureRejects
  <2> QED BY <2>1, <2>2, QuietFault
<1>40. ASSUME NEW c \in Calls, ToolExecuted(c) PROVE Quiet'
  <2> SUFFICES ASSUME faults' = 0 PROVE Calm'
    BY DEF Quiet, Calm
  <2>1. /\ faults = 0 /\ task[c] = "running" /\ UNCHANGED <<pc, turn, updateFailed>>
        /\ \E s \in {"ending", "done"} : task' = [task EXCEPT ![c] = s]
    BY <1>40 DEF ToolExecuted, runVars
  <2>2. pc = "tools_running" /\ c[1] = turn /\ ~ended
    BY <2>1 DEF Quiet, Calm, Attended
  <2>3. activeRun # "none" /\ ~(c[1] <= base)
    BY <2>2, CallParts DEF Counted, InBatch, TypeInv, TypeOK, ControlType, HistoryType
  <2>4. late' = late /\ ended' = ended
    BY <1>40, <2>2, <2>3 DEF ToolExecuted, NotifyOf
  <2>5. ASSUME NEW d \in Calls PROVE Attended(d)'
    <3>1. CASE d = c  BY <2>1, <2>2, <3>1 DEF Attended
    <3>2. CASE d # c
      <4>1. task'[d] = task[d]
        BY <2>1, <3>2
      <4> QED BY <2>1, <4>1 DEF Quiet, Calm, Attended
    <3> QED BY <3>1, <3>2
  <2> QED BY <2>1, <2>4, <2>5 DEF Quiet, Calm
<1>41. ASSUME NEW c \in Calls, ToolEndSettles(c) PROVE Quiet'
  <2> SUFFICES ASSUME faults' = 0 PROVE \A d \in Calls : Attended(d)'
    BY <1>41 DEF ToolEndSettles, stateVars, Quiet, Calm
  <2>1. /\ faults = 0 /\ UNCHANGED <<pc, turn>> /\ task' = [task EXCEPT ![c] = "done"]
    BY <1>41 DEF ToolEndSettles, runVars
  <2> SUFFICES ASSUME NEW d \in Calls PROVE Attended(d)'
    OBVIOUS
  <2>2. CASE d = c
    <3>1. task'[c] = "done"  BY <2>1 DEF TypeInv, TypeOK, BatchType
    <3> QED BY <2>2, <3>1 DEF Attended
  <2>3. CASE d # c
    <3>1. task'[d] = task[d]  BY <2>1, <2>3
    <3> QED BY <2>1, <3>1 DEF Quiet, Calm, Attended
  <2> QED BY <2>2, <2>3
<1>42. ASSUME NEW c \in Calls, ToolRejects(c) PROVE Quiet'
  <2>1. faults \in Nat
    BY DEF TypeInv, TypeOK, HistoryType
  <2>2. CASE task[c] = "ending" /\ faults' = faults + 1
    BY <2>1, <2>2, QuietFault
  <2>3. CASE task[c] = "running" /\ c \in updateFailed /\ UNCHANGED faults
    BY <2>3 DEF Quiet, Calm
  <2> QED BY <1>42, <2>2, <2>3 DEF ToolRejects
<1>43. ASSUME NEW c \in Calls, ToolUpdates(c) PROVE Quiet'
  <2> SUFFICES ASSUME faults' = 0 PROVE Quiet'
    BY DEF Quiet, Calm
  <2>1. faults = 0 /\ task[c] = "running" /\ UNCHANGED <<pc, turn, task, faults>>
    BY <1>43 DEF ToolUpdates, runVars
  <2>2. pc = "tools_running" /\ c[1] = turn /\ ~ended
    BY <2>1 DEF Quiet, Calm, Attended
  <2>3. activeRun # "none" /\ ~(c[1] <= base)
    BY <2>2, CallParts DEF Counted, InBatch, TypeInv, TypeOK, ControlType, HistoryType
  <2>4. late' = late /\ ended' = ended /\ updateFailed' = updateFailed
    BY <1>43, <2>2, <2>3 DEF ToolUpdates, NotifyOf
  <2> QED BY <2>1, <2>2, <2>4, QuietFrame DEF Quiet, Calm
<1>44. ASSUME NEW c \in Calls, UpdateRejected(c) PROVE Quiet'
  <2>1. faults \in Nat
    BY DEF TypeInv, TypeOK, HistoryType
  <2>2. faults' = faults + 1
    BY <1>44 DEF UpdateRejected
  <2> QED BY <2>1, <2>2, QuietFault
<1>45. CASE UNCHANGED vars
  BY <1>45, QuietFrame DEF vars, batchVars, runVars, Quiet, Calm, Failing
<1> QED
  BY <1>1, <1>2, <1>3, <1>4, <1>5, <1>6, <1>7, <1>8, <1>9, <1>10, <1>11, <1>12, <1>13, <1>14, <1>15,
     <1>16, <1>17, <1>18, <1>19, <1>20, <1>21, <1>22, <1>23, <1>24, <1>25, <1>26, <1>27, <1>28,
     <1>29, <1>30, <1>31, <1>32, <1>33, <1>34, <1>35, <1>36, <1>37, <1>38, <1>39, <1>40, <1>41,
     <1>42, <1>43, <1>44, <1>45 DEF Next, UserStep, LoopStep, ToolStep

(***************************************************************************)
(* The messages of a request and of its batch.                             *)
(***************************************************************************)
\* Messages of requests made so far, and messages that are no replies.
Aged(t)  == {m \in Message : m.role = "assistant" => m.turn <= t}
Unspoken == UserMessage \cup ToolResultMessage

Ages ==
  /\ messages \in Seq(Aged(turn)) /\ context \in Seq(Aged(turn))
  /\ outbox \in Seq(Unspoken) /\ results \in Seq(Unspoken)
  /\ stage # "results" => outbox \in Seq(UserMessage)
  /\ pc \in {"reply_start", "reply_end"} \/ InBatch => reply.turn = turn
  /\ pc = "failure_start" => reply.turn = 0

\* The results of a batch, emitted and in hand, are those of its first calls in order.
ResultsFollow == InBatch =>
  /\ ~Failed(reply)
  /\ \A i \in 1..Len(results) : results[i] = ToolResult(<<turn, i>>)
  /\ IF pc \in {"msg_start", "msg_end"}
       THEN /\ Len(results) + Len(outbox) = k
            /\ \A i \in 1..Len(outbox) : outbox[i] = ToolResult(<<turn, Len(results) + i>>)
       ELSE IF execution = "parallel" THEN results = <<>> ELSE Len(results) = k - 1
  /\ activeRun = "live" /\ execution = "parallel" /\ pc \notin {"tool_start", "tool_end"} => k = reply.calls

\* Every call that s shows since request b is answered right after it.
Answered(s, b) == \A i \in 1..Len(s) :
  s[i].role = "assistant" /\ s[i].turn > b /\ ~Failed(s[i]) =>
    \A j \in 1..s[i].calls : i + j <= Len(s) /\ s[i + j] = ToolResult(<<s[i].turn, j>>)

\* A run that nobody aborted has answered every call before the reply it is dealing with.
Dealing == pc \in {"streaming", "reply_start", "reply_end"} \/ InBatch
ContextAnswered == activeRun = "live" =>
  IF Dealing
    THEN /\ context # <<>> /\ Answered(Front(context), base)
         /\ pc # "streaming" => Final(context) = reply
    ELSE Answered(context, base)

\* What the transcript ends with before the n-th result of this request is added to it.
EndsBefore(n) ==
  IF messages = <<>> THEN resets > 0
  ELSE IF n = 1 THEN Final(messages).role = "assistant" /\ Final(messages).turn = turn
  ELSE Final(messages) = ToolResult(<<turn, n - 1>>)
ResultFits ==
  /\ pc = "reply_end" => EndsBefore(1)
  /\ InBatch => EndsBefore(Len(results) + (IF pc = "msg_end" THEN 2 ELSE 1))

LEMMA SeqWiden ==
  ASSUME NEW S, NEW T, S \subseteq T, NEW s \in Seq(S)
  PROVE  s \in Seq(T)
  OBVIOUS

\* What kinds of messages there are, by role.
LEMMA Kinds ==
  /\ \A t \in Nat : Unspoken \subseteq Aged(t) /\ UserMessage \subseteq Unspoken /\ Aged(t) \subseteq Message
  /\ \A t \in Nat, m \in AssistantMessage : m.turn <= t => m \in Aged(t)
  /\ \A m \in Unspoken : m.role # "assistant"
  /\ \A m \in UserMessage : m.role # "toolResult"
  /\ \A c \in Calls : ToolResult(c) \in Unspoken /\ ToolResult(c).call = c /\ ToolResult(c).role = "toolResult"
  BY MessageTypes DEF Aged, Unspoken, Message, UserMessage, AssistantMessage, ToolResultMessage, ToolResult

\* What the type invariant says of where the run is parked, for the proofs to come.
LEMMA Parts ==
  TypeInv => /\ turn \in Nat /\ base \in Nat /\ resets \in Nat /\ k \in Nat
             /\ messages \in Seq(Message) /\ context \in Seq(Message)
             /\ InBatch => reply \in AssistantMessage /\ k \in 1..reply.calls /\ reply.calls \in Nat
             /\ queue \in [Queues -> Seq(UserMessage)] /\ unsent \subseteq Msgs
             /\ execution \in {"parallel", "sequential"}
             /\ pc \in {"msg_start", "msg_end"} => outbox # <<>>
             /\ pc = "streaming" => context # <<>>
             /\ (activeRun = "none") <=> (pc = "idle")
             /\ pc \in {"reply_start", "reply_end", "failure_start"} => reply \in AssistantMessage
             /\ reply \in AssistantMessage => reply.calls \in Nat
<1> SUFFICES ASSUME TypeInv
    PROVE    /\ turn \in Nat /\ base \in Nat /\ resets \in Nat /\ k \in Nat
             /\ messages \in Seq(Message) /\ context \in Seq(Message)
             /\ InBatch => reply \in AssistantMessage /\ k \in 1..reply.calls /\ reply.calls \in Nat
             /\ queue \in [Queues -> Seq(UserMessage)] /\ unsent \subseteq Msgs
             /\ execution \in {"parallel", "sequential"}
             /\ pc \in {"msg_start", "msg_end"} => outbox # <<>>
             /\ pc = "streaming" => context # <<>>
             /\ (activeRun = "none") <=> (pc = "idle")
             /\ pc \in {"reply_start", "reply_end", "failure_start"} => reply \in AssistantMessage
             /\ reply \in AssistantMessage => reply.calls \in Nat
  OBVIOUS
<1>1. reply \in AssistantMessage => reply.calls \in Nat
  BY BoundsAssumption DEF AssistantMessage
<1> QED BY <1>1 DEF TypeInv, TypeOK, Parked, TranscriptType, QueueType, ControlType, BatchType, HistoryType

\* A step that keeps the transcript and the reply keeps their ages, if what it hands on is aged too.
LEMMA AgesFrame ==
  ASSUME Ages, turn' = turn, messages' \in Seq(Aged(turn)), context' \in Seq(Aged(turn)),
         outbox' \in Seq(Unspoken), results' \in Seq(Unspoken),
         stage' # "results" => outbox' \in Seq(UserMessage),
         reply' = reply, pc' = "failure_start" => pc = "failure_start",
         pc' \in {"reply_start", "reply_end"} \/ InBatch' => pc \in {"reply_start", "reply_end"} \/ InBatch
  PROVE  Ages'
  BY DEF Ages

LEMMA NoMessages == <<>> \in Seq(Unspoken) /\ <<>> \in Seq(UserMessage) /\ \A t : <<>> \in Seq(Aged(t))
  OBVIOUS

\* A batch of prompts is a sequence of the user's messages.
LEMMA PromptBatch ==
  ASSUME unsent \subseteq Msgs, NEW batch \in Batches(unsent)
  PROVE  [i \in DOMAIN batch |-> User(batch[i], "prompt")] \in Seq(UserMessage)
<1>1. PICK n \in 1..MaxPrompt : batch \in [1..n -> unsent]
  BY DEF Batches
<1>2. \A i \in 1..n : User(batch[i], "prompt") \in UserMessage
  BY <1>1, MessageTypes DEF Lanes
<1>3. n \in Nat /\ DOMAIN batch = 1..n
  BY <1>1
<1> QED BY <1>2, <1>3

\* The messages a run starts with.
LEMMA AgesStart ==
  ASSUME Ages, TypeInv, NEW prompts \in Seq(UserMessage), NEW skip, StartRun(prompts, skip)
  PROVE  Ages'
<1>1. prompts \in Seq(Aged(turn)) /\ prompts \in Seq(Unspoken)
  BY Kinds, Parts, SeqWiden
<1>2. messages \o prompts \in Seq(Aged(turn))
  BY <1>1 DEF Ages
<1>3. /\ context' = messages \o prompts /\ outbox' = prompts /\ results' = <<>> /\ stage' = "prompts"
      /\ UNCHANGED <<messages, turn>> /\ pc' = "agent_start" /\ reply' = reply
  BY DEF StartRun
<1> HIDE DEF Ages
<1>4. results' \in Seq(Unspoken)
  BY <1>3
<1> QED BY <1>1, <1>2, <1>3, <1>4, AgesFrame DEF Ages, InBatch

\* No message is older than its request, and what a run hands on is no reply.
LEMMA AgesStep == TypeInv /\ Ages /\ [Next]_vars => Ages'
<1> SUFFICES ASSUME TypeInv, Ages, [Next]_vars PROVE Ages'
  OBVIOUS
<1>1. ASSUME NEW q \in Queues, Enqueue(q) PROVE Ages'
  BY <1>1, AgesFrame DEF Enqueue, stateVars, loopVars, batchVars, runVars, Ages, InBatch
<1>2. ASSUME NEW q \in Queues, ClearQueue(q) PROVE Ages'
  BY <1>2, AgesFrame DEF ClearQueue, stateVars, loopVars, batchVars, runVars, Ages, InBatch
<1>3. ASSUME NEW q \in Queues, SetQueueMode(q) PROVE Ages'
  BY <1>3, AgesFrame DEF SetQueueMode, stateVars, loopVars, batchVars, runVars, Ages, InBatch
<1>4. ASSUME NEW q \in Queues, ContinueFromQueue(q) PROVE Ages'
  <2>1. Drained(q) \in Seq(UserMessage)
    BY Parts, DrainTypes
  <2> QED BY <1>4, <2>1, AgesStart DEF ContinueFromQueue
<1>5. CASE Abort
  BY <1>5, AgesFrame DEF Abort, queueVars, loopVars, batchVars, runVars, Ages, InBatch
<1>6. CASE Reset
  <2>1. messages' = <<>> /\ UNCHANGED <<turn, context, outbox, results, stage, reply, pc>>
    BY <1>6 DEF Reset, loopVars
  <2> QED BY <2>1, NoMessages, AgesFrame DEF Ages, InBatch
<1>7. CASE Prompt
  <2> QED BY <1>7, AgesStart, PromptBatch, Parts DEF Prompt
<1>8. CASE ContinueFromTranscript
  <2> QED BY <1>8, AgesStart, NoMessages DEF ContinueFromTranscript
<1>9. CASE DropFailedReply
  <2>1. messages' = Front(messages) /\ messages # <<>> /\ UNCHANGED <<turn, context, outbox, results, stage, reply, pc>>
    BY <1>9 DEF DropFailedReply, loopVars, runVars
  <2>2. Front(messages) \in Seq(Aged(turn))
    BY <2>1, SeqFacts DEF Ages
  <2> QED BY <2>1, <2>2, AgesFrame DEF Ages, InBatch
<1>10. CASE AgentStartSettles
  BY <1>10, AgesFrame DEF AgentStartSettles, Notify, stateVars, queueVars, loopVars, batchVars,
     runVars, Ages, InBatch
<1>11. CASE FirstTurnStartSettles
  BY <1>11, AgesFrame DEF FirstTurnStartSettles, DeliverOr, MessageStart, Notify, queueVars,
     batchVars, runVars, Ages, InBatch, TypeInv, Parked
<1>12. CASE MessageStartSettles
  <2>1. Head(outbox) \in Unspoken /\ Tail(outbox) \in Seq(Unspoken)
        /\ (stage # "results" => Head(outbox) \in UserMessage /\ Tail(outbox) \in Seq(UserMessage))
    BY <1>12, Parts, SeqFacts DEF MessageStartSettles, Ages
  <2>2. Append(messages, Head(outbox)) \in Seq(Aged(turn))
    BY <2>1, Kinds, Parts DEF Ages
  <2>3. /\ messages' = Append(messages, Head(outbox)) /\ UNCHANGED <<turn, context, outbox, results, stage, reply>>
        /\ pc' = "msg_end" /\ pc = "msg_start"
    BY <1>12 DEF MessageStartSettles, MessageEnd, loopVars, runVars
  <2> QED BY <2>2, <2>3, AgesFrame DEF Ages, InBatch
<1>13. CASE PromptDelivered
  <2>1. Head(outbox) \in Unspoken /\ Tail(outbox) \in Seq(Unspoken)
        /\ (stage # "results" => Head(outbox) \in UserMessage /\ Tail(outbox) \in Seq(UserMessage))
    BY <1>13, Parts, SeqFacts DEF PromptDelivered, Ages
  <2>2. /\ UNCHANGED <<turn, messages, context, results, stage, reply>> /\ outbox' = Tail(outbox)
        /\ pc' \in {"poll_initial", "msg_start"} /\ stage = "prompts"
    BY <1>13 DEF PromptDelivered, DeliverOr, runVars
  <2> QED BY <2>1, <2>2, AgesFrame DEF Ages, InBatch
<1>14. CASE PendingDelivered
  <2>1. Head(outbox) \in Unspoken /\ Tail(outbox) \in Seq(Unspoken)
        /\ (stage # "results" => Head(outbox) \in UserMessage /\ Tail(outbox) \in Seq(UserMessage))
    BY <1>14, Parts, SeqFacts DEF PendingDelivered, Ages
  <2>2. /\ UNCHANGED <<turn, messages, results, stage, reply>> /\ outbox' = Tail(outbox)
        /\ context' = Append(context, Head(outbox)) /\ pc' \in {"request", "msg_start"} /\ stage = "pending"
    BY <1>14 DEF PendingDelivered, DeliverOr, runVars
  <2>3. Append(context, Head(outbox)) \in Seq(Aged(turn))
    BY <2>1, Kinds, Parts DEF Ages
  <2> QED BY <2>1, <2>2, <2>3, AgesFrame DEF Ages, InBatch
<1>15. CASE ResultDelivered
  <2>1. Head(outbox) \in Unspoken /\ Tail(outbox) \in Seq(Unspoken)
        /\ (stage # "results" => Head(outbox) \in UserMessage /\ Tail(outbox) \in Seq(UserMessage))
    BY <1>15, Parts, SeqFacts DEF ResultDelivered, Ages
  <2>2. Append(results, Head(outbox)) \in Seq(Unspoken)
    BY <2>1 DEF Ages
  <2>3. Append(results, Head(outbox)) \in Seq(Aged(turn))
    BY <2>2, Kinds, Parts, SeqWiden
  <2>4. context \o Append(results, Head(outbox)) \in Seq(Aged(turn))
    BY <2>3 DEF Ages
  <2> DEFINE batch == Append(results, Head(outbox))
  <2>5. /\ UNCHANGED <<turn, messages, stage, reply>> /\ pc = "msg_end" /\ stage = "results"
        /\ outbox' \in {Tail(outbox), <<>>} /\ results' \in {batch, <<>>}
        /\ context' \in {context, context \o batch} /\ pc' # "failure_start"
    BY <1>15 DEF ResultDelivered, DeliverOr, StartCall, EndTurn, runVars
  <2> HIDE DEF batch
  <2>6. outbox' \in Seq(Unspoken) /\ results' \in Seq(Unspoken) /\ context' \in Seq(Aged(turn))
    BY <2>1, <2>2, <2>4, <2>5, NoMessages DEF Ages, batch
  <2> QED BY <2>5, <2>6, AgesFrame DEF Ages, InBatch
<1>16. CASE PollInitial
  <2>1. Drained("steer") \in Seq(UserMessage) /\ Drained("steer") \in Seq(Unspoken)
    BY Parts, DrainTypes, Kinds, SeqWiden DEF Queues
  <2>2. /\ UNCHANGED <<turn, messages, context, results, reply>>
        /\ \/ outbox' = Drained("steer") /\ stage' = "pending"
           \/ outbox' = <<>> /\ stage' = "pending"
        /\ pc' \in {"request", "msg_start"}
        /\ pc' = "msg_start" => stage' = "pending"
    BY <1>16 DEF PollInitial, DeliverOr, MessageStart, Notify, Drain, runVars
  <2> QED BY <2>1, <2>2, AgesFrame, NoMessages DEF Ages, InBatch
<1>17. CASE PollSteering
  <2>1. Drained("steer") \in Seq(UserMessage) /\ Drained("steer") \in Seq(Unspoken)
    BY Parts, DrainTypes, Kinds, SeqWiden DEF Queues
  <2>2. /\ UNCHANGED <<turn, messages, context, results, reply>>
        /\ \/ outbox' = Drained("steer") /\ stage' = "pending"
           \/ UNCHANGED <<outbox, stage>>
        /\ pc' \in {"turn_start", "poll_follow_up"}
        /\ pc' = "msg_start" => stage' = "pending"
    BY <1>17 DEF PollSteering, Drain, NextTurn, Notify, runVars
  <2> QED BY <2>1, <2>2, AgesFrame, NoMessages DEF Ages, InBatch
<1>18. CASE PollFollowUp
  <2>1. Drained("followUp") \in Seq(UserMessage) /\ Drained("followUp") \in Seq(Unspoken)
    BY Parts, DrainTypes, Kinds, SeqWiden DEF Queues
  <2>2. /\ UNCHANGED <<turn, messages, context, results, reply>>
        /\ \/ outbox' = Drained("followUp") /\ stage' = "pending"
           \/ UNCHANGED <<outbox, stage>>
        /\ pc' \in {"turn_start", "agent_end"}
        /\ pc' = "msg_start" => stage' = "pending"
    BY <1>18 DEF PollFollowUp, Drain, NextTurn, Notify, AgentEnd, runVars
  <2> QED BY <2>1, <2>2, AgesFrame, NoMessages DEF Ages, InBatch
<1>19. CASE TurnStartSettles
  BY <1>19, AgesFrame DEF TurnStartSettles, DeliverOr, MessageStart, Notify, queueVars, batchVars,
     runVars, Ages, InBatch, TypeInv, Parked
<1>20. CASE SendRequest
  <2>1. turn' = turn + 1 /\ UNCHANGED <<messages, context, outbox, results, stage, reply>> /\ pc' = "stream"
    BY <1>20 DEF SendRequest, stateVars, loopVars
  <2>2. Aged(turn) \subseteq Aged(turn + 1)
    BY Parts DEF Aged, Message, AssistantMessage, UserMessage, ToolResultMessage
  <2>3. messages \in Seq(Aged(turn + 1)) /\ context \in Seq(Aged(turn + 1))
    BY <2>2, SeqWiden DEF Ages
  <2> QED BY <2>1, <2>3 DEF Ages, InBatch
<1>21. CASE StreamStarts
  <2>4. Partial \in AssistantMessage /\ Partial.turn = turn
    BY Parts, BoundsAssumption DEF Partial, Assistant, AssistantMessage, Stops
  <2>1. Partial \in Aged(turn)
    BY <2>4, Kinds, Parts
  <2>2. Append(context, Partial) \in Seq(Aged(turn))
    BY <2>1 DEF Ages
  <2>3. /\ UNCHANGED <<turn, messages, outbox, results, stage, reply>> /\ pc' = "streaming"
        /\ context' = Append(context, Partial)
    BY <1>21 DEF StreamStarts, runVars
  <2> QED BY <2>2, <2>3, AgesFrame DEF Ages, InBatch
<1>22. CASE StreamEnds
  <2>1. PICK answer \in Answers :
          /\ reply' = answer
          /\ \/ /\ pc = "streaming" /\ pc' = "reply_end"
                /\ context' = Append(Front(context), answer) /\ MessageEnd(answer)
             \/ /\ pc = "stream" /\ pc' = "reply_start"
                /\ context' = Append(context, answer) /\ UNCHANGED messages
    BY <1>22 DEF StreamEnds
  <2>2. answer \in AssistantMessage /\ answer.turn = turn
    BY Parts, BoundsAssumption DEF Answers, AssistantMessage, Stops
  <2>3. answer \in Aged(turn)
    BY <2>2, Kinds, Parts
  <2>4. Append(messages, answer) \in Seq(Aged(turn)) /\ Append(context, answer) \in Seq(Aged(turn))
    BY <2>3 DEF Ages
  <2>5. pc = "streaming" => Append(Front(context), answer) \in Seq(Aged(turn))
    BY <2>3, Parts, SeqFacts DEF Ages
  <2>6. messages' \in Seq(Aged(turn)) /\ context' \in Seq(Aged(turn))
    BY <2>1, <2>4, <2>5 DEF Ages, MessageEnd
  <2>7. UNCHANGED <<turn, outbox, results, stage>>
    BY <1>22 DEF StreamEnds, runVars
  <2> QED BY <2>1, <2>2, <2>6, <2>7 DEF Ages, InBatch
<1>23. CASE ReplyStartSettles
  <2>1. reply \in Aged(turn)
    BY <1>23, Parts, Kinds DEF ReplyStartSettles, Ages
  <2>2. Append(messages, reply) \in Seq(Aged(turn))
    BY <2>1 DEF Ages
  <2> QED BY <1>23, <2>2, AgesFrame DEF ReplyStartSettles, MessageEnd, loopVars, runVars, Ages, InBatch
<1>24. CASE ReplyFailed
  BY <1>24, AgesFrame DEF ReplyFailed, Notify, stateVars, queueVars, loopVars, batchVars, Ages,
     InBatch
<1>25. CASE ReplyWithoutCalls
  <2>1. context \o <<>> = context
    BY Parts, SeqAlgebra
  <2> QED BY <1>25, <2>1, AgesFrame, NoMessages DEF ReplyWithoutCalls, EndTurn, stateVars, runVars, Ages, InBatch
<1>26. CASE ReplyWithCalls
  BY <1>26, AgesFrame DEF ReplyWithCalls, StartCall, Notify, queueVars, loopVars, runVars, Ages,
     InBatch
<1>27. CASE ToolPrepared
  BY <1>27, AgesFrame DEF ToolPrepared, Launch, Call, NextCall, CallsToGo, StartCall, Notify,
     queueVars, loopVars, runVars, Ages, InBatch
<1>28. CASE ToolRefused
  BY <1>28, AgesFrame DEF ToolRefused, Call, Notify, queueVars, loopVars, runVars, Ages, InBatch
<1>29. CASE RefusalSettles
  BY <1>29, AgesFrame DEF RefusalSettles, Launch, Call, NextCall, CallsToGo, StartCall, Notify,
     queueVars, loopVars, runVars, Ages, InBatch
<1>30. CASE BatchSettled
  <2>1. InBatch /\ k \in Nat /\ Call \in Calls /\ pc = "tools_running"
    BY <1>30, Parts, CallAtHand DEF BatchSettled, InBatch
  <2>2. \A i \in 1..k : <<turn, i>> \in Calls
    <3>1. reply.calls \in 0..MaxCalls /\ k \in 1..reply.calls /\ turn \in 1..MaxToolTurn
      BY <2>1 DEF TypeInv, Parked, AssistantMessage
    <3> QED BY <3>1, BoundsAssumption, CallParts
  <2>3. [i \in 1..k |-> ToolResult(<<turn, i>>)] \in Seq(Unspoken) /\ <<ToolResult(Call)>> \in Seq(Unspoken)
    BY <2>1, <2>2, Kinds
  <2>4. /\ UNCHANGED <<turn, messages, context, results, reply>> /\ stage' = "results"
        /\ outbox' \in {[i \in 1..k |-> ToolResult(<<turn, i>>)], <<ToolResult(Call)>>}
        /\ pc' \in {"turn_end", "msg_start"}
    BY <1>30 DEF BatchSettled, DeliverOr, runVars
  <2>5. outbox' \in Seq(Unspoken)
    BY <2>3, <2>4
  <2> QED BY <2>1, <2>4, <2>5, AgesFrame DEF Ages, InBatch
<1>31. CASE TurnEndSettles
  BY <1>31, AgesFrame DEF TurnEndSettles, stateVars, queueVars, loopVars, batchVars, runVars, Ages,
     InBatch
<1>32. CASE FinalTurnEndSettles
  BY <1>32, AgesFrame DEF FinalTurnEndSettles, AgentEnd, queueVars, loopVars, batchVars, runVars,
     Ages, InBatch
<1>33. CASE AgentEndSettles
  <2>1. /\ UNCHANGED <<turn, messages, stage, reply>> /\ pc' = "idle"
        /\ context' = <<>> /\ outbox' = <<>> /\ results' = <<>>
    BY <1>33 DEF AgentEndSettles, FinishRun, runVars
  <2> QED BY <2>1, NoMessages DEF Ages, InBatch
<1>34. CASE FailureStartSettles
  <2>1. reply \in Aged(turn)
    BY <1>34, Parts, Kinds DEF FailureStartSettles, Ages
  <2>2. Append(messages, reply) \in Seq(Aged(turn))
    BY <2>1 DEF Ages
  <2> QED BY <1>34, <2>2, AgesFrame DEF FailureStartSettles, MessageEnd, loopVars, runVars, Ages, InBatch
<1>35. CASE FailureEndSettles
  BY <1>35, AgesFrame DEF FailureEndSettles, Notify, stateVars, queueVars, loopVars, batchVars,
     Ages, InBatch
<1>36. CASE FailureTurnEndSettles
  BY <1>36, AgesFrame DEF FailureTurnEndSettles, AgentEnd, queueVars, loopVars, batchVars, runVars,
     Ages, InBatch
<1>37. CASE FailureAgentEndSettles
  <2>1. /\ UNCHANGED <<turn, messages, stage, reply>> /\ pc' = "idle"
        /\ context' = <<>> /\ outbox' = <<>> /\ results' = <<>>
    BY <1>37 DEF FailureAgentEndSettles, FinishRun, runVars
  <2> QED BY <2>1, NoMessages DEF Ages, InBatch
<1>38. CASE RunRejects
  <2>1. reply'.turn = 0 /\ pc' = "failure_start" /\ context' = <<>> /\ outbox' = <<>> /\ results' = <<>>
    BY <1>38 DEF RunRejects, FailRun, Assistant
  <2>2. UNCHANGED <<turn, messages, stage>>
    BY <1>38 DEF RunRejects, runVars
  <2> QED BY <2>1, <2>2, NoMessages DEF Ages, InBatch
<1>39. CASE FailureRejects
  <2>1. /\ UNCHANGED <<turn, messages, stage, reply>> /\ pc' = "idle"
        /\ context' = <<>> /\ outbox' = <<>> /\ results' = <<>>
    BY <1>39 DEF FailureRejects, FinishRun, runVars
  <2> QED BY <2>1, NoMessages DEF Ages, InBatch
<1>40. ASSUME NEW c \in Calls, ToolExecuted(c) PROVE Ages'
  BY <1>40, AgesFrame DEF ToolExecuted, NotifyOf, queueVars, loopVars, runVars, Ages, InBatch
<1>41. ASSUME NEW c \in Calls, ToolEndSettles(c) PROVE Ages'
  BY <1>41, AgesFrame DEF ToolEndSettles, stateVars, queueVars, loopVars, runVars, Ages, InBatch
<1>42. ASSUME NEW c \in Calls, ToolRejects(c) PROVE Ages'
  <2>1. UNCHANGED <<turn, messages, stage>>
    BY <1>42 DEF ToolRejects, runVars
  <2>2. CASE Awaited(c)
    <3>1. reply'.turn = 0 /\ pc' = "failure_start" /\ context' = <<>> /\ outbox' = <<>> /\ results' = <<>>
      BY <1>42, <2>2 DEF ToolRejects, FailRun, Assistant
    <3> QED BY <2>1, <3>1, NoMessages DEF Ages, InBatch
  <2>3. CASE ~Awaited(c)
    <3>1. UNCHANGED <<reply, pc, context, outbox, results>>
      BY <1>42, <2>3 DEF ToolRejects
    <3> QED BY <2>1, <3>1 DEF Ages, InBatch
  <2> QED BY <2>2, <2>3
<1>43. ASSUME NEW c \in Calls, ToolUpdates(c) PROVE Ages'
  BY <1>43, AgesFrame DEF ToolUpdates, NotifyOf, stateVars, queueVars, loopVars, runVars, Ages,
     InBatch
<1>44. ASSUME NEW c \in Calls, UpdateRejected(c) PROVE Ages'
  BY <1>44, AgesFrame DEF UpdateRejected, NotifyOf, stateVars, queueVars, loopVars, runVars, Ages,
     InBatch
<1>45. CASE UNCHANGED vars
  BY <1>45, AgesFrame DEF vars, stateVars, loopVars, runVars, Ages, InBatch
<1> QED
  BY <1>1, <1>2, <1>3, <1>4, <1>5, <1>6, <1>7, <1>8, <1>9, <1>10, <1>11, <1>12, <1>13, <1>14, <1>15,
     <1>16, <1>17, <1>18, <1>19, <1>20, <1>21, <1>22, <1>23, <1>24, <1>25, <1>26, <1>27, <1>28,
     <1>29, <1>30, <1>31, <1>32, <1>33, <1>34, <1>35, <1>36, <1>37, <1>38, <1>39, <1>40, <1>41,
     <1>42, <1>43, <1>44, <1>45 DEF Next, UserStep, LoopStep, ToolStep

\* Steps beside the batch, and those that leave it, say nothing new of its results.
LEMMA ResultsFrame ==
  ASSUME ResultsFollow,
         \/ ~InBatch'
         \/ /\ InBatch /\ UNCHANGED <<pc, stage, k, results, outbox, reply, turn, execution>>
            /\ activeRun' = "live" => activeRun = "live"
  PROVE  ResultsFollow'
<1>1. CASE ~InBatch'
  BY <1>1 DEF ResultsFollow
<1>2. CASE /\ InBatch /\ UNCHANGED <<pc, stage, k, results, outbox, reply, turn, execution>>
           /\ activeRun' = "live" => activeRun = "live"
  BY <1>2 DEF ResultsFollow, Failed
<1> QED BY <1>1, <1>2

\* The calls of a batch are started or refused one by one; when the loop goes on, all were.
LEMMA ResultsNext ==
  ASSUME TypeInv, ResultsFollow, InBatch, pc \in {"tool_start", "tool_end"},
         UNCHANGED <<results, reply, turn, execution, activeRun>>,
         \/ pc' \in {"tool_start", "tool_end"} /\ k' = k
         \/ pc' = "tool_start" /\ k' = k + 1 /\ execution = "parallel"
         \/ pc' = "tools_running" /\ k' = k /\ (execution = "parallel" => ~CallsToGo)
  PROVE  ResultsFollow'
<1>1. /\ ~Failed(reply) /\ \A i \in 1..Len(results) : results[i] = ToolResult(<<turn, i>>)
      /\ IF execution = "parallel" THEN results = <<>> ELSE Len(results) = k - 1
  BY DEF ResultsFollow
<1>2. k \in 1..reply.calls /\ reply.calls \in Nat
  BY Parts
<1>3. pc' = "tools_running" /\ activeRun = "live" /\ execution = "parallel" => k' = reply.calls
  BY <1>2 DEF CallsToGo
<1>4. pc' \in {"tool_start", "tool_end", "tools_running"}
  OBVIOUS
<1> SUFFICES ASSUME InBatch' PROVE /\ ~Failed(reply)'
             /\ (\A i \in 1..Len(results) : results[i] = ToolResult(<<turn, i>>))'
             /\ (IF execution = "parallel" THEN results = <<>> ELSE Len(results) = k - 1)'
             /\ (activeRun = "live" /\ execution = "parallel" /\ pc \notin {"tool_start", "tool_end"} => k = reply.calls)'
  BY <1>4 DEF ResultsFollow
<1>5. ~Failed(reply)' /\ (\A i \in 1..Len(results) : results[i] = ToolResult(<<turn, i>>))'
  BY <1>1 DEF Failed
<1>6. (IF execution = "parallel" THEN results = <<>> ELSE Len(results) = k - 1)'
  BY <1>1
<1>7. (activeRun = "live" /\ execution = "parallel" /\ pc \notin {"tool_start", "tool_end"} => k = reply.calls)'
  BY <1>3, <1>4
<1> QED BY <1>5, <1>6, <1>7

\* The results of a batch come in the order of its calls, whatever order its tools end in.
LEMMA ResultsStep == TypeInv /\ CopiesAgree /\ Ages /\ ResultsFollow /\ [Next]_vars => ResultsFollow'
<1> SUFFICES ASSUME TypeInv, CopiesAgree, Ages, ResultsFollow, [Next]_vars PROVE ResultsFollow'
  OBVIOUS
<1>1. ASSUME NEW q \in Queues, Enqueue(q) PROVE ResultsFollow'
  BY <1>1, ResultsFrame DEF Enqueue, stateVars, loopVars, batchVars, runVars, InBatch
<1>2. ASSUME NEW q \in Queues, ClearQueue(q) PROVE ResultsFollow'
  BY <1>2, ResultsFrame DEF ClearQueue, stateVars, loopVars, batchVars, runVars, InBatch
<1>3. ASSUME NEW q \in Queues, SetQueueMode(q) PROVE ResultsFollow'
  BY <1>3, ResultsFrame DEF SetQueueMode, stateVars, loopVars, batchVars, runVars, InBatch
<1>4. ASSUME NEW q \in Queues, ContinueFromQueue(q) PROVE ResultsFollow'
  BY <1>4, ResultsFrame DEF ContinueFromQueue, StartRun, batchVars, Drain, InBatch
<1>5. CASE Abort
  BY <1>5, ResultsFrame DEF Abort, queueVars, loopVars, batchVars, runVars, InBatch
<1>6. CASE Reset
  BY <1>6, ResultsFrame DEF Reset, loopVars, batchVars, InBatch
<1>7. CASE Prompt
  BY <1>7, ResultsFrame DEF Prompt, StartRun, batchVars, InBatch
<1>8. CASE ContinueFromTranscript
  BY <1>8, ResultsFrame DEF ContinueFromTranscript, StartRun, batchVars, queueVars, InBatch
<1>9. CASE DropFailedReply
  BY <1>9, ResultsFrame, Parts DEF DropFailedReply, queueVars, loopVars, batchVars, runVars, InBatch
<1>10. CASE AgentStartSettles
  BY <1>10, ResultsFrame DEF AgentStartSettles, Notify, stateVars, queueVars, loopVars, batchVars,
     runVars, InBatch
<1>11. CASE FirstTurnStartSettles
  BY <1>11, ResultsFrame DEF FirstTurnStartSettles, DeliverOr, MessageStart, Notify, queueVars,
     batchVars, runVars, InBatch, TypeInv, Parked
<1>12. CASE MessageStartSettles
  <2>1. /\ pc = "msg_start" /\ pc' = "msg_end"
        /\ UNCHANGED <<results, outbox, reply, turn, execution, activeRun, k, stage>>
    BY <1>12 DEF MessageStartSettles, loopVars, batchVars, runVars
  <2> QED BY <2>1 DEF ResultsFollow, InBatch, Failed
<1>13. CASE PromptDelivered
  BY <1>13, ResultsFrame DEF PromptDelivered, DeliverOr, MessageStart, Notify, queueVars, batchVars,
     runVars, InBatch
<1>14. CASE PendingDelivered
  BY <1>14, ResultsFrame DEF PendingDelivered, DeliverOr, MessageStart, Notify, queueVars,
     batchVars, runVars, InBatch
<1>15. CASE ResultDelivered
  <2> DEFINE batch == Append(results, Head(outbox))
  <2>1. /\ pc = "msg_end" /\ InBatch /\ outbox # <<>> /\ outbox \in Seq(Unspoken) /\ results \in Seq(Unspoken)
        /\ UNCHANGED <<reply, turn, execution, activeRun>> /\ stage' = "results"
    BY <1>15, Parts DEF ResultDelivered, InBatch, runVars, Ages
  <2>2. /\ ~Failed(reply) /\ \A i \in 1..Len(results) : results[i] = ToolResult(<<turn, i>>)
        /\ Len(results) + Len(outbox) = k
        /\ \A i \in 1..Len(outbox) : outbox[i] = ToolResult(<<turn, Len(results) + i>>)
        /\ activeRun = "live" /\ execution = "parallel" => k = reply.calls
    BY <2>1 DEF ResultsFollow
  <2> DEFINE rest == Tail(outbox)
  <2>3. Len(results) \in Nat /\ Len(outbox) \in Nat /\ Len(outbox) > 0 /\ k \in Nat
    BY <2>1, Parts
  <2>4. Len(batch) = Len(results) + 1 /\ Len(rest) = Len(outbox) - 1
    BY <2>1, <2>3
  <2>5. Head(outbox) = ToolResult(<<turn, Len(results) + 1>>)
    BY <2>1, <2>2, <2>3
  <2>6. \A i \in 1..Len(batch) : batch[i] = ToolResult(<<turn, i>>)
    <3> SUFFICES ASSUME NEW i \in 1..Len(batch) PROVE batch[i] = ToolResult(<<turn, i>>)
      OBVIOUS
    <3>1. CASE i = Len(results) + 1
      BY <2>1, <2>5, <3>1
    <3>2. CASE i \in 1..Len(results)
      BY <2>1, <2>2, <3>2
    <3> QED BY <2>3, <2>4, <3>1, <3>2
  <2>7. \A i \in 1..Len(rest) : rest[i] = outbox[i + 1] /\ i + 1 \in 1..Len(outbox)
    BY <2>1, <2>3, <2>4
  <2>8. \A i \in 1..Len(rest) : rest[i] = ToolResult(<<turn, Len(batch) + i>>)
    <3> SUFFICES ASSUME NEW i \in 1..Len(rest) PROVE rest[i] = ToolResult(<<turn, Len(batch) + i>>)
      OBVIOUS
    <3>1. outbox[i + 1] = ToolResult(<<turn, Len(results) + (i + 1)>>)
      BY <2>2, <2>7
    <3>2. Len(results) + (i + 1) = Len(batch) + i
      BY <2>3, <2>4
    <3> QED BY <2>7, <3>1, <3>2
  <2>9. rest = <<>> => Len(rest) = 0
    <3>1. Len(<<>>) = 0
      OBVIOUS
    <3> QED BY <3>1
  <2> HIDE DEF batch, rest
  <2>10. CASE results' = batch /\ outbox' = rest /\ pc' = "msg_start" /\ k' = k
    <3>1. Len(results') + Len(outbox') = k'
      BY <2>2, <2>10, <2>3, <2>4
    <3> QED BY <2>1, <2>2, <2>10, <2>6, <2>8, <3>1 DEF ResultsFollow, InBatch, Failed
  <2>11. CASE results' = batch /\ rest = <<>> /\ pc' = "tool_start" /\ k' = k + 1 /\ execution = "sequential"
    <3>1. Len(results') = k' - 1
      <4>1. Len(rest) = 0 /\ Len(results') = Len(results) + 1
        BY <2>11, <2>4, <2>9
      <4>2. k' = k + 1 /\ Len(results) + Len(outbox) = k
        BY <2>2, <2>11
      <4>3. Len(outbox) = 1
        BY <2>3, <2>4, <4>1
      <4>4. Len(results) + 1 = k
        BY <2>3, <4>2, <4>3
      <4>5. (k + 1) - 1 = k
        BY <2>3
      <4> QED BY <4>1, <4>2, <4>4, <4>5
    <3>2. execution # "parallel"
      BY <2>11
    <3> QED BY <2>1, <2>2, <2>11, <2>6, <3>1, <3>2 DEF ResultsFollow, InBatch, Failed
  <2>12. CASE pc' = "turn_end"
    BY <2>12 DEF ResultsFollow, InBatch
  <2> QED BY <1>15, <2>10, <2>11, <2>12 DEF ResultDelivered, DeliverOr, StartCall, EndTurn, batch, rest
<1>16. CASE PollInitial
  BY <1>16, ResultsFrame DEF PollInitial, DeliverOr, MessageStart, Notify, queueVars, Drain,
     batchVars, runVars, InBatch
<1>17. CASE PollSteering
  BY <1>17, ResultsFrame DEF PollSteering, Drain, NextTurn, Notify, batchVars, runVars, InBatch
<1>18. CASE PollFollowUp
  BY <1>18, ResultsFrame DEF PollFollowUp, Drain, NextTurn, Notify, AgentEnd, batchVars, runVars,
     InBatch
<1>19. CASE TurnStartSettles
  BY <1>19, ResultsFrame DEF TurnStartSettles, DeliverOr, MessageStart, Notify, queueVars,
     batchVars, runVars, InBatch, TypeInv, Parked
<1>20. CASE SendRequest
  BY <1>20, ResultsFrame DEF SendRequest, stateVars, queueVars, loopVars, batchVars, InBatch
<1>21. CASE StreamStarts
  BY <1>21, ResultsFrame DEF StreamStarts, MessageStart, Notify, queueVars, batchVars, runVars,
     InBatch
<1>22. CASE StreamEnds
  BY <1>22, ResultsFrame DEF StreamEnds, MessageEnd, Notify, MessageStart, queueVars, batchVars,
     runVars, InBatch
<1>23. CASE ReplyStartSettles
  BY <1>23, ResultsFrame DEF ReplyStartSettles, MessageEnd, Notify, queueVars, loopVars, batchVars,
     runVars, InBatch
<1>24. CASE ReplyFailed
  BY <1>24, ResultsFrame DEF ReplyFailed, Notify, stateVars, queueVars, loopVars, batchVars, InBatch
<1>25. CASE ReplyWithoutCalls
  BY <1>25, ResultsFrame DEF ReplyWithoutCalls, EndTurn, Notify, stateVars, queueVars, batchVars,
     runVars, InBatch
<1>26. CASE ReplyWithCalls
  <2>1. results = <<>> /\ ~Failed(reply) /\ pc' = "tool_start" /\ k' = 1 /\ UNCHANGED <<results, reply, turn>>
    BY <1>26 DEF ReplyWithCalls, StartCall, loopVars, runVars, CopiesAgree, NoResultsOutsideBatch, InBatch
  <2> QED BY <2>1 DEF ResultsFollow, InBatch, Failed
<1>27. CASE ToolPrepared
  <2>1. InBatch /\ pc \in {"tool_start", "tool_end"} /\ UNCHANGED <<results, reply, turn, execution, activeRun>>
    BY <1>27 DEF ToolPrepared, InBatch, loopVars, runVars
  <2>2. \/ pc' = "tool_start" /\ k' = k + 1 /\ execution = "parallel"
        \/ pc' = "tools_running" /\ k' = k /\ (execution = "parallel" => ~CallsToGo)
    BY <1>27, Parts DEF ToolPrepared, NextCall, StartCall, Launch
  <2> QED BY <2>1, <2>2, ResultsNext
<1>28. CASE ToolRefused
  <2>1. InBatch /\ pc = "tool_start" /\ UNCHANGED <<results, reply, turn, execution, activeRun, k>> /\ pc' = "tool_end"
    BY <1>28 DEF ToolRefused, InBatch, loopVars, runVars
  <2> QED BY <2>1, ResultsNext
<1>29. CASE RefusalSettles
  <2>1. InBatch /\ pc \in {"tool_start", "tool_end"} /\ UNCHANGED <<results, reply, turn, execution, activeRun>>
    BY <1>29 DEF RefusalSettles, InBatch, loopVars, runVars
  <2>2. \/ pc' = "tool_start" /\ k' = k + 1 /\ execution = "parallel"
        \/ pc' = "tools_running" /\ k' = k /\ (execution = "parallel" => ~CallsToGo)
    BY <1>29, Parts DEF RefusalSettles, NextCall, StartCall, Launch
  <2> QED BY <2>1, <2>2, ResultsNext
<1>30. CASE BatchSettled
  <2>1. /\ pc = "tools_running" /\ InBatch /\ k \in 1..reply.calls /\ k \in Nat
        /\ UNCHANGED <<results, reply, turn, execution, activeRun, k>>
    BY <1>30, Parts DEF BatchSettled, InBatch, batchVars, runVars
  <2>2. /\ ~Failed(reply) /\ \A i \in 1..Len(results) : results[i] = ToolResult(<<turn, i>>)
        /\ IF execution = "parallel" THEN results = <<>> ELSE Len(results) = k - 1
        /\ activeRun = "live" /\ execution = "parallel" => k = reply.calls
    BY <2>1 DEF ResultsFollow
  <2>3. CASE execution = "parallel"
    <3> DEFINE box == [i \in 1..k |-> ToolResult(<<turn, i>>)]
    <3>1. outbox' = box /\ pc' \in {"turn_end", "msg_start"} /\ Len(box) = k /\ \A i \in 1..k : box[i] = ToolResult(<<turn, i>>)
      BY <1>30, <2>1, <2>3, Parts DEF BatchSettled, DeliverOr
    <3> HIDE DEF box
    <3> QED BY <2>1, <2>2, <2>3, <3>1 DEF ResultsFollow, InBatch, Failed
  <2>4. CASE execution = "sequential"
    <3> DEFINE box == <<ToolResult(Call)>>
    <3>1. outbox' = box /\ pc' \in {"turn_end", "msg_start"} /\ Len(box) = 1 /\ box[1] = ToolResult(<<turn, k>>)
      BY <1>30, <2>1, <2>4 DEF BatchSettled, DeliverOr, Call
    <3> HIDE DEF box
    <3>2. \A i \in 1..Len(outbox') : outbox'[i] = ToolResult(<<turn, Len(results) + i>>)
      BY <2>1, <2>2, <2>4, <3>1
    <3> QED BY <2>1, <2>2, <2>4, <3>1, <3>2 DEF ResultsFollow, InBatch, Failed
  <2> QED BY <2>3, <2>4, Parts
<1>31. CASE TurnEndSettles
  BY <1>31, ResultsFrame DEF TurnEndSettles, stateVars, queueVars, loopVars, batchVars, runVars,
     InBatch
<1>32. CASE FinalTurnEndSettles
  BY <1>32, ResultsFrame DEF FinalTurnEndSettles, AgentEnd, queueVars, loopVars, batchVars, runVars,
     InBatch
<1>33. CASE AgentEndSettles
  BY <1>33, ResultsFrame DEF AgentEndSettles, FinishRun, queueVars, batchVars, runVars, InBatch
<1>34. CASE FailureStartSettles
  BY <1>34, ResultsFrame DEF FailureStartSettles, MessageEnd, Notify, queueVars, loopVars,
     batchVars, runVars, InBatch
<1>35. CASE FailureEndSettles
  BY <1>35, ResultsFrame DEF FailureEndSettles, Notify, stateVars, queueVars, loopVars, batchVars,
     InBatch
<1>36. CASE FailureTurnEndSettles
  BY <1>36, ResultsFrame DEF FailureTurnEndSettles, AgentEnd, queueVars, loopVars, batchVars,
     runVars, InBatch
<1>37. CASE FailureAgentEndSettles
  BY <1>37, ResultsFrame DEF FailureAgentEndSettles, FinishRun, queueVars, batchVars, runVars,
     InBatch
<1>38. CASE RunRejects
  BY <1>38, ResultsFrame DEF RunRejects, AwaitsListeners, AwaitsHook, FailRun, MessageStart, Notify,
     queueVars, batchVars, runVars, InBatch
<1>39. CASE FailureRejects
  BY <1>39, ResultsFrame DEF FailureRejects, FinishRun, queueVars, batchVars, runVars, InBatch
<1>40. ASSUME NEW c \in Calls, ToolExecuted(c) PROVE ResultsFollow'
  BY <1>40, ResultsFrame DEF ToolExecuted, NotifyOf, queueVars, loopVars, runVars, InBatch
<1>41. ASSUME NEW c \in Calls, ToolEndSettles(c) PROVE ResultsFollow'
  BY <1>41, ResultsFrame DEF ToolEndSettles, stateVars, queueVars, loopVars, runVars, InBatch
<1>42. ASSUME NEW c \in Calls, ToolRejects(c) PROVE ResultsFollow'
  <2>1. UNCHANGED <<turn, stage, k, execution, activeRun>>
    BY <1>42 DEF ToolRejects, runVars
  <2>2. pc' = "failure_start" \/ UNCHANGED <<pc, results, outbox, reply>>
    BY <1>42 DEF ToolRejects, FailRun
  <2> QED BY <2>1, <2>2, ResultsFrame DEF InBatch
<1>43. ASSUME NEW c \in Calls, ToolUpdates(c) PROVE ResultsFollow'
  BY <1>43, ResultsFrame DEF ToolUpdates, NotifyOf, stateVars, queueVars, loopVars, runVars, InBatch
<1>44. ASSUME NEW c \in Calls, UpdateRejected(c) PROVE ResultsFollow'
  BY <1>44, ResultsFrame DEF UpdateRejected, NotifyOf, stateVars, queueVars, loopVars, runVars,
     InBatch
<1>45. CASE UNCHANGED vars
  BY <1>45, ResultsFrame DEF vars, stateVars, loopVars, batchVars, runVars, InBatch
<1> QED
  BY <1>1, <1>2, <1>3, <1>4, <1>5, <1>6, <1>7, <1>8, <1>9, <1>10, <1>11, <1>12, <1>13, <1>14, <1>15,
     <1>16, <1>17, <1>18, <1>19, <1>20, <1>21, <1>22, <1>23, <1>24, <1>25, <1>26, <1>27, <1>28,
     <1>29, <1>30, <1>31, <1>32, <1>33, <1>34, <1>35, <1>36, <1>37, <1>38, <1>39, <1>40, <1>41,
     <1>42, <1>43, <1>44, <1>45 DEF Next, UserStep, LoopStep, ToolStep

\* A message that makes no calls after request b leaves every call answered.
LEMMA AnsweredAppend ==
  ASSUME NEW s \in Seq(Message), NEW b, NEW m, Answered(s, b),
         m.role = "assistant" /\ m.turn > b /\ ~Failed(m) => m.calls = 0
  PROVE  Answered(Append(s, m), b)
<1> DEFINE l == Append(s, m)
<1>1. Len(s) \in Nat /\ Len(l) = Len(s) + 1 /\ l[Len(s) + 1] = m /\ \A i \in 1..Len(s) : l[i] = s[i]
  OBVIOUS
<1> HIDE DEF l
<1> SUFFICES ASSUME NEW i \in 1..Len(l), l[i].role = "assistant", l[i].turn > b, ~Failed(l[i]),
                    NEW j \in 1..l[i].calls
             PROVE  i + j <= Len(l) /\ l[i + j] = ToolResult(<<l[i].turn, j>>)
  BY DEF Answered, l
<1>2. CASE i = Len(s) + 1
  BY <1>1, <1>2
<1>3. CASE i \in 1..Len(s)
  <2>1. i + j <= Len(s) /\ s[i + j] = ToolResult(<<s[i].turn, j>>)
    BY <1>1, <1>3 DEF Answered
  <2>2. i + j \in 1..Len(s) /\ i + j <= Len(l)
    BY <1>1, <1>3, <2>1
  <2> QED BY <1>1, <1>3, <2>1, <2>2
<1> QED BY <1>1, <1>2, <1>3

\* Messages that are all older than a request show no call of it.
LEMMA AnsweredOld ==
  ASSUME NEW b \in Nat, NEW s \in Seq(Aged(b))
  PROVE  Answered(s, b)
<1> SUFFICES ASSUME NEW i \in 1..Len(s), s[i].role = "assistant", s[i].turn > b PROVE FALSE
  BY DEF Answered
<1>1. s[i] \in Aged(b)
  OBVIOUS
<1>2. s[i] \in AssistantMessage
  BY <1>1 DEF Aged, Message, UserMessage, ToolResultMessage
<1>3. s[i].turn \in Nat /\ s[i].turn <= b
  BY <1>1, <1>2 DEF Aged, AssistantMessage
<1> QED BY <1>3

\* A reply is answered by the results of all its calls.
LEMMA AnsweredBatch ==
  ASSUME NEW s \in Seq(Message), s # <<>>, NEW b, Answered(Front(s), b),
         NEW batch \in Seq(Unspoken),
         Len(batch) = Final(s).calls, \A i \in 1..Len(batch) : batch[i] = ToolResult(<<Final(s).turn, i>>)
  PROVE  Answered(s \o batch, b)
<1> DEFINE l == s \o batch
<1>1. Len(s) \in Nat /\ Len(s) > 0 /\ Len(batch) \in Nat /\ Len(l) = Len(s) + Len(batch)
  OBVIOUS
<1>2. (\A i \in 1..Len(s) : l[i] = s[i]) /\ (\A i \in 1..Len(batch) : l[Len(s) + i] = batch[i])
  OBVIOUS
<1>3. Len(Front(s)) = Len(s) - 1 /\ \A i \in 1..(Len(s) - 1) : Front(s)[i] = s[i]
  <2>1. Len(s) - 1 \in Nat /\ Len(s) - 1 <= Len(s)
    BY <1>1
  <2>2. Front(s) = [i \in 1..(Len(s) - 1) |-> s[1 + i - 1]]
    BY <2>1 DEF Front
  <2>3. \A i \in 1..(Len(s) - 1) : 1 + i - 1 = i
    BY <2>1
  <2>4. Len(Front(s)) = Len(s) - 1
    BY <2>1, <2>2
  <2> QED BY <2>2, <2>3, <2>4
<1> HIDE DEF l
<1> SUFFICES ASSUME NEW i \in 1..Len(l), l[i].role = "assistant", l[i].turn > b, ~Failed(l[i]),
                    NEW j \in 1..l[i].calls
             PROVE  i + j <= Len(l) /\ l[i + j] = ToolResult(<<l[i].turn, j>>)
  BY DEF Answered, l
<1>4. CASE i \in 1..(Len(s) - 1)
  <2>1. i \in 1..Len(s) /\ i \in 1..Len(Front(s)) /\ Front(s)[i] = l[i]
    BY <1>1, <1>2, <1>3, <1>4
  <2>2. i + j <= Len(Front(s)) /\ Front(s)[i + j] = ToolResult(<<l[i].turn, j>>)
    BY <2>1 DEF Answered
  <2>3. j \in Int /\ j >= 1
    OBVIOUS
  <2>4. i + j <= Len(s) - 1 /\ i + j >= 1 /\ i + j \in Int
    BY <1>1, <1>3, <1>4, <2>2, <2>3
  <2>5. i + j \in 1..(Len(s) - 1) /\ i + j \in 1..Len(s) /\ i + j <= Len(l)
    BY <1>1, <2>4
  <2>6. l[i + j] = Front(s)[i + j]
    BY <1>2, <1>3, <2>5
  <2> QED BY <2>2, <2>5, <2>6
<1>5. CASE i = Len(s)
  <2>1. l[i] = Final(s)
    BY <1>1, <1>2, <1>5 DEF Final
  <2>2. j \in 1..Len(batch)
    BY <2>1
  <2>3. i + j <= Len(l) /\ l[i + j] = batch[j]
    BY <1>1, <1>2, <1>5, <2>2
  <2> QED BY <2>1, <2>2, <2>3
<1>6. CASE i > Len(s)
  <2>1. i - Len(s) \in 1..Len(batch) /\ Len(s) + (i - Len(s)) = i
    BY <1>1, <1>6
  <2>2. l[i] = batch[i - Len(s)]
    BY <1>2, <2>1
  <2>3. l[i] \in Unspoken
    BY <2>1, <2>2
  <2> QED BY <2>3, Kinds
<1> QED BY <1>1, <1>4, <1>5, <1>6

\* The last message of a nonempty sequence, and the others.
LEMMA FrontFinal ==
  ASSUME NEW S, NEW s \in Seq(S), s # <<>>
  PROVE  Front(s) \in Seq(S) /\ Final(s) \in S /\ s = Append(Front(s), Final(s))
  BY DEF Front, Final
LEMMA AppendFinal ==
  ASSUME NEW S, NEW s \in Seq(S), NEW e
  PROVE  Append(s, e) # <<>> /\ Front(Append(s, e)) = s /\ Final(Append(s, e)) = e
  BY DEF Front, Final

\* A step that keeps the loop's messages, and a run that is given up, leave nothing unanswered.
LEMMA AnsweredFrame ==
  ASSUME ContextAnswered,
         \/ activeRun' # "live"
         \/ context' = <<>> /\ ~Dealing'
         \/ /\ UNCHANGED <<context, base>> /\ (activeRun' = "live" => activeRun = "live")
            /\ \/ Dealing /\ Dealing' /\ reply' = reply /\ pc' # "streaming" /\ pc # "streaming"
               \/ Dealing /\ Dealing' /\ UNCHANGED <<reply, pc>>
               \/ ~Dealing /\ ~Dealing'
  PROVE  ContextAnswered'
<1>1. CASE activeRun' # "live"
  BY <1>1 DEF ContextAnswered
<1>2. CASE context' = <<>> /\ ~Dealing'
  <2>1. Answered(<<>>, base')
    BY DEF Answered
  <2> QED BY <1>2, <2>1 DEF ContextAnswered
<1>3. CASE /\ UNCHANGED <<context, base>> /\ (activeRun' = "live" => activeRun = "live")
           /\ \/ Dealing /\ Dealing' /\ reply' = reply /\ pc' # "streaming" /\ pc # "streaming"
              \/ Dealing /\ Dealing' /\ UNCHANGED <<reply, pc>>
              \/ ~Dealing /\ ~Dealing'
  BY <1>3 DEF ContextAnswered
<1> QED BY <1>1, <1>2, <1>3

\* A run starts with messages that are older than its requests.
LEMMA AnsweredStart ==
  ASSUME Ages, TypeInv, NEW prompts \in Seq(UserMessage), NEW skip, StartRun(prompts, skip)
  PROVE  ContextAnswered'
<1>1. prompts \in Seq(Aged(turn)) /\ turn \in Nat
  BY Kinds, Parts, SeqWiden
<1>2. messages \o prompts \in Seq(Aged(turn))
  BY <1>1 DEF Ages
<1>3. Answered(messages \o prompts, turn)
  BY <1>1, <1>2, AnsweredOld
<1>4. context' = messages \o prompts /\ base' = turn /\ pc' = "agent_start"
  BY DEF StartRun
<1> QED BY <1>3, <1>4 DEF ContextAnswered, Dealing, InBatch

\* A reply's calls are answered before the next one is asked for.
LEMMA AnsweredStep == TypeInv /\ Ages /\ ResultsFollow /\ ContextAnswered /\ [Next]_vars => ContextAnswered'
<1> SUFFICES ASSUME TypeInv, Ages, ResultsFollow, ContextAnswered, [Next]_vars PROVE ContextAnswered'
  OBVIOUS
<1>1. ASSUME NEW q \in Queues, Enqueue(q) PROVE ContextAnswered'
  BY <1>1, AnsweredFrame DEF Enqueue, stateVars, loopVars, batchVars, runVars, Dealing, InBatch
<1>2. ASSUME NEW q \in Queues, ClearQueue(q) PROVE ContextAnswered'
  BY <1>2, AnsweredFrame DEF ClearQueue, stateVars, loopVars, batchVars, runVars, Dealing, InBatch
<1>3. ASSUME NEW q \in Queues, SetQueueMode(q) PROVE ContextAnswered'
  BY <1>3, AnsweredFrame DEF SetQueueMode, stateVars, loopVars, batchVars, runVars, Dealing, InBatch
<1>4. ASSUME NEW q \in Queues, ContinueFromQueue(q) PROVE ContextAnswered'
  <2>1. Drained(q) \in Seq(UserMessage)
    BY Parts, DrainTypes
  <2> QED BY <1>4, <2>1, AnsweredStart DEF ContinueFromQueue
<1>5. CASE Abort
  BY <1>5, AnsweredFrame DEF Abort, queueVars, loopVars, batchVars, runVars, Dealing, InBatch
<1>6. CASE Reset
  BY <1>6, AnsweredFrame DEF Reset, loopVars, batchVars, Dealing, InBatch
<1>7. CASE Prompt
  BY <1>7, AnsweredStart, PromptBatch, Parts DEF Prompt
<1>8. CASE ContinueFromTranscript
  BY <1>8, AnsweredStart, NoMessages DEF ContinueFromTranscript
<1>9. CASE DropFailedReply
  BY <1>9, AnsweredFrame DEF DropFailedReply, queueVars, loopVars, batchVars, runVars, Dealing,
     InBatch
<1>10. CASE AgentStartSettles
  BY <1>10, AnsweredFrame DEF AgentStartSettles, Notify, stateVars, queueVars, loopVars, batchVars,
     runVars, Dealing, InBatch
<1>11. CASE FirstTurnStartSettles
  BY <1>11, AnsweredFrame DEF FirstTurnStartSettles, DeliverOr, MessageStart, Notify, queueVars,
     batchVars, runVars, Dealing, InBatch, TypeInv, Parked
<1>12. CASE MessageStartSettles
  BY <1>12, AnsweredFrame DEF MessageStartSettles, MessageEnd, Notify, queueVars, loopVars,
     batchVars, runVars, Dealing, InBatch
<1>13. CASE PromptDelivered
  BY <1>13, AnsweredFrame DEF PromptDelivered, DeliverOr, MessageStart, Notify, queueVars,
     batchVars, runVars, Dealing, InBatch
<1>14. CASE PendingDelivered
  <2>1. Head(outbox) \in Unspoken /\ context \in Seq(Message)
    BY <1>14, Parts, SeqFacts DEF PendingDelivered, Ages
  <2>2. /\ UNCHANGED <<activeRun, base>> /\ ~Dealing /\ ~Dealing' /\ context' = Append(context, Head(outbox))
    BY <1>14 DEF PendingDelivered, DeliverOr, runVars, Dealing, InBatch
  <2>3. Answered(context, base) => Answered(context', base)
    BY <2>1, <2>2, Kinds, AnsweredAppend
  <2> QED BY <2>2, <2>3 DEF ContextAnswered
<1>15. CASE ResultDelivered
  <2> DEFINE batch == Append(results, Head(outbox))
  <2>1. /\ pc = "msg_end" /\ InBatch /\ outbox # <<>> /\ outbox \in Seq(Unspoken) /\ results \in Seq(Unspoken)
        /\ UNCHANGED <<reply, base, activeRun>> /\ stage' = "results" /\ context \in Seq(Message)
    BY <1>15, Parts DEF ResultDelivered, InBatch, runVars, Ages
  <2>2. CASE context' = context /\ pc' \in {"msg_start", "tool_start"}
    BY <2>1, <2>2, AnsweredFrame DEF Dealing, InBatch
  <2>3. CASE /\ context' = context \o batch /\ pc' = "turn_end" /\ Tail(outbox) = <<>>
             /\ ~(execution = "sequential" /\ CallsToGo)
    <3> SUFFICES ASSUME activeRun = "live" PROVE Answered(context \o batch, base)
      BY <2>1, <2>3 DEF ContextAnswered, Dealing, InBatch
    <3>1. /\ ~Failed(reply) /\ \A i \in 1..Len(results) : results[i] = ToolResult(<<turn, i>>)
          /\ Len(results) + Len(outbox) = k
          /\ \A i \in 1..Len(outbox) : outbox[i] = ToolResult(<<turn, Len(results) + i>>)
          /\ execution = "parallel" => k = reply.calls
      BY <2>1 DEF ResultsFollow
    <3>2. Len(results) \in Nat /\ Len(outbox) \in Nat /\ Len(outbox) > 0 /\ Len(Tail(outbox)) = Len(outbox) - 1
      BY <2>1
    <3>3. Len(Tail(outbox)) = 0
      <4>1. Len(<<>>) = 0
        OBVIOUS
      <4> QED BY <2>3, <4>1
    <3>4. Len(outbox) = 1
      BY <3>2, <3>3
    <3>5. batch \in Seq(Unspoken) /\ Len(batch) = Len(results) + 1 /\ Head(outbox) = outbox[1]
      BY <2>1, SeqFacts
    <3>6. k = reply.calls
      <4>1. k \in 1..reply.calls /\ reply.calls \in Nat /\ k \in Nat /\ execution \in {"parallel", "sequential"}
        BY <2>1, Parts
      <4> QED BY <2>3, <3>1, <4>1 DEF CallsToGo
    <3>7. Len(batch) = reply.calls
      BY <3>1, <3>4, <3>5, <3>6
    <3>8. \A i \in 1..Len(batch) : batch[i] = ToolResult(<<turn, i>>)
      <4> SUFFICES ASSUME NEW i \in 1..Len(batch) PROVE batch[i] = ToolResult(<<turn, i>>)
        OBVIOUS
      <4>1. CASE i = Len(results) + 1
        <5>1. batch[i] = outbox[1] /\ 1 \in 1..Len(outbox)
          BY <2>1, <3>2, <3>5, <4>1
        <5>2. outbox[1] = ToolResult(<<turn, Len(results) + 1>>)
          BY <3>1, <5>1
        <5> QED BY <4>1, <5>1, <5>2
      <4>2. CASE i \in 1..Len(results)
        BY <2>1, <3>1, <4>2
      <4> QED BY <3>2, <3>5, <4>1, <4>2
    <3> HIDE DEF batch
    <3>9. context # <<>> /\ Answered(Front(context), base) /\ Final(context) = reply /\ reply.turn = turn
      BY <2>1 DEF ContextAnswered, Dealing, Ages
    <3> QED BY <2>1, <3>5, <3>7, <3>8, <3>9, AnsweredBatch
  <2> QED BY <1>15, <2>2, <2>3 DEF ResultDelivered, DeliverOr, StartCall, EndTurn
<1>16. CASE PollInitial
  BY <1>16, AnsweredFrame DEF PollInitial, DeliverOr, MessageStart, Notify, queueVars, Drain,
     batchVars, runVars, Dealing, InBatch
<1>17. CASE PollSteering
  BY <1>17, AnsweredFrame DEF PollSteering, Drain, NextTurn, Notify, batchVars, runVars, Dealing,
     InBatch
<1>18. CASE PollFollowUp
  BY <1>18, AnsweredFrame DEF PollFollowUp, Drain, NextTurn, Notify, AgentEnd, batchVars, runVars,
     Dealing, InBatch
<1>19. CASE TurnStartSettles
  BY <1>19, AnsweredFrame DEF TurnStartSettles, DeliverOr, MessageStart, Notify, queueVars,
     batchVars, runVars, Dealing, InBatch, TypeInv, Parked
<1>20. CASE SendRequest
  BY <1>20, AnsweredFrame DEF SendRequest, stateVars, queueVars, loopVars, batchVars, Dealing,
     InBatch
<1>21. CASE StreamStarts
  <2>1. /\ UNCHANGED <<activeRun, base>> /\ ~Dealing /\ Dealing' /\ pc' = "streaming" /\ context' = Append(context, Partial)
    BY <1>21 DEF StreamStarts, runVars, Dealing, InBatch
  <2>2. context' # <<>> /\ Front(context') = context
    BY <2>1, Parts, AppendFinal
  <2> QED BY <2>1, <2>2 DEF ContextAnswered
<1>22. CASE StreamEnds
  <2> PICK answer \in Answers :
        /\ reply' = answer
        /\ \/ pc = "streaming" /\ pc' = "reply_end" /\ context' = Append(Front(context), answer)
           \/ pc = "stream" /\ pc' = "reply_start" /\ context' = Append(context, answer)
    BY <1>22 DEF StreamEnds
  <2>1. UNCHANGED <<activeRun, base>> /\ Dealing'
    BY <1>22 DEF StreamEnds, runVars, Dealing
  <2>2. CASE pc = "streaming" /\ pc' = "reply_end" /\ context' = Append(Front(context), answer)
    <3>1. context \in Seq(Message) /\ context # <<>> /\ Front(context) \in Seq(Message)
      BY <2>2, Parts, FrontFinal
    <3>2. context' # <<>> /\ Front(context') = Front(context) /\ Final(context') = answer
      BY <2>2, <3>1, AppendFinal
    <3> QED BY <2>1, <2>2, <3>2 DEF ContextAnswered, Dealing
  <2>3. CASE pc = "stream" /\ pc' = "reply_start" /\ context' = Append(context, answer)
    <3>1. context' # <<>> /\ Front(context') = context /\ Final(context') = answer
      BY <2>3, Parts, AppendFinal
    <3> QED BY <2>1, <2>3, <3>1 DEF ContextAnswered, Dealing, InBatch
  <2> QED BY <2>2, <2>3
<1>23. CASE ReplyStartSettles
  BY <1>23, AnsweredFrame DEF ReplyStartSettles, MessageEnd, Notify, queueVars, loopVars, batchVars,
     runVars, Dealing, InBatch
<1>24. CASE ReplyFailed
  <2>1. /\ UNCHANGED <<activeRun, base>> /\ pc = "reply_end" /\ ~Dealing' /\ Failed(reply)
        /\ context \in Seq(Message)
    BY <1>24, Parts DEF ReplyFailed, EndTurn, Notify, stateVars, loopVars, runVars, Dealing, InBatch
  <2>2. context' = context
    BY <1>24, Parts, SeqAlgebra DEF ReplyFailed, EndTurn, loopVars
  <2> SUFFICES ASSUME activeRun = "live" PROVE Answered(context, base)
    BY <2>1, <2>2 DEF ContextAnswered
  <2>3. context # <<>> /\ Answered(Front(context), base) /\ Final(context) = reply
    BY <2>1 DEF ContextAnswered, Dealing
  <2>4. Front(context) \in Seq(Message) /\ context = Append(Front(context), reply)
    BY <2>1, <2>3, FrontFinal
  <2>5. Answered(Append(Front(context), reply), base)
    BY <2>1, <2>3, <2>4, AnsweredAppend
  <2> QED BY <2>4, <2>5
<1>25. CASE ReplyWithoutCalls
  <2>1. /\ UNCHANGED <<activeRun, base>> /\ pc = "reply_end" /\ ~Dealing' /\ reply.calls = 0
        /\ context \in Seq(Message)
    BY <1>25, Parts DEF ReplyWithoutCalls, EndTurn, Notify, stateVars, loopVars, runVars, Dealing, InBatch
  <2>2. context' = context
    BY <1>25, Parts, SeqAlgebra DEF ReplyWithoutCalls, EndTurn, loopVars
  <2> SUFFICES ASSUME activeRun = "live" PROVE Answered(context, base)
    BY <2>1, <2>2 DEF ContextAnswered
  <2>3. context # <<>> /\ Answered(Front(context), base) /\ Final(context) = reply
    BY <2>1 DEF ContextAnswered, Dealing
  <2>4. Front(context) \in Seq(Message) /\ context = Append(Front(context), reply)
    BY <2>1, <2>3, FrontFinal
  <2>5. Answered(Append(Front(context), reply), base)
    BY <2>1, <2>3, <2>4, AnsweredAppend
  <2> QED BY <2>4, <2>5
<1>26. CASE ReplyWithCalls
  BY <1>26, AnsweredFrame DEF ReplyWithCalls, StartCall, Notify, queueVars, loopVars, runVars,
     Dealing, InBatch
<1>27. CASE ToolPrepared
  BY <1>27, AnsweredFrame DEF ToolPrepared, Launch, Call, NextCall, CallsToGo, StartCall, Notify,
     queueVars, loopVars, runVars, Dealing, InBatch
<1>28. CASE ToolRefused
  BY <1>28, AnsweredFrame DEF ToolRefused, Call, Notify, queueVars, loopVars, runVars, Dealing,
     InBatch
<1>29. CASE RefusalSettles
  BY <1>29, AnsweredFrame DEF RefusalSettles, Launch, Call, NextCall, CallsToGo, StartCall, Notify,
     queueVars, loopVars, runVars, Dealing, InBatch
<1>30. CASE BatchSettled
  <2>1. /\ Dealing /\ pc = "tools_running" /\ UNCHANGED <<context, base, activeRun, reply>>
        /\ stage' = "results" /\ k \in 1..reply.calls /\ k \in Nat
    BY <1>30, Parts DEF BatchSettled, Dealing, InBatch, runVars
  <2>2. pc' = "msg_start"
    <3>1. <<ToolResult(Call)>> # <<>> /\ [i \in 1..k |-> ToolResult(<<turn, i>>)] # <<>>
      BY <2>1
    <3> QED BY <1>30, <3>1 DEF BatchSettled, DeliverOr
  <2> QED BY <2>1, <2>2, AnsweredFrame DEF Dealing, InBatch
<1>31. CASE TurnEndSettles
  BY <1>31, AnsweredFrame DEF TurnEndSettles, stateVars, queueVars, loopVars, batchVars, runVars,
     Dealing, InBatch
<1>32. CASE FinalTurnEndSettles
  BY <1>32, AnsweredFrame DEF FinalTurnEndSettles, AgentEnd, queueVars, loopVars, batchVars,
     runVars, Dealing, InBatch
<1>33. CASE AgentEndSettles
  BY <1>33, AnsweredFrame DEF AgentEndSettles, FinishRun, queueVars, batchVars, runVars, Dealing,
     InBatch
<1>34. CASE FailureStartSettles
  BY <1>34, AnsweredFrame DEF FailureStartSettles, MessageEnd, Notify, queueVars, loopVars,
     batchVars, runVars, Dealing, InBatch
<1>35. CASE FailureEndSettles
  BY <1>35, AnsweredFrame DEF FailureEndSettles, Notify, stateVars, queueVars, loopVars, batchVars,
     Dealing, InBatch
<1>36. CASE FailureTurnEndSettles
  BY <1>36, AnsweredFrame DEF FailureTurnEndSettles, AgentEnd, queueVars, loopVars, batchVars,
     runVars, Dealing, InBatch
<1>37. CASE FailureAgentEndSettles
  BY <1>37, AnsweredFrame DEF FailureAgentEndSettles, FinishRun, queueVars, batchVars, runVars,
     Dealing, InBatch
<1>38. CASE RunRejects
  BY <1>38, AnsweredFrame DEF RunRejects, AwaitsListeners, AwaitsHook, FailRun, MessageStart,
     Notify, queueVars, batchVars, runVars, Dealing, InBatch
<1>39. CASE FailureRejects
  BY <1>39, AnsweredFrame DEF FailureRejects, FinishRun, queueVars, batchVars, runVars, Dealing,
     InBatch
<1>40. ASSUME NEW c \in Calls, ToolExecuted(c) PROVE ContextAnswered'
  BY <1>40, AnsweredFrame DEF ToolExecuted, NotifyOf, queueVars, loopVars, runVars, Dealing, InBatch
<1>41. ASSUME NEW c \in Calls, ToolEndSettles(c) PROVE ContextAnswered'
  BY <1>41, AnsweredFrame DEF ToolEndSettles, stateVars, queueVars, loopVars, runVars, Dealing,
     InBatch
<1>42. ASSUME NEW c \in Calls, ToolRejects(c) PROVE ContextAnswered'
  <2>1. UNCHANGED <<stage, activeRun, base>>
    BY <1>42 DEF ToolRejects, runVars
  <2>2. \/ pc' = "failure_start" /\ context' = <<>>
        \/ UNCHANGED <<pc, context, reply>>
    BY <1>42 DEF ToolRejects, FailRun
  <2> QED BY <2>1, <2>2, AnsweredFrame DEF Dealing, InBatch
<1>43. ASSUME NEW c \in Calls, ToolUpdates(c) PROVE ContextAnswered'
  BY <1>43, AnsweredFrame DEF ToolUpdates, NotifyOf, stateVars, queueVars, loopVars, runVars,
     Dealing, InBatch
<1>44. ASSUME NEW c \in Calls, UpdateRejected(c) PROVE ContextAnswered'
  BY <1>44, AnsweredFrame DEF UpdateRejected, NotifyOf, stateVars, queueVars, loopVars, runVars,
     Dealing, InBatch
<1>45. CASE UNCHANGED vars
  BY <1>45, AnsweredFrame DEF vars, stateVars, loopVars, batchVars, runVars, Dealing, InBatch
<1> QED
  BY <1>1, <1>2, <1>3, <1>4, <1>5, <1>6, <1>7, <1>8, <1>9, <1>10, <1>11, <1>12, <1>13, <1>14, <1>15,
     <1>16, <1>17, <1>18, <1>19, <1>20, <1>21, <1>22, <1>23, <1>24, <1>25, <1>26, <1>27, <1>28,
     <1>29, <1>30, <1>31, <1>32, <1>33, <1>34, <1>35, <1>36, <1>37, <1>38, <1>39, <1>40, <1>41,
     <1>42, <1>43, <1>44, <1>45 DEF Next, UserStep, LoopStep, ToolStep

\* What the transcript ends with changes only where a message joins it.
LEMMA FitsFrame ==
  ASSUME ResultFits,
         \/ pc' # "reply_end" /\ ~InBatch'
         \/ messages' = <<>> /\ resets' > 0
         \/ /\ UNCHANGED <<messages, resets, turn>>
            /\ \/ pc = "reply_end" /\ pc' = "reply_end"
               \/ pc = "reply_end" /\ pc' = "tool_start" /\ results' = <<>>
               \/ InBatch /\ pc' # "reply_end" /\ results' = results /\ (pc = "msg_end" <=> pc' = "msg_end")
               \/ /\ pc = "msg_end" /\ InBatch /\ pc' \notin {"msg_end", "reply_end"}
                  /\ Len(results) \in Nat /\ Len(results') = Len(results) + 1
  PROVE  ResultFits'
<1>1. CASE pc' # "reply_end" /\ ~InBatch'
  BY <1>1 DEF ResultFits
<1>2. CASE messages' = <<>> /\ resets' > 0
  BY <1>2 DEF ResultFits, EndsBefore
<1>3. Len(<<>>) = 0
  OBVIOUS
<1>4. CASE UNCHANGED <<messages, resets, turn>> /\ pc = "reply_end" /\ pc' = "reply_end"
  <2>1. ~InBatch'
    BY <1>4 DEF InBatch
  <2> QED BY <1>4, <2>1 DEF ResultFits, EndsBefore
<1>5. CASE UNCHANGED <<messages, resets, turn>> /\ pc = "reply_end" /\ pc' = "tool_start" /\ results' = <<>>
  <2>1. Len(results') + (IF pc' = "msg_end" THEN 2 ELSE 1) = 1
    BY <1>3, <1>5
  <2> QED BY <1>5, <2>1 DEF ResultFits, EndsBefore
<1>6. CASE /\ UNCHANGED <<messages, resets, turn>> /\ InBatch /\ pc' # "reply_end"
           /\ results' = results /\ (pc = "msg_end" <=> pc' = "msg_end")
  BY <1>6 DEF ResultFits, EndsBefore
<1>7. CASE /\ UNCHANGED <<messages, resets, turn>> /\ pc = "msg_end" /\ InBatch /\ pc' \notin {"msg_end", "reply_end"}
           /\ Len(results) \in Nat /\ Len(results') = Len(results) + 1
  <2>1. Len(results') + (IF pc' = "msg_end" THEN 2 ELSE 1) = Len(results) + 2
    BY <1>7
  <2> QED BY <1>7, <2>1 DEF ResultFits, EndsBefore
<1> QED BY <1>1, <1>2, <1>4, <1>5, <1>6, <1>7

\* A message joins the transcript in order: a result only behind what its call says.
LEMMA OrderAppend ==
  ASSUME TypeInv, ResultsInSourceOrder, resets' = resets, NEW m, messages' = Append(messages, m),
         m.role = "toolResult" => m.call[1] = turn /\ EndsBefore(m.call[2])
  PROVE  ResultsInSourceOrder'
<1> DEFINE l == Append(messages, m)
<1>1. messages \in Seq(Message)
  BY Parts
<1>2. /\ Len(messages) \in Nat /\ DOMAIN l = 1..(Len(messages) + 1) /\ DOMAIN messages = 1..Len(messages)
      /\ l[Len(messages) + 1] = m /\ \A i \in 1..Len(messages) : l[i] = messages[i]
  BY <1>1
<1> HIDE DEF l
<1> SUFFICES ASSUME NEW i \in DOMAIN l, l[i].role = "toolResult"
             PROVE  \/ i = 1 /\ resets > 0
                    \/ i > 1 /\ IF l[i].call[2] = 1
                                 THEN l[i-1].role = "assistant" /\ l[i-1].turn = l[i].call[1]
                                 ELSE l[i-1] = ToolResult(<<l[i].call[1], l[i].call[2] - 1>>)
  BY DEF ResultsInSourceOrder, l
<1>3. CASE i \in 1..Len(messages)
  <2>1. l[i] = messages[i] /\ i \in DOMAIN messages
    BY <1>2, <1>3
  <2>2. i > 1 => l[i-1] = messages[i-1]
    BY <1>2, <1>3
  <2> QED BY <2>1, <2>2 DEF ResultsInSourceOrder
<1>4. CASE i = Len(messages) + 1
  <2>1. l[i] = m /\ m.call[1] = turn /\ EndsBefore(m.call[2])
    BY <1>2, <1>4
  <2>2. CASE messages = <<>>
    <3>1. Len(messages) = 0
      BY <2>2
    <3> QED BY <1>4, <2>1, <2>2, <3>1 DEF EndsBefore
  <2>3. CASE messages # <<>>
    <3>1. Len(messages) > 0
      BY <1>1, <2>3
    <3>2. i > 1 /\ i - 1 = Len(messages) /\ i - 1 \in 1..Len(messages)
      BY <1>2, <1>4, <3>1
    <3>3. l[i-1] = Final(messages)
      BY <1>2, <3>2 DEF Final
    <3> QED BY <2>1, <2>3, <3>2, <3>3 DEF EndsBefore
  <2> QED BY <2>2, <2>3
<1> QED BY <1>2, <1>3, <1>4

\* Dropping the last message, or all of them, leaves the others in order.
LEMMA OrderFrame ==
  ASSUME TypeInv, ResultsInSourceOrder,
         \/ messages' = messages /\ resets' = resets
         \/ messages' = <<>>
         \/ messages # <<>> /\ messages' = Front(messages) /\ resets' = resets
  PROVE  ResultsInSourceOrder'
<1>1. CASE messages' = messages /\ resets' = resets
  BY <1>1 DEF ResultsInSourceOrder
<1>2. CASE messages' = <<>>
  BY <1>2 DEF ResultsInSourceOrder
<1>3. CASE messages # <<>> /\ messages' = Front(messages) /\ resets' = resets
  <2> DEFINE l == Front(messages)
  <2>1. messages \in Seq(Message) /\ l \in Seq(Message) /\ Final(messages) \in Message /\ messages = Append(l, Final(messages))
    BY <1>3, Parts, FrontFinal
  <2> HIDE DEF l
  <2>2. /\ Len(l) \in Nat /\ DOMAIN messages = 1..(Len(l) + 1) /\ DOMAIN l = 1..Len(l)
        /\ \A i \in 1..Len(l) : l[i] = messages[i]
    BY <2>1
  <2>3. \A i \in DOMAIN l : i \in DOMAIN messages /\ l[i] = messages[i] /\ (i > 1 => l[i-1] = messages[i-1])
    BY <2>2
  <2>4. messages' = l
    BY <1>3 DEF l
  <2> SUFFICES ASSUME NEW i \in DOMAIN l, l[i].role = "toolResult"
               PROVE  \/ i = 1 /\ resets > 0
                      \/ i > 1 /\ IF l[i].call[2] = 1
                                   THEN l[i-1].role = "assistant" /\ l[i-1].turn = l[i].call[1]
                                   ELSE l[i-1] = ToolResult(<<l[i].call[1], l[i].call[2] - 1>>)
    BY <1>3, <2>4 DEF ResultsInSourceOrder
  <2>5. i \in DOMAIN messages /\ l[i] = messages[i] /\ (i > 1 => l[i-1] = messages[i-1])
    BY <2>3
  <2> QED BY <2>5 DEF ResultsInSourceOrder
<1> QED BY <1>1, <1>2, <1>3

\* The result in hand is the next one of the batch, and the transcript is ready for it.
LEMMA NextResult ==
  ASSUME TypeInv, ResultsFollow, ResultFits, pc = "msg_start", stage = "results"
  PROVE  /\ Len(results) \in Nat /\ Head(outbox) = ToolResult(<<turn, Len(results) + 1>>)
         /\ EndsBefore(Len(results) + 1)
<1>1. InBatch /\ outbox # <<>> /\ outbox \in Seq(Message) /\ results \in Seq(Message)
  BY Parts DEF InBatch, TypeInv, TypeOK, TranscriptType
<1>2. Len(results) \in Nat /\ Len(outbox) \in Nat /\ Len(outbox) > 0
  BY <1>1
<1>3. Head(outbox) = outbox[1] /\ 1 \in 1..Len(outbox)
  BY <1>1, <1>2
<1>4. outbox[1] = ToolResult(<<turn, Len(results) + 1>>)
  BY <1>1, <1>3 DEF ResultsFollow
<1>5. EndsBefore(Len(results) + 1)
  BY <1>1 DEF ResultFits
<1> QED BY <1>2, <1>3, <1>4, <1>5

\* What the transcript ends with once a reply or a result has joined it.
LEMMA EndsAppend ==
  ASSUME TypeInv, NEW m, messages' = Append(messages, m), NEW n \in Nat, turn' = turn,
         IF n = 1 THEN m.role = "assistant" /\ m.turn = turn ELSE m = ToolResult(<<turn, n - 1>>)
  PROVE  EndsBefore(n)'
<1>1. messages' # <<>> /\ Final(messages') = m
  BY Parts, AppendFinal
<1> QED BY <1>1 DEF EndsBefore

\* The transcript ends with the reply, or with the result before the one in hand.
LEMMA FitsStep == TypeInv /\ CopiesAgree /\ Ages /\ ResultsFollow /\ ResultFits /\ [Next]_vars => ResultFits'
<1> SUFFICES ASSUME TypeInv, CopiesAgree, Ages, ResultsFollow, ResultFits, [Next]_vars PROVE ResultFits'
  OBVIOUS
<1>1. ASSUME NEW q \in Queues, Enqueue(q) PROVE ResultFits'
  BY <1>1, FitsFrame DEF Enqueue, stateVars, loopVars, batchVars, runVars, InBatch
<1>2. ASSUME NEW q \in Queues, ClearQueue(q) PROVE ResultFits'
  BY <1>2, FitsFrame DEF ClearQueue, stateVars, loopVars, batchVars, runVars, InBatch
<1>3. ASSUME NEW q \in Queues, SetQueueMode(q) PROVE ResultFits'
  BY <1>3, FitsFrame DEF SetQueueMode, stateVars, loopVars, batchVars, runVars, InBatch
<1>4. ASSUME NEW q \in Queues, ContinueFromQueue(q) PROVE ResultFits'
  BY <1>4, FitsFrame DEF ContinueFromQueue, StartRun, batchVars, Drain, InBatch
<1>5. CASE Abort
  BY <1>5, FitsFrame DEF Abort, queueVars, loopVars, batchVars, runVars, InBatch
<1>6. CASE Reset
  <2>1. messages' = <<>> /\ resets' > 0
    BY <1>6, Parts DEF Reset
  <2> QED BY <2>1, FitsFrame
<1>7. CASE Prompt
  BY <1>7, FitsFrame DEF Prompt, StartRun, batchVars, InBatch
<1>8. CASE ContinueFromTranscript
  BY <1>8, FitsFrame DEF ContinueFromTranscript, StartRun, batchVars, queueVars, InBatch
<1>9. CASE DropFailedReply
  BY <1>9, FitsFrame, Parts DEF DropFailedReply, queueVars, loopVars, batchVars, runVars, InBatch
<1>10. CASE AgentStartSettles
  BY <1>10, FitsFrame DEF AgentStartSettles, Notify, stateVars, queueVars, loopVars, batchVars,
     runVars, InBatch
<1>11. CASE FirstTurnStartSettles
  BY <1>11, FitsFrame DEF FirstTurnStartSettles, DeliverOr, MessageStart, Notify, queueVars,
     batchVars, runVars, InBatch, TypeInv, Parked
<1>12. CASE MessageStartSettles
  <2>1. /\ pc = "msg_start" /\ pc' = "msg_end" /\ UNCHANGED <<results, turn, stage, resets>>
        /\ messages' = Append(messages, Head(outbox))
    BY <1>12 DEF MessageStartSettles, MessageEnd, loopVars, runVars
  <2>2. CASE stage # "results"
    BY <2>1, <2>2, FitsFrame DEF InBatch
  <2>3. CASE stage = "results"
    <3>1. Len(results) \in Nat /\ Head(outbox) = ToolResult(<<turn, Len(results) + 1>>)
      BY <2>1, <2>3, NextResult
    <3>2. Len(results) + 2 \in Nat /\ Len(results) + 2 # 1 /\ (Len(results) + 2) - 1 = Len(results) + 1
      BY <3>1
    <3>3. EndsBefore(Len(results) + 2)'
      BY <2>1, <3>1, <3>2, EndsAppend
    <3>4. Len(results') = Len(results)
      BY <2>1
    <3> QED BY <2>1, <3>3, <3>4 DEF ResultFits, EndsBefore
  <2> QED BY <2>2, <2>3
<1>13. CASE PromptDelivered
  BY <1>13, FitsFrame DEF PromptDelivered, DeliverOr, MessageStart, Notify, queueVars, batchVars,
     runVars, InBatch
<1>14. CASE PendingDelivered
  BY <1>14, FitsFrame DEF PendingDelivered, DeliverOr, MessageStart, Notify, queueVars, batchVars,
     runVars, InBatch
<1>15. CASE ResultDelivered
  <2> DEFINE batch == Append(results, Head(outbox))
  <2>1. /\ pc = "msg_end" /\ InBatch /\ UNCHANGED <<messages, resets, turn, stage>> /\ stage = "results"
        /\ \/ results' = batch /\ pc' \in {"msg_start", "tool_start"}
           \/ pc' = "turn_end"
    BY <1>15 DEF ResultDelivered, DeliverOr, StartCall, EndTurn, InBatch, runVars
  <2>2. Len(results) \in Nat /\ Len(batch) = Len(results) + 1
    BY DEF Ages
  <2> HIDE DEF batch
  <2>3. CASE results' = batch /\ pc' \in {"msg_start", "tool_start"}
    <3>1. Len(results') = Len(results) + 1
      BY <2>2, <2>3
    <3> QED BY <2>1, <2>2, <2>3, <3>1, FitsFrame DEF InBatch
  <2>4. CASE pc' = "turn_end"
    BY <2>4, FitsFrame DEF InBatch
  <2> QED BY <2>1, <2>3, <2>4
<1>16. CASE PollInitial
  BY <1>16, FitsFrame DEF PollInitial, DeliverOr, MessageStart, Notify, queueVars, Drain, batchVars,
     runVars, InBatch
<1>17. CASE PollSteering
  BY <1>17, FitsFrame DEF PollSteering, Drain, NextTurn, Notify, batchVars, runVars, InBatch
<1>18. CASE PollFollowUp
  BY <1>18, FitsFrame DEF PollFollowUp, Drain, NextTurn, Notify, AgentEnd, batchVars, runVars,
     InBatch
<1>19. CASE TurnStartSettles
  BY <1>19, FitsFrame DEF TurnStartSettles, DeliverOr, MessageStart, Notify, queueVars, batchVars,
     runVars, InBatch, TypeInv, Parked
<1>20. CASE SendRequest
  BY <1>20, FitsFrame DEF SendRequest, stateVars, queueVars, loopVars, batchVars, InBatch
<1>21. CASE StreamStarts
  BY <1>21, FitsFrame DEF StreamStarts, MessageStart, Notify, queueVars, batchVars, runVars, InBatch
<1>22. CASE StreamEnds
  <2> PICK answer \in Answers :
        \/ pc' = "reply_end" /\ messages' = Append(messages, answer) /\ UNCHANGED turn
        \/ pc' = "reply_start"
    BY <1>22 DEF StreamEnds, MessageEnd, runVars
  <2>1. CASE pc' = "reply_end" /\ messages' = Append(messages, answer) /\ UNCHANGED turn
    <3>1. answer.role = "assistant" /\ answer.turn = turn
      BY DEF Answers
    <3>2. EndsBefore(1)'
      BY <2>1, <3>1, EndsAppend
    <3> QED BY <2>1, <3>2 DEF ResultFits, EndsBefore, InBatch
  <2>2. CASE pc' = "reply_start"
    BY <2>2, FitsFrame DEF InBatch
  <2> QED BY <2>1, <2>2
<1>23. CASE ReplyStartSettles
  <2>1. pc = "reply_start" /\ pc' = "reply_end" /\ messages' = Append(messages, reply) /\ UNCHANGED turn
    BY <1>23 DEF ReplyStartSettles, MessageEnd, runVars
  <2>2. reply.role = "assistant" /\ reply.turn = turn
    BY <2>1, Parts DEF Ages, AssistantMessage
  <2>3. EndsBefore(1)'
    BY <2>1, <2>2, EndsAppend
  <2> QED BY <2>1, <2>3 DEF ResultFits, EndsBefore, InBatch
<1>24. CASE ReplyFailed
  BY <1>24, FitsFrame DEF ReplyFailed, Notify, stateVars, queueVars, loopVars, batchVars, InBatch
<1>25. CASE ReplyWithoutCalls
  BY <1>25, FitsFrame DEF ReplyWithoutCalls, EndTurn, Notify, stateVars, queueVars, batchVars,
     runVars, InBatch
<1>26. CASE ReplyWithCalls
  <2>1. results = <<>> /\ pc = "reply_end" /\ pc' = "tool_start" /\ UNCHANGED <<results, messages, resets, turn>>
    BY <1>26 DEF ReplyWithCalls, StartCall, loopVars, runVars, CopiesAgree, NoResultsOutsideBatch, InBatch
  <2> QED BY <2>1, FitsFrame DEF InBatch
<1>27. CASE ToolPrepared
  BY <1>27, FitsFrame DEF ToolPrepared, Launch, Call, NextCall, CallsToGo, StartCall, Notify,
     queueVars, loopVars, runVars, InBatch
<1>28. CASE ToolRefused
  BY <1>28, FitsFrame DEF ToolRefused, Call, Notify, queueVars, loopVars, runVars, InBatch
<1>29. CASE RefusalSettles
  BY <1>29, FitsFrame DEF RefusalSettles, Launch, Call, NextCall, CallsToGo, StartCall, Notify,
     queueVars, loopVars, runVars, InBatch
<1>30. CASE BatchSettled
  <2>1. /\ pc = "tools_running" /\ pc' \in {"turn_end", "msg_start"} /\ stage' = "results"
        /\ UNCHANGED <<results, messages, resets, turn>>
    BY <1>30 DEF BatchSettled, DeliverOr, runVars
  <2> QED BY <2>1, FitsFrame DEF InBatch
<1>31. CASE TurnEndSettles
  BY <1>31, FitsFrame DEF TurnEndSettles, stateVars, queueVars, loopVars, batchVars, runVars,
     InBatch
<1>32. CASE FinalTurnEndSettles
  BY <1>32, FitsFrame DEF FinalTurnEndSettles, AgentEnd, queueVars, loopVars, batchVars, runVars,
     InBatch
<1>33. CASE AgentEndSettles
  BY <1>33, FitsFrame DEF AgentEndSettles, FinishRun, queueVars, batchVars, runVars, InBatch
<1>34. CASE FailureStartSettles
  BY <1>34, FitsFrame DEF FailureStartSettles, MessageEnd, Notify, queueVars, loopVars, batchVars,
     runVars, InBatch
<1>35. CASE FailureEndSettles
  BY <1>35, FitsFrame DEF FailureEndSettles, Notify, stateVars, queueVars, loopVars, batchVars,
     InBatch
<1>36. CASE FailureTurnEndSettles
  BY <1>36, FitsFrame DEF FailureTurnEndSettles, AgentEnd, queueVars, loopVars, batchVars, runVars,
     InBatch
<1>37. CASE FailureAgentEndSettles
  BY <1>37, FitsFrame DEF FailureAgentEndSettles, FinishRun, queueVars, batchVars, runVars, InBatch
<1>38. CASE RunRejects
  BY <1>38, FitsFrame DEF RunRejects, AwaitsListeners, AwaitsHook, FailRun, MessageStart, Notify,
     queueVars, batchVars, runVars, InBatch
<1>39. CASE FailureRejects
  BY <1>39, FitsFrame DEF FailureRejects, FinishRun, queueVars, batchVars, runVars, InBatch
<1>40. ASSUME NEW c \in Calls, ToolExecuted(c) PROVE ResultFits'
  BY <1>40, FitsFrame DEF ToolExecuted, NotifyOf, queueVars, loopVars, runVars, InBatch
<1>41. ASSUME NEW c \in Calls, ToolEndSettles(c) PROVE ResultFits'
  BY <1>41, FitsFrame DEF ToolEndSettles, stateVars, queueVars, loopVars, runVars, InBatch
<1>42. ASSUME NEW c \in Calls, ToolRejects(c) PROVE ResultFits'
  <2>1. UNCHANGED <<messages, resets, turn, stage>>
    BY <1>42 DEF ToolRejects, runVars
  <2>2. pc' = "failure_start" \/ UNCHANGED <<pc, results>>
    BY <1>42 DEF ToolRejects, FailRun
  <2> QED BY <2>1, <2>2, FitsFrame DEF InBatch
<1>43. ASSUME NEW c \in Calls, ToolUpdates(c) PROVE ResultFits'
  BY <1>43, FitsFrame DEF ToolUpdates, NotifyOf, stateVars, queueVars, loopVars, runVars, InBatch
<1>44. ASSUME NEW c \in Calls, UpdateRejected(c) PROVE ResultFits'
  BY <1>44, FitsFrame DEF UpdateRejected, NotifyOf, stateVars, queueVars, loopVars, runVars, InBatch
<1>45. CASE UNCHANGED vars
  BY <1>45, FitsFrame DEF vars, stateVars, loopVars, batchVars, runVars, InBatch
<1> QED
  BY <1>1, <1>2, <1>3, <1>4, <1>5, <1>6, <1>7, <1>8, <1>9, <1>10, <1>11, <1>12, <1>13, <1>14, <1>15,
     <1>16, <1>17, <1>18, <1>19, <1>20, <1>21, <1>22, <1>23, <1>24, <1>25, <1>26, <1>27, <1>28,
     <1>29, <1>30, <1>31, <1>32, <1>33, <1>34, <1>35, <1>36, <1>37, <1>38, <1>39, <1>40, <1>41,
     <1>42, <1>43, <1>44, <1>45 DEF Next, UserStep, LoopStep, ToolStep

\* A tool result joins the transcript right behind its reply or the result before it.
LEMMA OrderStep == TypeInv /\ Ages /\ ResultsFollow /\ ResultFits /\ ResultsInSourceOrder /\ [Next]_vars => ResultsInSourceOrder'
<1> SUFFICES ASSUME TypeInv, Ages, ResultsFollow, ResultFits, ResultsInSourceOrder, [Next]_vars PROVE ResultsInSourceOrder'
  OBVIOUS
<1>1. ASSUME NEW q \in Queues, Enqueue(q) PROVE ResultsInSourceOrder'
  BY <1>1, OrderFrame DEF Enqueue, stateVars, loopVars, batchVars, runVars
<1>2. ASSUME NEW q \in Queues, ClearQueue(q) PROVE ResultsInSourceOrder'
  BY <1>2, OrderFrame DEF ClearQueue, stateVars, loopVars, batchVars, runVars
<1>3. ASSUME NEW q \in Queues, SetQueueMode(q) PROVE ResultsInSourceOrder'
  BY <1>3, OrderFrame DEF SetQueueMode, stateVars, loopVars, batchVars, runVars
<1>4. ASSUME NEW q \in Queues, ContinueFromQueue(q) PROVE ResultsInSourceOrder'
  BY <1>4, OrderFrame DEF ContinueFromQueue, StartRun, batchVars, Drain
<1>5. CASE Abort
  BY <1>5, OrderFrame DEF Abort, queueVars, loopVars, batchVars, runVars
<1>6. CASE Reset
  BY <1>6, OrderFrame DEF Reset, loopVars, batchVars
<1>7. CASE Prompt
  BY <1>7, OrderFrame DEF Prompt, StartRun, batchVars
<1>8. CASE ContinueFromTranscript
  BY <1>8, OrderFrame DEF ContinueFromTranscript, StartRun, batchVars, queueVars
<1>9. CASE DropFailedReply
  BY <1>9, OrderFrame DEF DropFailedReply, queueVars, loopVars, batchVars, runVars
<1>10. CASE AgentStartSettles
  BY <1>10, OrderFrame DEF AgentStartSettles, Notify, stateVars, queueVars, loopVars, batchVars,
     runVars
<1>11. CASE FirstTurnStartSettles
  BY <1>11, OrderFrame DEF FirstTurnStartSettles, DeliverOr, MessageStart, Notify, queueVars,
     batchVars, runVars
<1>12. CASE MessageStartSettles
  <2>1. pc = "msg_start" /\ UNCHANGED resets /\ messages' = Append(messages, Head(outbox))
    BY <1>12 DEF MessageStartSettles, MessageEnd
  <2>2. CASE stage # "results"
    <3>1. Head(outbox) \in UserMessage
      BY <2>1, <2>2, Parts, SeqFacts DEF Ages
    <3> QED BY <2>1, <3>1, Kinds, OrderAppend
  <2>3. CASE stage = "results"
    <3>1. Head(outbox) = ToolResult(<<turn, Len(results) + 1>>) /\ EndsBefore(Len(results) + 1)
      BY <2>1, <2>3, NextResult
    <3>2. Head(outbox).call[1] = turn /\ Head(outbox).call[2] = Len(results) + 1
      BY <3>1 DEF ToolResult
    <3> QED BY <2>1, <3>1, <3>2, OrderAppend
  <2> QED BY <2>2, <2>3
<1>13. CASE PromptDelivered
  BY <1>13, OrderFrame DEF PromptDelivered, DeliverOr, MessageStart, Notify, queueVars, batchVars,
     runVars
<1>14. CASE PendingDelivered
  BY <1>14, OrderFrame DEF PendingDelivered, DeliverOr, MessageStart, Notify, queueVars, batchVars,
     runVars
<1>15. CASE ResultDelivered
  BY <1>15, OrderFrame DEF ResultDelivered, DeliverOr, MessageStart, Notify, CallsToGo, StartCall,
     EndTurn, queueVars, runVars
<1>16. CASE PollInitial
  BY <1>16, OrderFrame DEF PollInitial, DeliverOr, MessageStart, Notify, queueVars, Drain,
     batchVars, runVars
<1>17. CASE PollSteering
  BY <1>17, OrderFrame DEF PollSteering, Drain, NextTurn, Notify, batchVars, runVars
<1>18. CASE PollFollowUp
  BY <1>18, OrderFrame DEF PollFollowUp, Drain, NextTurn, Notify, AgentEnd, batchVars, runVars
<1>19. CASE TurnStartSettles
  BY <1>19, OrderFrame DEF TurnStartSettles, DeliverOr, MessageStart, Notify, queueVars, batchVars,
     runVars
<1>20. CASE SendRequest
  BY <1>20, OrderFrame DEF SendRequest, stateVars, queueVars, loopVars, batchVars
<1>21. CASE StreamStarts
  BY <1>21, OrderFrame DEF StreamStarts, MessageStart, Notify, queueVars, batchVars, runVars
<1>22. CASE StreamEnds
  <2>1. PICK answer \in Answers : messages' \in {messages, Append(messages, answer)} /\ UNCHANGED resets
    BY <1>22 DEF StreamEnds, MessageEnd
  <2>2. answer.role = "assistant"
    BY DEF Answers
  <2> QED BY <2>1, <2>2, OrderAppend, OrderFrame
<1>23. CASE ReplyStartSettles
  <2>1. pc = "reply_start" /\ messages' = Append(messages, reply) /\ UNCHANGED resets
    BY <1>23 DEF ReplyStartSettles, MessageEnd
  <2>2. reply.role = "assistant"
    BY <2>1, Parts DEF AssistantMessage
  <2> QED BY <2>1, <2>2, OrderAppend
<1>24. CASE ReplyFailed
  BY <1>24, OrderFrame DEF ReplyFailed, Notify, stateVars, queueVars, loopVars, batchVars
<1>25. CASE ReplyWithoutCalls
  BY <1>25, OrderFrame DEF ReplyWithoutCalls, EndTurn, Notify, stateVars, queueVars, batchVars,
     runVars
<1>26. CASE ReplyWithCalls
  BY <1>26, OrderFrame DEF ReplyWithCalls, StartCall, Notify, queueVars, loopVars, runVars
<1>27. CASE ToolPrepared
  BY <1>27, OrderFrame DEF ToolPrepared, Launch, Call, NextCall, CallsToGo, StartCall, Notify,
     queueVars, loopVars, runVars
<1>28. CASE ToolRefused
  BY <1>28, OrderFrame DEF ToolRefused, Call, Notify, queueVars, loopVars, runVars
<1>29. CASE RefusalSettles
  BY <1>29, OrderFrame DEF RefusalSettles, Launch, Call, NextCall, CallsToGo, StartCall, Notify,
     queueVars, loopVars, runVars
<1>30. CASE BatchSettled
  BY <1>30, OrderFrame DEF BatchSettled, DeliverOr, MessageStart, Notify, Call, queueVars,
     batchVars, runVars
<1>31. CASE TurnEndSettles
  BY <1>31, OrderFrame DEF TurnEndSettles, stateVars, queueVars, loopVars, batchVars, runVars
<1>32. CASE FinalTurnEndSettles
  BY <1>32, OrderFrame DEF FinalTurnEndSettles, AgentEnd, queueVars, loopVars, batchVars, runVars
<1>33. CASE AgentEndSettles
  BY <1>33, OrderFrame DEF AgentEndSettles, FinishRun, queueVars, batchVars, runVars
<1>34. CASE FailureStartSettles
  <2>1. pc = "failure_start" /\ messages' = Append(messages, reply) /\ UNCHANGED resets
    BY <1>34 DEF FailureStartSettles, MessageEnd
  <2>2. reply.role = "assistant"
    BY <2>1, Parts DEF AssistantMessage
  <2> QED BY <2>1, <2>2, OrderAppend
<1>35. CASE FailureEndSettles
  BY <1>35, OrderFrame DEF FailureEndSettles, Notify, stateVars, queueVars, loopVars, batchVars
<1>36. CASE FailureTurnEndSettles
  BY <1>36, OrderFrame DEF FailureTurnEndSettles, AgentEnd, queueVars, loopVars, batchVars, runVars
<1>37. CASE FailureAgentEndSettles
  BY <1>37, OrderFrame DEF FailureAgentEndSettles, FinishRun, queueVars, batchVars, runVars
<1>38. CASE RunRejects
  BY <1>38, OrderFrame DEF RunRejects, AwaitsListeners, AwaitsHook, FailRun, MessageStart, Notify,
     queueVars, batchVars, runVars
<1>39. CASE FailureRejects
  BY <1>39, OrderFrame DEF FailureRejects, FinishRun, queueVars, batchVars, runVars
<1>40. ASSUME NEW c \in Calls, ToolExecuted(c) PROVE ResultsInSourceOrder'
  BY <1>40, OrderFrame DEF ToolExecuted, NotifyOf, queueVars, loopVars, runVars
<1>41. ASSUME NEW c \in Calls, ToolEndSettles(c) PROVE ResultsInSourceOrder'
  BY <1>41, OrderFrame DEF ToolEndSettles, stateVars, queueVars, loopVars, runVars
<1>42. ASSUME NEW c \in Calls, ToolRejects(c) PROVE ResultsInSourceOrder'
  BY <1>42, OrderFrame DEF ToolRejects, Awaited, FailRun, MessageStart, Notify, queueVars, runVars
<1>43. ASSUME NEW c \in Calls, ToolUpdates(c) PROVE ResultsInSourceOrder'
  BY <1>43, OrderFrame DEF ToolUpdates, NotifyOf, stateVars, queueVars, loopVars, runVars
<1>44. ASSUME NEW c \in Calls, UpdateRejected(c) PROVE ResultsInSourceOrder'
  BY <1>44, OrderFrame DEF UpdateRejected, NotifyOf, stateVars, queueVars, loopVars, runVars
<1>45. CASE UNCHANGED vars
  BY <1>45, OrderFrame DEF vars, stateVars
<1> QED
  BY <1>1, <1>2, <1>3, <1>4, <1>5, <1>6, <1>7, <1>8, <1>9, <1>10, <1>11, <1>12, <1>13, <1>14, <1>15,
     <1>16, <1>17, <1>18, <1>19, <1>20, <1>21, <1>22, <1>23, <1>24, <1>25, <1>26, <1>27, <1>28,
     <1>29, <1>30, <1>31, <1>32, <1>33, <1>34, <1>35, <1>36, <1>37, <1>38, <1>39, <1>40, <1>41,
     <1>42, <1>43, <1>44, <1>45 DEF Next, UserStep, LoopStep, ToolStep

\* Where the run waits for the listeners of agent_end, it has emitted it.
EndTold == pc \in {"agent_end", "failure_agent_end"} => ended

\* agent_end is emitted before the run waits for its listeners.
LEMMA ToldStep == TypeInv /\ EndTold /\ [Next]_vars => EndTold'
<1> SUFFICES ASSUME TypeInv, EndTold, [Next]_vars PROVE EndTold'
  OBVIOUS
<1> USE DEF EndTold
<1>1. ASSUME NEW q \in Queues, Enqueue(q) PROVE EndTold'
  BY <1>1 DEF Enqueue, stateVars, loopVars, batchVars, runVars
<1>2. ASSUME NEW q \in Queues, ClearQueue(q) PROVE EndTold'
  BY <1>2 DEF ClearQueue, stateVars, loopVars, batchVars, runVars
<1>3. ASSUME NEW q \in Queues, SetQueueMode(q) PROVE EndTold'
  BY <1>3 DEF SetQueueMode, stateVars, loopVars, batchVars, runVars
<1>4. ASSUME NEW q \in Queues, ContinueFromQueue(q) PROVE EndTold'
  BY <1>4 DEF ContinueFromQueue, StartRun, batchVars, Drain
<1>5. CASE Abort
  BY <1>5 DEF Abort, queueVars, loopVars, batchVars, runVars
<1>6. CASE Reset
  BY <1>6 DEF Reset, loopVars, batchVars
<1>7. CASE Prompt
  BY <1>7 DEF Prompt, StartRun, batchVars
<1>8. CASE ContinueFromTranscript
  BY <1>8 DEF ContinueFromTranscript, StartRun, batchVars, queueVars
<1>9. CASE DropFailedReply
  BY <1>9 DEF DropFailedReply, queueVars, loopVars, batchVars, runVars
<1>10. CASE AgentStartSettles
  BY <1>10 DEF AgentStartSettles, Notify, stateVars, queueVars, loopVars, batchVars, runVars
<1>11. CASE FirstTurnStartSettles
  BY <1>11 DEF FirstTurnStartSettles, DeliverOr, MessageStart, Notify, queueVars, batchVars, runVars
<1>12. CASE MessageStartSettles
  BY <1>12 DEF MessageStartSettles, MessageEnd, Notify, queueVars, loopVars, batchVars, runVars
<1>13. CASE PromptDelivered
  BY <1>13 DEF PromptDelivered, DeliverOr, MessageStart, Notify, queueVars, batchVars, runVars
<1>14. CASE PendingDelivered
  BY <1>14 DEF PendingDelivered, DeliverOr, MessageStart, Notify, queueVars, batchVars, runVars
<1>15. CASE ResultDelivered
  BY <1>15 DEF ResultDelivered, DeliverOr, MessageStart, Notify, CallsToGo, StartCall, EndTurn,
     queueVars, runVars
<1>16. CASE PollInitial
  BY <1>16 DEF PollInitial, DeliverOr, MessageStart, Notify, queueVars, Drain, batchVars, runVars
<1>17. CASE PollSteering
  BY <1>17 DEF PollSteering, Drain, NextTurn, Notify, batchVars, runVars
<1>18. CASE PollFollowUp
  BY <1>18 DEF PollFollowUp, Drain, NextTurn, Notify, AgentEnd, batchVars, runVars
<1>19. CASE TurnStartSettles
  BY <1>19 DEF TurnStartSettles, DeliverOr, MessageStart, Notify, queueVars, batchVars, runVars
<1>20. CASE SendRequest
  BY <1>20 DEF SendRequest, stateVars, queueVars, loopVars, batchVars
<1>21. CASE StreamStarts
  BY <1>21 DEF StreamStarts, MessageStart, Notify, queueVars, batchVars, runVars
<1>22. CASE StreamEnds
  BY <1>22 DEF StreamEnds, MessageEnd, Notify, MessageStart, queueVars, batchVars, runVars
<1>23. CASE ReplyStartSettles
  BY <1>23 DEF ReplyStartSettles, MessageEnd, Notify, queueVars, loopVars, batchVars, runVars
<1>24. CASE ReplyFailed
  BY <1>24 DEF ReplyFailed, Notify, stateVars, queueVars, loopVars, batchVars
<1>25. CASE ReplyWithoutCalls
  BY <1>25 DEF ReplyWithoutCalls, EndTurn, Notify, stateVars, queueVars, batchVars, runVars
<1>26. CASE ReplyWithCalls
  BY <1>26 DEF ReplyWithCalls, StartCall, Notify, queueVars, loopVars, runVars
<1>27. CASE ToolPrepared
  BY <1>27 DEF ToolPrepared, Launch, Call, NextCall, CallsToGo, StartCall, Notify, queueVars,
     loopVars, runVars
<1>28. CASE ToolRefused
  BY <1>28 DEF ToolRefused, Call, Notify, queueVars, loopVars, runVars
<1>29. CASE RefusalSettles
  BY <1>29 DEF RefusalSettles, Launch, Call, NextCall, CallsToGo, StartCall, Notify, queueVars,
     loopVars, runVars
<1>30. CASE BatchSettled
  BY <1>30 DEF BatchSettled, DeliverOr, MessageStart, Notify, Call, queueVars, batchVars, runVars
<1>31. CASE TurnEndSettles
  BY <1>31 DEF TurnEndSettles, stateVars, queueVars, loopVars, batchVars, runVars
<1>32. CASE FinalTurnEndSettles
  BY <1>32 DEF FinalTurnEndSettles, AgentEnd, queueVars, loopVars, batchVars, runVars
<1>33. CASE AgentEndSettles
  BY <1>33 DEF AgentEndSettles, FinishRun, queueVars, batchVars, runVars
<1>34. CASE FailureStartSettles
  BY <1>34 DEF FailureStartSettles, MessageEnd, Notify, queueVars, loopVars, batchVars, runVars
<1>35. CASE FailureEndSettles
  BY <1>35 DEF FailureEndSettles, Notify, stateVars, queueVars, loopVars, batchVars
<1>36. CASE FailureTurnEndSettles
  BY <1>36 DEF FailureTurnEndSettles, AgentEnd, queueVars, loopVars, batchVars, runVars
<1>37. CASE FailureAgentEndSettles
  BY <1>37 DEF FailureAgentEndSettles, FinishRun, queueVars, batchVars, runVars
<1>38. CASE RunRejects
  BY <1>38 DEF RunRejects, AwaitsListeners, AwaitsHook, FailRun, MessageStart, Notify, queueVars,
     batchVars, runVars
<1>39. CASE FailureRejects
  BY <1>39 DEF FailureRejects, FinishRun, queueVars, batchVars, runVars
<1>40. ASSUME NEW c \in Calls, ToolExecuted(c) PROVE EndTold'
  BY <1>40 DEF ToolExecuted, NotifyOf, queueVars, loopVars, runVars
<1>41. ASSUME NEW c \in Calls, ToolEndSettles(c) PROVE EndTold'
  BY <1>41 DEF ToolEndSettles, stateVars, queueVars, loopVars, runVars
<1>42. ASSUME NEW c \in Calls, ToolRejects(c) PROVE EndTold'
  BY <1>42 DEF ToolRejects, Awaited, FailRun, MessageStart, Notify, queueVars, runVars
<1>43. ASSUME NEW c \in Calls, ToolUpdates(c) PROVE EndTold'
  BY <1>43 DEF ToolUpdates, NotifyOf, stateVars, queueVars, loopVars, runVars
<1>44. ASSUME NEW c \in Calls, UpdateRejected(c) PROVE EndTold'
  BY <1>44 DEF UpdateRejected, NotifyOf, stateVars, queueVars, loopVars, runVars
<1>45. CASE UNCHANGED vars
  BY <1>45 DEF vars, stateVars, queueVars, loopVars, batchVars, runVars
<1> QED
  BY <1>1, <1>2, <1>3, <1>4, <1>5, <1>6, <1>7, <1>8, <1>9, <1>10, <1>11, <1>12, <1>13, <1>14, <1>15,
     <1>16, <1>17, <1>18, <1>19, <1>20, <1>21, <1>22, <1>23, <1>24, <1>25, <1>26, <1>27, <1>28,
     <1>29, <1>30, <1>31, <1>32, <1>33, <1>34, <1>35, <1>36, <1>37, <1>38, <1>39, <1>40, <1>41,
     <1>42, <1>43, <1>44, <1>45 DEF Next, UserStep, LoopStep, ToolStep

\* The inductive invariant of the loop: types and awaits, the two copies of the messages, what the
\* calls of a batch have come to, and what is known of the transcript's last messages.
Inv == /\ CopiesInv
       /\ TasksFollow /\ PendingFollows /\ Counted /\ Quiet /\ EndTold
       /\ Ages /\ ResultsFollow /\ ContextAnswered /\ ResultFits /\ ResultsInSourceOrder

\* The loop starts outside any batch, with nothing to answer.
LEMMA InitInv == Init => Inv
<1> SUFFICES ASSUME Init PROVE Inv
  OBVIOUS
<1>1. CopiesInv
  BY InitType, InitCopies DEF CopiesInv, TypeInv
<1>2. TasksFollow /\ PendingFollows
  BY DEF Init, TasksFollow, CallFollows, PendingFollows
<1>3. Counted
  BY DEF Init, Counted, Replying, InBatch
<1>4. Quiet /\ EndTold
  BY DEF Init, Quiet, Calm, Attended, Failing, EndTold
<1>5. Ages
  BY NoMessages DEF Init, Ages, InBatch
<1>6. ResultsFollow /\ ContextAnswered /\ ResultFits
  BY DEF Init, ResultsFollow, ContextAnswered, ResultFits, InBatch
<1>7. ResultsInSourceOrder
  BY DEF Init, ResultsInSourceOrder
<1> QED BY <1>1, <1>2, <1>3, <1>4, <1>5, <1>6, <1>7 DEF Inv

\* Every step keeps every part of it.
LEMMA InvStep == Inv /\ [Next]_vars => Inv'
<1> SUFFICES ASSUME Inv, [Next]_vars PROVE Inv'
  OBVIOUS
<1>1. /\ TypeInv /\ CopiesAgree /\ TasksFollow /\ PendingFollows /\ Counted /\ Quiet /\ EndTold
      /\ Ages /\ ResultsFollow /\ ContextAnswered /\ ResultFits /\ ResultsInSourceOrder
  BY DEF Inv, CopiesInv
<1>2. CopiesInv'
  BY <1>1, TypeStep, CopiesStep DEF CopiesInv
<1>3. TasksFollow' /\ PendingFollows'
  BY <1>1, TasksStep, PendingStep
<1>4. Counted' /\ Quiet' /\ EndTold'
  BY <1>1, CountedStep, QuietStep, ToldStep
<1>5. Ages' /\ ResultsFollow' /\ ContextAnswered'
  BY <1>1, AgesStep, ResultsStep, AnsweredStep
<1>6. ResultFits' /\ ResultsInSourceOrder'
  BY <1>1, FitsStep, OrderStep
<1> QED BY <1>2, <1>3, <1>4, <1>5, <1>6 DEF Inv

\* Inv holds in every reachable state.
LEMMA Invariance == Spec => []Inv
<1> QED BY InitInv, InvStep, PTL DEF Spec

\* Only finishRun clears activeRun: behind agent_end, or when a listener rejects one of the
\* events of the run's failure.
LEMMA EndsTold == Inv /\ [Next]_vars => (activeRun # "none" /\ activeRun' = "none" => ended \/ FailureIsRejected)
<1> SUFFICES ASSUME Inv, [Next]_vars, activeRun # "none", activeRun' = "none" PROVE ended \/ FailureIsRejected
  OBVIOUS
<1>1. ASSUME NEW q \in Queues, Enqueue(q) PROVE ended \/ FailureIsRejected
  BY <1>1 DEF Enqueue, stateVars
<1>2. ASSUME NEW q \in Queues, ClearQueue(q) PROVE ended \/ FailureIsRejected
  BY <1>2 DEF ClearQueue, stateVars
<1>3. ASSUME NEW q \in Queues, SetQueueMode(q) PROVE ended \/ FailureIsRejected
  BY <1>3 DEF SetQueueMode, stateVars
<1>4. ASSUME NEW q \in Queues, ContinueFromQueue(q) PROVE ended \/ FailureIsRejected
  BY <1>4 DEF ContinueFromQueue, StartRun
<1>5. CASE Abort
  BY <1>5 DEF Abort
<1>6. CASE Reset
  BY <1>6 DEF Reset
<1>7. CASE Prompt
  BY <1>7 DEF Prompt, StartRun
<1>8. CASE ContinueFromTranscript
  BY <1>8 DEF ContinueFromTranscript, StartRun
<1>9. CASE DropFailedReply
  BY <1>9 DEF DropFailedReply
<1>10. CASE AgentStartSettles
  BY <1>10 DEF AgentStartSettles, stateVars
<1>11. CASE FirstTurnStartSettles
  BY <1>11 DEF FirstTurnStartSettles
<1>12. CASE MessageStartSettles
  BY <1>12 DEF MessageStartSettles
<1>13. CASE PromptDelivered
  BY <1>13 DEF PromptDelivered
<1>14. CASE PendingDelivered
  BY <1>14 DEF PendingDelivered
<1>15. CASE ResultDelivered
  BY <1>15 DEF ResultDelivered
<1>16. CASE PollInitial
  BY <1>16 DEF PollInitial
<1>17. CASE PollSteering
  BY <1>17 DEF PollSteering
<1>18. CASE PollFollowUp
  BY <1>18 DEF PollFollowUp
<1>19. CASE TurnStartSettles
  BY <1>19 DEF TurnStartSettles
<1>20. CASE SendRequest
  BY <1>20 DEF SendRequest, stateVars
<1>21. CASE StreamStarts
  BY <1>21 DEF StreamStarts
<1>22. CASE StreamEnds
  BY <1>22 DEF StreamEnds
<1>23. CASE ReplyStartSettles
  BY <1>23 DEF ReplyStartSettles
<1>24. CASE ReplyFailed
  BY <1>24 DEF ReplyFailed, stateVars
<1>25. CASE ReplyWithoutCalls
  BY <1>25 DEF ReplyWithoutCalls, stateVars
<1>26. CASE ReplyWithCalls
  BY <1>26 DEF ReplyWithCalls
<1>27. CASE ToolPrepared
  BY <1>27 DEF ToolPrepared
<1>28. CASE ToolRefused
  BY <1>28 DEF ToolRefused
<1>29. CASE RefusalSettles
  BY <1>29 DEF RefusalSettles
<1>30. CASE BatchSettled
  BY <1>30 DEF BatchSettled
<1>31. CASE TurnEndSettles
  BY <1>31 DEF TurnEndSettles, stateVars
<1>32. CASE FinalTurnEndSettles
  BY <1>32 DEF FinalTurnEndSettles
<1>33. CASE AgentEndSettles
  BY <1>33 DEF AgentEndSettles, Inv, EndTold
<1>34. CASE FailureStartSettles
  BY <1>34 DEF FailureStartSettles
<1>35. CASE FailureEndSettles
  BY <1>35 DEF FailureEndSettles, stateVars
<1>36. CASE FailureTurnEndSettles
  BY <1>36 DEF FailureTurnEndSettles
<1>37. CASE FailureAgentEndSettles
  BY <1>37 DEF FailureAgentEndSettles, Inv, EndTold
<1>38. CASE RunRejects
  BY <1>38 DEF RunRejects
<1>39. CASE FailureRejects
  BY <1>39 DEF FailureRejects, FailureIsRejected
<1>40. ASSUME NEW c \in Calls, ToolExecuted(c) PROVE ended \/ FailureIsRejected
  BY <1>40 DEF ToolExecuted
<1>41. ASSUME NEW c \in Calls, ToolEndSettles(c) PROVE ended \/ FailureIsRejected
  BY <1>41 DEF ToolEndSettles, stateVars
<1>42. ASSUME NEW c \in Calls, ToolRejects(c) PROVE ended \/ FailureIsRejected
  BY <1>42 DEF ToolRejects
<1>43. ASSUME NEW c \in Calls, ToolUpdates(c) PROVE ended \/ FailureIsRejected
  BY <1>43 DEF ToolUpdates, stateVars
<1>44. ASSUME NEW c \in Calls, UpdateRejected(c) PROVE ended \/ FailureIsRejected
  BY <1>44 DEF UpdateRejected, stateVars
<1>45. CASE UNCHANGED vars
  BY <1>45 DEF vars, stateVars
<1> QED
  BY <1>1, <1>2, <1>3, <1>4, <1>5, <1>6, <1>7, <1>8, <1>9, <1>10, <1>11, <1>12, <1>13, <1>14, <1>15,
     <1>16, <1>17, <1>18, <1>19, <1>20, <1>21, <1>22, <1>23, <1>24, <1>25, <1>26, <1>27, <1>28,
     <1>29, <1>30, <1>31, <1>32, <1>33, <1>34, <1>35, <1>36, <1>37, <1>38, <1>39, <1>40, <1>41,
     <1>42, <1>43, <1>44, <1>45 DEF Next, UserStep, LoopStep, ToolStep

\* Parallel tools end in any order, and calls are refused, aborted or rejected: the transcript still
\* holds every result right behind its reply or the result of the call before it.
THEOREM OrderOfResults == Spec => []ResultsInSourceOrder
<1>1. Inv => ResultsInSourceOrder
  BY DEF Inv
<1> QED BY <1>1, Invariance, PTL

\* A run that nobody aborted asks the model again only when every call it made is answered: the
\* providers refuse a request whose tool calls have no result.
THEOREM RequestsArePaired == Spec => []RequestIsPaired
<1>1. Inv => RequestIsPaired
  <2> SUFFICES ASSUME Inv, pc = "request", activeRun = "live"
               PROVE  \A i \in DOMAIN context :
                        context[i].role = "assistant" /\ context[i].turn > base /\ ~Failed(context[i]) =>
                          \A j \in 1..context[i].calls :
                            i + j <= Len(context) /\ context[i+j] = ToolResult(<<context[i].turn, j>>)
    BY DEF RequestIsPaired
  <2>1. Answered(context, base)
    BY DEF Inv, ContextAnswered, Dealing, InBatch
  <2>2. DOMAIN context = 1..Len(context)
    BY Parts DEF Inv, CopiesInv
  <2> QED BY <2>1, <2>2 DEF Answered
<1> QED BY <1>1, Invariance, PTL

\* However a batch was cut short - a call refused, an abort between two calls, a rejection - no call
\* is left pending in the state the user sees when its turn ends.
THEOREM NoCallLeftPending == Spec => []NoCallPendingAtTurnEnd
<1>1. Inv => NoCallPendingAtTurnEnd
  <2> SUFFICES ASSUME Inv, pc \in {"turn_end", "request", "stream"}, NEW c \in pendingToolCalls PROVE FALSE
    BY DEF NoCallPendingAtTurnEnd
  <2>1. ShownRightly(c)
    BY DEF Inv, PendingFollows
  <2> QED BY <2>1 DEF ShownRightly, InBatch, Failing
<1> QED BY <1>1, Invariance, PTL

\* While nothing rejects, no event of a run follows its agent_end, and none of its tools reports later.
THEOREM NothingAfterAgentEnd == Spec => []AgentEndIsFinal
<1>1. Inv => AgentEndIsFinal
  BY DEF Inv, Quiet, Calm, AgentEndIsFinal
<1> QED BY <1>1, Invariance, PTL

\* finishRun is reached only behind agent_end, unless a listener of the failure's own events rejects.
THEOREM RunsEndTold == Spec => RunsEndWithAgentEnd
<1>1. Inv /\ [Next]_vars => [activeRun # "none" /\ activeRun' = "none" => ended \/ FailureIsRejected]_vars
  BY EndsTold
<1> QED BY <1>1, Invariance, PTL DEF Spec, RunsEndWithAgentEnd

(***************************************************************************)
(* Agent implements AgentMailbox, for every value of its constants.        *)
(***************************************************************************)
Sent(l) == [role : {"user"}, id : Msgs, via : {l}]
Holding == {"agent_start", "first_turn_start", "msg_start", "msg_end", "turn_start"}

\* What the run holds comes from one lane, and only around message events.
Picked ==
  /\ \A q \in Queues : queue[q] \in Seq(Sent(q))
  /\ stage # "results" => \E l \in Lanes : outbox \in Seq(Sent(l))
  /\ stage = "results" => outbox \in Seq(ToolResultMessage)
  /\ pc \notin Holding => outbox = <<>>
  /\ ended => pc \in {"agent_end", "idle"} \cup Failing

\* What a run holds is in its hand, but for a batch's results.
LEMMA HandFacts ==
  /\ OfUser(<<>>) = <<>>
  /\ \A box \in Seq(ToolResultMessage) : OfUser(box) = <<>>
  /\ \A l \in Lanes : \A box \in Seq(Sent(l)) : OfUser(box) = box
<1>1. OfUser(<<>>) = <<>>
  BY DEF OfUser
<1>2. ASSUME NEW box \in Seq(ToolResultMessage) PROVE OfUser(box) = <<>>
  <2>1. box # <<>> => Head(box) \in ToolResultMessage
    OBVIOUS
  <2> QED BY <2>1 DEF OfUser, ToolResultMessage
<1>3. ASSUME NEW l \in Lanes, NEW box \in Seq(Sent(l)) PROVE OfUser(box) = box
  <2>1. box # <<>> => Head(box) \in Sent(l)
    OBVIOUS
  <2> QED BY <2>1 DEF OfUser, Sent
<1> QED BY <1>1, <1>2, <1>3

\* What is picked up comes from one lane, step by step.
LEMMA PickedFrame ==
  ASSUME Picked,
         \A q \in Queues : queue'[q] \in Seq(Sent(q)),
         \/ UNCHANGED <<outbox, stage>>
         \/ outbox' = <<>>
         \/ outbox' = Tail(outbox) /\ outbox # <<>> /\ stage' = stage
         \/ stage' # "results" /\ \E l \in Lanes : outbox' \in Seq(Sent(l)),
         \/ pc' \in Holding
         \/ outbox' = <<>>
         \/ pc \notin Holding /\ outbox' = outbox,
         \/ ended' => pc' \in {"agent_end", "idle"} \cup Failing
         \/ ended' = ended /\ (pc' \in {"agent_end", "idle"} \cup Failing \/ pc \notin {"agent_end", "idle"} \cup Failing)
  PROVE  Picked'
<1>1. \A q \in Queues : queue'[q] \in Seq(Sent(q))
  OBVIOUS
<1>2. stage' # "results" => \E l \in Lanes : outbox' \in Seq(Sent(l))
  <2>1. "prompt" \in Lanes /\ <<>> \in Seq(Sent("prompt"))
    BY DEF Lanes
  <2>2. \A l \in Lanes : outbox \in Seq(Sent(l)) /\ outbox # <<>> => Tail(outbox) \in Seq(Sent(l))
    OBVIOUS
  <2> QED BY <2>1, <2>2 DEF Picked
<1>3. stage' = "results" => outbox' \in Seq(ToolResultMessage)
  <2>1. <<>> \in Seq(ToolResultMessage)
    OBVIOUS
  <2>2. outbox \in Seq(ToolResultMessage) /\ outbox # <<>> => Tail(outbox) \in Seq(ToolResultMessage)
    OBVIOUS
  <2> QED BY <2>1, <2>2 DEF Picked
<1>4. pc' \notin Holding => outbox' = <<>>
  BY DEF Picked
<1>5. ended' => pc' \in {"agent_end", "idle"} \cup Failing
  BY DEF Picked
<1> QED BY <1>1, <1>2, <1>3, <1>4, <1>5 DEF Picked

\* A queue's messages are of its lane, whether they are taken or left.
LEMMA DrainedLane ==
  ASSUME Picked, NEW q \in Queues
  PROVE  /\ Drained(q) \in Seq(Sent(q)) /\ Undrained(q) \in Seq(Sent(q))
         /\ Drained(q) \o Undrained(q) = queue[q]
<1>1. queue[q] \in Seq(Sent(q))
  BY DEF Picked
<1>2. CASE qmode[q] = "all" \/ queue[q] = <<>>
  BY <1>1, <1>2 DEF Drained, Undrained
<1>3. CASE ~(qmode[q] = "all" \/ queue[q] = <<>>)
  <2>1. Head(queue[q]) \in Sent(q) /\ Tail(queue[q]) \in Seq(Sent(q))
    BY <1>1, <1>3
  <2>2. <<Head(queue[q])>> \o Tail(queue[q]) = queue[q]
    BY <1>1, <1>3
  <2> QED BY <1>3, <2>1, <2>2 DEF Drained, Undrained
<1> QED BY <1>2, <1>3

LEMMA DrainLane ==
  ASSUME Picked, queue \in [Queues -> Seq(UserMessage)], NEW q \in Queues, Drain(q)
  PROVE  \A r \in Queues : queue'[r] \in Seq(Sent(r))
<1>1. \A r \in Queues : queue'[r] = IF r = q THEN Undrained(q) ELSE queue[r]
  BY DEF Drain
<1>2. Undrained(q) \in Seq(Sent(q)) /\ \A r \in Queues : queue[r] \in Seq(Sent(r))
  BY DrainedLane DEF Picked
<1> QED BY <1>1, <1>2

\* A batch of prompts is of the lane of prompts.
LEMMA PromptLane ==
  ASSUME unsent \subseteq Msgs, NEW batch \in Batches(unsent)
  PROVE  [i \in DOMAIN batch |-> User(batch[i], "prompt")] \in Seq(Sent("prompt"))
<1>1. PICK n \in 1..MaxPrompt : batch \in [1..n -> unsent]
  BY DEF Batches
<1>2. \A i \in 1..n : User(batch[i], "prompt") \in Sent("prompt")
  BY <1>1 DEF User, Sent
<1>3. n \in Nat /\ DOMAIN batch = 1..n
  BY <1>1
<1> QED BY <1>2, <1>3

\* What a run picks up, it picks up from one lane, and delivers before it goes on.
LEMMA PickedStep == TypeInv /\ Picked /\ [Next]_vars => Picked'
<1> SUFFICES ASSUME TypeInv, Picked, [Next]_vars PROVE Picked'
  OBVIOUS
<1>0. \A q \in Queues : queue[q] \in Seq(Sent(q))
  BY DEF Picked
<1>1. ASSUME NEW q \in Queues, Enqueue(q) PROVE Picked'
  <2>1. PICK m \in unsent : queue' = [queue EXCEPT ![q] = Append(queue[q], User(m, q))]
    BY <1>1 DEF Enqueue
  <2>2. User(m, q) \in Sent(q) /\ queue[q] \in Seq(Sent(q))
    BY <1>0, Parts DEF User, Sent
  <2>5. Append(queue[q], User(m, q)) \in Seq(Sent(q))
    BY <2>2
  <2>3. \A r \in Queues : queue'[r] \in Seq(Sent(r))
    <3>1. \A r \in Queues : queue'[r] = IF r = q THEN Append(queue[q], User(m, q)) ELSE queue[r]
      BY <2>1, Parts
    <3> QED BY <1>0, <2>5, <3>1
  <2>4. UNCHANGED <<outbox, stage, pc, ended>>
    BY <1>1 DEF Enqueue, loopVars
  <2> QED BY <2>3, <2>4, PickedFrame
<1>2. ASSUME NEW q \in Queues, ClearQueue(q) PROVE Picked'
  <2>1. queue' = [queue EXCEPT ![q] = <<>>] /\ UNCHANGED <<outbox, stage, pc, ended>>
    BY <1>2 DEF ClearQueue, loopVars
  <2>2. <<>> \in Seq(Sent(q))
    OBVIOUS
  <2>3. \A r \in Queues : queue'[r] \in Seq(Sent(r))
    BY <1>0, <2>1, <2>2, Parts
  <2> QED BY <2>1, <2>3, PickedFrame
<1>3. ASSUME NEW q \in Queues, SetQueueMode(q) PROVE Picked'
  BY <1>3, PickedFrame, <1>0 DEF SetQueueMode, stateVars, loopVars, batchVars, runVars, Holding,
     Failing
<1>4. ASSUME NEW q \in Queues, ContinueFromQueue(q) PROVE Picked'
  <2>1. \A r \in Queues : queue'[r] \in Seq(Sent(r))
    BY <1>4, DrainLane, Parts DEF ContinueFromQueue
  <2>2. q \in Lanes /\ Drained(q) \in Seq(Sent(q))
    BY DrainedLane DEF Queues, Lanes
  <2>3. outbox' = Drained(q) /\ stage' = "prompts" /\ pc' = "agent_start" /\ ended' = FALSE
    BY <1>4 DEF ContinueFromQueue, StartRun
  <2> QED BY <2>1, <2>2, <2>3, PickedFrame DEF Holding
<1>5. CASE Abort
  BY <1>5, PickedFrame, <1>0 DEF Abort, queueVars, loopVars, batchVars, runVars, Holding, Failing
<1>6. CASE Reset
  <2>1. queue' = [q \in Queues |-> <<>>] /\ UNCHANGED <<outbox, stage, pc, ended>>
    BY <1>6 DEF Reset, loopVars
  <2>2. \A r \in Queues : queue'[r] \in Seq(Sent(r))
    BY <2>1
  <2> QED BY <2>1, <2>2, PickedFrame
<1>7. CASE Prompt
  <2>1. PICK batch \in Batches(unsent) : StartRun([i \in DOMAIN batch |-> User(batch[i], "prompt")], FALSE)
    BY <1>7 DEF Prompt
  <2>2. [i \in DOMAIN batch |-> User(batch[i], "prompt")] \in Seq(Sent("prompt"))
    BY Parts, PromptLane
  <2>3. /\ outbox' = [i \in DOMAIN batch |-> User(batch[i], "prompt")]
        /\ stage' = "prompts" /\ pc' = "agent_start" /\ ended' = FALSE
    BY <2>1 DEF StartRun
  <2>4. queue' = queue
    BY <1>7 DEF Prompt
  <2> QED BY <1>0, <2>2, <2>3, <2>4, PickedFrame DEF Holding, Lanes
<1>8. CASE ContinueFromTranscript
  BY <1>8, PickedFrame, <1>0 DEF ContinueFromTranscript, StartRun, batchVars, queueVars, Holding,
     StartRun
<1>9. CASE DropFailedReply
  BY <1>9, PickedFrame, <1>0 DEF DropFailedReply, queueVars, loopVars, batchVars, runVars, Holding,
     Failing
<1>10. CASE AgentStartSettles
  BY <1>10, PickedFrame, <1>0 DEF AgentStartSettles, Notify, stateVars, queueVars, loopVars,
     batchVars, runVars, Holding, Failing
<1>11. CASE FirstTurnStartSettles
  BY <1>11, PickedFrame, <1>0 DEF FirstTurnStartSettles, DeliverOr, MessageStart, Notify, queueVars,
     batchVars, runVars, Holding, Failing
<1>12. CASE MessageStartSettles
  BY <1>12, PickedFrame, <1>0 DEF MessageStartSettles, MessageEnd, Notify, queueVars, loopVars,
     batchVars, runVars, Holding, Failing
<1>13. CASE PromptDelivered
  BY <1>13, PickedFrame, <1>0, Parts DEF PromptDelivered, DeliverOr, MessageStart, Notify,
     queueVars, batchVars, runVars, Holding, Failing
<1>14. CASE PendingDelivered
  BY <1>14, PickedFrame, <1>0, Parts DEF PendingDelivered, DeliverOr, MessageStart, Notify,
     queueVars, batchVars, runVars, Holding, Failing
<1>15. CASE ResultDelivered
  <2>1. /\ pc = "msg_end" /\ outbox # <<>> /\ UNCHANGED <<queue, ended, stage>>
        /\ \/ outbox' = Tail(outbox) /\ pc' = "msg_start"
           \/ outbox' = <<>> /\ pc' \in {"tool_start", "turn_end"}
    BY <1>15, Parts DEF ResultDelivered, DeliverOr, MessageStart, Notify, StartCall, EndTurn, queueVars
  <2> QED BY <1>0, <2>1, PickedFrame DEF Holding, Failing
<1>16. CASE PollInitial
  <2>1. \A r \in Queues : queue'[r] \in Seq(Sent(r))
    BY <1>16, <1>0, DrainLane, Parts DEF PollInitial, Queues, queueVars
  <2>2. "steer" \in Lanes /\ Drained("steer") \in Seq(Sent("steer"))
    BY DrainedLane DEF Queues, Lanes
  <2>3. \/ outbox' = Drained("steer") /\ stage' = "pending"
        \/ outbox' = <<>>
        \/ UNCHANGED <<outbox, stage>>
    BY <1>16 DEF PollInitial, DeliverOr, NextTurn
  <2>4. \/ pc' \in Holding /\ ended' = ended
        \/ outbox' = <<>> /\ pc' = "request" /\ ended' = ended
        \/ outbox' = outbox /\ pc' = "poll_follow_up" /\ ended' = ended
        \/ outbox' = outbox /\ pc' = "agent_end"
    BY <1>16 DEF PollInitial, DeliverOr, MessageStart, NextTurn, Notify, Holding
  <2>5. pc \notin Holding \cup {"agent_end", "idle"} \cup Failing
    BY <1>16 DEF PollInitial, Holding, Failing
  <2> QED BY <2>1, <2>2, <2>3, <2>4, <2>5, PickedFrame DEF Holding, Failing
<1>17. CASE PollSteering
  <2>1. \A r \in Queues : queue'[r] \in Seq(Sent(r))
    BY <1>17, <1>0, DrainLane, Parts DEF PollSteering, Queues, queueVars
  <2>2. "steer" \in Lanes /\ Drained("steer") \in Seq(Sent("steer"))
    BY DrainedLane DEF Queues, Lanes
  <2>3. \/ outbox' = Drained("steer") /\ stage' = "pending"
        \/ outbox' = <<>>
        \/ UNCHANGED <<outbox, stage>>
    BY <1>17 DEF PollSteering, DeliverOr, NextTurn
  <2>4. \/ pc' \in Holding /\ ended' = ended
        \/ outbox' = <<>> /\ pc' = "request" /\ ended' = ended
        \/ outbox' = outbox /\ pc' = "poll_follow_up" /\ ended' = ended
        \/ outbox' = outbox /\ pc' = "agent_end"
    BY <1>17 DEF PollSteering, DeliverOr, MessageStart, NextTurn, Notify, Holding
  <2>5. pc \notin Holding \cup {"agent_end", "idle"} \cup Failing
    BY <1>17 DEF PollSteering, Holding, Failing
  <2> QED BY <2>1, <2>2, <2>3, <2>4, <2>5, PickedFrame DEF Holding, Failing
<1>18. CASE PollFollowUp
  <2>1. \A r \in Queues : queue'[r] \in Seq(Sent(r))
    BY <1>18, <1>0, DrainLane, Parts DEF PollFollowUp, Queues, queueVars
  <2>2. "followUp" \in Lanes /\ Drained("followUp") \in Seq(Sent("followUp"))
    BY DrainedLane DEF Queues, Lanes
  <2>3. \/ outbox' = Drained("followUp") /\ stage' = "pending"
        \/ outbox' = <<>>
        \/ UNCHANGED <<outbox, stage>>
    BY <1>18 DEF PollFollowUp, DeliverOr, NextTurn
  <2>4. \/ pc' \in Holding /\ ended' = ended
        \/ outbox' = <<>> /\ pc' = "request" /\ ended' = ended
        \/ outbox' = outbox /\ pc' = "poll_follow_up" /\ ended' = ended
        \/ outbox' = outbox /\ pc' = "agent_end"
    BY <1>18 DEF PollFollowUp, DeliverOr, MessageStart, NextTurn, Notify, Holding
  <2>5. pc \notin Holding \cup {"agent_end", "idle"} \cup Failing
    BY <1>18 DEF PollFollowUp, Holding, Failing
  <2> QED BY <2>1, <2>2, <2>3, <2>4, <2>5, PickedFrame DEF Holding, Failing
<1>19. CASE TurnStartSettles
  BY <1>19, PickedFrame, <1>0 DEF TurnStartSettles, DeliverOr, MessageStart, Notify, queueVars,
     batchVars, runVars, Holding, Failing
<1>20. CASE SendRequest
  BY <1>20, PickedFrame, <1>0 DEF SendRequest, stateVars, queueVars, loopVars, batchVars, Holding,
     Failing
<1>21. CASE StreamStarts
  BY <1>21, PickedFrame, <1>0 DEF StreamStarts, MessageStart, Notify, queueVars, batchVars, runVars,
     Holding, Failing
<1>22. CASE StreamEnds
  BY <1>22, PickedFrame, <1>0 DEF StreamEnds, MessageEnd, Notify, MessageStart, queueVars,
     batchVars, runVars, Holding, Failing
<1>23. CASE ReplyStartSettles
  BY <1>23, PickedFrame, <1>0 DEF ReplyStartSettles, MessageEnd, Notify, queueVars, loopVars,
     batchVars, runVars, Holding, Failing
<1>24. CASE ReplyFailed
  BY <1>24, PickedFrame, <1>0 DEF ReplyFailed, Notify, stateVars, queueVars, loopVars, batchVars,
     Holding, Failing
<1>25. CASE ReplyWithoutCalls
  BY <1>25, PickedFrame, <1>0 DEF ReplyWithoutCalls, EndTurn, Notify, stateVars, queueVars,
     batchVars, runVars, Holding, Failing
<1>26. CASE ReplyWithCalls
  BY <1>26, PickedFrame, <1>0 DEF ReplyWithCalls, StartCall, Notify, queueVars, loopVars, runVars,
     Holding, Failing
<1>27. CASE ToolPrepared
  BY <1>27, PickedFrame, <1>0 DEF ToolPrepared, Launch, Call, NextCall, CallsToGo, StartCall,
     Notify, queueVars, loopVars, runVars, Holding, Failing
<1>28. CASE ToolRefused
  BY <1>28, PickedFrame, <1>0 DEF ToolRefused, Call, Notify, queueVars, loopVars, runVars, Holding,
     Failing
<1>29. CASE RefusalSettles
  BY <1>29, PickedFrame, <1>0 DEF RefusalSettles, Launch, Call, NextCall, CallsToGo, StartCall,
     Notify, queueVars, loopVars, runVars, Holding, Failing
<1>30. CASE BatchSettled
  <2>1. PICK box : /\ outbox' = box /\ stage' = "results" /\ UNCHANGED <<queue, ended>>
                   /\ \/ box = <<>> /\ pc' = "turn_end"
                      \/ pc' = "msg_start"
                   /\ \/ box = <<ToolResult(Call)>>
                      \/ box = [i \in 1..k |-> ToolResult(<<turn, i>>)]
                   /\ pc = "tools_running"
    BY <1>30 DEF BatchSettled, DeliverOr, MessageStart, Notify, queueVars
  <2>2. box \in Seq(ToolResultMessage)
    <3>1. InBatch /\ reply \in AssistantMessage /\ k \in 1..reply.calls /\ turn \in 1..MaxToolTurn
      BY <2>1 DEF InBatch, TypeInv, Parked
    <3>2. Call \in Calls /\ k \in Nat /\ \A i \in 1..k : <<turn, i>> \in Calls
      BY <3>1, CallAtHand, CallParts, BoundsAssumption DEF AssistantMessage
    <3>3. ToolResult(Call) \in ToolResultMessage /\ \A i \in 1..k : ToolResult(<<turn, i>>) \in ToolResultMessage
      BY <3>2, MessageTypes
    <3>4. <<ToolResult(Call)>> \in Seq(ToolResultMessage)
      BY <3>3
    <3>5. [i \in 1..k |-> ToolResult(<<turn, i>>)] \in Seq(ToolResultMessage)
      BY <3>2, <3>3
    <3> QED BY <2>1, <3>4, <3>5
  <2>3. ~ended /\ \A r \in Queues : queue'[r] \in Seq(Sent(r))
    BY <1>0, <2>1 DEF Picked, Failing
  <2> QED BY <2>1, <2>2, <2>3 DEF Picked, Holding
<1>31. CASE TurnEndSettles
  BY <1>31, PickedFrame, <1>0 DEF TurnEndSettles, stateVars, queueVars, loopVars, batchVars,
     runVars, Holding, Failing
<1>32. CASE FinalTurnEndSettles
  BY <1>32, PickedFrame, <1>0 DEF FinalTurnEndSettles, AgentEnd, queueVars, loopVars, batchVars,
     runVars, Holding, Failing
<1>33. CASE AgentEndSettles
  BY <1>33, PickedFrame, <1>0 DEF AgentEndSettles, FinishRun, queueVars, batchVars, runVars,
     Holding, Failing
<1>34. CASE FailureStartSettles
  BY <1>34, PickedFrame, <1>0 DEF FailureStartSettles, MessageEnd, Notify, queueVars, loopVars,
     batchVars, runVars, Holding, Failing
<1>35. CASE FailureEndSettles
  BY <1>35, PickedFrame, <1>0 DEF FailureEndSettles, Notify, stateVars, queueVars, loopVars,
     batchVars, Holding, Failing
<1>36. CASE FailureTurnEndSettles
  BY <1>36, PickedFrame, <1>0 DEF FailureTurnEndSettles, AgentEnd, queueVars, loopVars, batchVars,
     runVars, Holding, Failing
<1>37. CASE FailureAgentEndSettles
  BY <1>37, PickedFrame, <1>0 DEF FailureAgentEndSettles, FinishRun, queueVars, batchVars, runVars,
     Holding, Failing
<1>38. CASE RunRejects
  BY <1>38, PickedFrame, <1>0 DEF RunRejects, AwaitsListeners, AwaitsHook, FailRun, MessageStart,
     Notify, queueVars, batchVars, runVars, Holding, Failing
<1>39. CASE FailureRejects
  BY <1>39, PickedFrame, <1>0 DEF FailureRejects, FinishRun, queueVars, batchVars, runVars, Holding,
     Failing
<1>40. ASSUME NEW c \in Calls, ToolExecuted(c) PROVE Picked'
  BY <1>40, PickedFrame, <1>0 DEF ToolExecuted, NotifyOf, queueVars, loopVars, runVars, Holding,
     Failing
<1>41. ASSUME NEW c \in Calls, ToolEndSettles(c) PROVE Picked'
  BY <1>41, PickedFrame, <1>0 DEF ToolEndSettles, stateVars, queueVars, loopVars, runVars, Holding,
     Failing
<1>42. ASSUME NEW c \in Calls, ToolRejects(c) PROVE Picked'
  <2>1. UNCHANGED <<queue, stage>>
    BY <1>42 DEF ToolRejects, queueVars
  <2>2. (pc' = "failure_start" /\ outbox' = <<>>) \/ UNCHANGED <<pc, outbox, ended>>
    BY <1>42 DEF ToolRejects, FailRun
  <2> QED BY <1>0, <2>1, <2>2, PickedFrame DEF Failing
<1>43. ASSUME NEW c \in Calls, ToolUpdates(c) PROVE Picked'
  BY <1>43, PickedFrame, <1>0 DEF ToolUpdates, NotifyOf, stateVars, queueVars, loopVars, runVars,
     Holding, Failing
<1>44. ASSUME NEW c \in Calls, UpdateRejected(c) PROVE Picked'
  BY <1>44, PickedFrame, <1>0 DEF UpdateRejected, NotifyOf, stateVars, queueVars, loopVars, runVars,
     Holding, Failing
<1>45. CASE UNCHANGED vars
  BY <1>45, <1>0, PickedFrame DEF vars, stateVars, queueVars, loopVars
<1> QED
  BY <1>1, <1>2, <1>3, <1>4, <1>5, <1>6, <1>7, <1>8, <1>9, <1>10, <1>11, <1>12, <1>13, <1>14, <1>15,
     <1>16, <1>17, <1>18, <1>19, <1>20, <1>21, <1>22, <1>23, <1>24, <1>25, <1>26, <1>27, <1>28,
     <1>29, <1>30, <1>31, <1>32, <1>33, <1>34, <1>35, <1>36, <1>37, <1>38, <1>39, <1>40, <1>41,
     <1>42, <1>43, <1>44, <1>45 DEF Next, UserStep, LoopStep, ToolStep

\* Sequences that begin or end with another.
LEMMA PrefixOf ==
  ASSUME NEW S, NEW s \in Seq(S), NEW t \in Seq(S)
  PROVE  Mailbox!IsPrefix(s, s \o t)
<1>1. Len(s) \in Nat /\ Len(t) \in Nat /\ Len(s \o t) = Len(s) + Len(t)
  OBVIOUS
<1>2. SubSeq(s, 1, Len(s)) = s /\ SubSeq(s \o t, 1, Len(s)) = s
  OBVIOUS
<1> QED BY <1>1, <1>2 DEF Mailbox!IsPrefix

\* The steps of the promise, told by what the run has in hand and what waits.
LEMMA AsDeliver ==
  ASSUME Phase = "running", InHand # <<>>, messages' = Append(messages, Head(InHand)), InHand' = Tail(InHand),
         UNCHANGED <<Phase, queue, unsent, takenBack, faults>>
  PROVE  Mailbox!Deliver
  BY DEF Mailbox!Deliver

LEMMA AsSpeak ==
  ASSUME messages \in Seq(Message), NEW m \in Message, messages' = Append(messages, m), m.role # "user",
         Phase = "running" \/ (faults > 0 /\ Phase = "concluded"), InHand = <<>>,
         UNCHANGED <<Phase, queue, InHand, unsent, takenBack, faults>>
  PROVE  Mailbox!Speak
<1>1. Len(messages') = Len(messages) + 1 /\ messages'[Len(messages')] = m
  OBVIOUS
<1>2. messages' = messages \o <<m>> /\ <<m>> \in Seq(Message)
  OBVIOUS
<1>3. Mailbox!IsPrefix(messages, messages')
  BY <1>2, PrefixOf
<1> QED BY <1>1, <1>3 DEF Mailbox!Speak

LEMMA AsConclude ==
  ASSUME Phase = "running", Phase' = "concluded", InHand = <<>>,
         UNCHANGED <<queue, InHand, messages, unsent, takenBack, faults>>
  PROVE  Mailbox!Conclude
  BY DEF Mailbox!Conclude

LEMMA AsRetire ==
  ASSUME Phase = "concluded", Phase' = "idle", UNCHANGED <<queue, InHand, messages, unsent, takenBack, faults>>
  PROVE  Mailbox!Retire
  BY DEF Mailbox!Retire

LEMMA AsFail ==
  ASSUME faults' = faults + 1, Phase' \in {Phase, "idle"}, InHand' \in {InHand, <<>>},
         UNCHANGED <<queue, messages, unsent, takenBack>>
  PROVE  Mailbox!Fail
  BY DEF Mailbox!Fail

\* What a step of the run's is to the promise: one of its own, or none.
Kept == Mailbox!Next \/ UNCHANGED Mailbox!vars

\* A run that is not around a message event holds nothing.
LEMMA HandParts ==
  ASSUME TypeInv, Picked
  PROVE  /\ pc \notin Holding => Undelivered = <<>> /\ InHand = <<>>
         /\ stage = "results" => InHand = <<>>
         /\ stage # "results" => InHand = Undelivered
<1>1. pc = "msg_end" => outbox # <<>>
  BY Parts
<1>2. pc \notin Holding => Undelivered = <<>> /\ InHand = <<>>
  BY HandFacts DEF Picked, Undelivered, Holding, InHand
<1>3. ASSUME stage = "results" PROVE InHand = <<>>
  <2>1. Undelivered \in Seq(ToolResultMessage)
    BY <1>1, <1>3 DEF Picked, Undelivered
  <2> QED BY <2>1, HandFacts DEF InHand
<1>4. ASSUME stage # "results" PROVE InHand = Undelivered
  <2>1. PICK l \in Lanes : outbox \in Seq(Sent(l))
    BY <1>4 DEF Picked
  <2>2. Undelivered \in Seq(Sent(l))
    BY <1>1, <2>1 DEF Undelivered
  <2> QED BY <2>2, HandFacts DEF InHand
<1> QED BY <1>2, <1>3, <1>4

LEMMA Stutters ==
  ASSUME Undelivered' = Undelivered, UNCHANGED <<queue, unsent, takenBack>>,
         Phase' = Phase, messages' = messages, faults' = faults
  PROVE  Kept
  BY DEF Kept, Mailbox!vars, InHand

\* A drain moves the front of a lane to the run's hand, or finds nothing to move.
LEMMA DrainTakes ==
  ASSUME TypeInv, Picked, NEW q \in Queues, Undelivered = <<>>, Undelivered' = Drained(q), Drain(q)
  PROVE  /\ UNCHANGED <<unsent, takenBack>>
         /\ Drained(q) # <<>> => Mailbox!Takes(q)
         /\ Drained(q) = <<>> => UNCHANGED <<queue, InHand>>
<1>1. /\ Drained(q) \in Seq(Sent(q)) /\ Undrained(q) \in Seq(Sent(q))
      /\ Drained(q) \o Undrained(q) = queue[q] /\ q \in Lanes
  BY DrainedLane DEF Queues, Lanes
<1>2. queue' = [queue EXCEPT ![q] = Undrained(q)] /\ UNCHANGED <<unsent, takenBack>>
  BY DEF Drain
<1>3. queue \in [Queues -> Seq(UserMessage)]
  BY Parts
<1>4. queue'[q] = Undrained(q)
  BY <1>2, <1>3
<1>5. InHand = <<>> /\ InHand' = Drained(q)
  BY <1>1, HandFacts DEF InHand
<1>6. ASSUME Drained(q) # <<>> PROVE Mailbox!Takes(q)
  <2>1. queue[q] = InHand' \o queue'[q] /\ queue' = [queue EXCEPT ![q] = queue'[q]]
    BY <1>1, <1>2, <1>4, <1>5
  <2> QED BY <1>5, <1>6, <2>1 DEF Mailbox!Takes
<1>7. ASSUME Drained(q) = <<>> PROVE UNCHANGED <<queue, InHand>>
  <2>1. Undrained(q) = queue[q]
    BY <1>1, <1>7
  <2> QED BY <1>2, <1>3, <1>5, <1>7, <2>1
<1> QED BY <1>2, <1>6, <1>7

\* Rejections are counted.
LEMMA FaultsCounted == Inv => faults \in Nat /\ (faults = 0 \/ faults > 0)
  BY DEF Inv, CopiesInv, TypeInv, TypeOK, HistoryType

\* A poll of a queue is a pick-up, or does not show.
LEMMA DrainKept ==
  ASSUME TypeInv, Picked, NEW q \in Queues, Undelivered = <<>>, Undelivered' = Drained(q), Drain(q),
         Phase = "running", Phase' = Phase, messages' = messages, faults' = faults
  PROVE  Kept
<1>1. UNCHANGED <<unsent, takenBack>>
  BY DrainTakes
<1>2. CASE Drained(q) # <<>>
  <2>1. Mailbox!Takes(q)
    BY <1>2, DrainTakes
  <2>2. Mailbox!PickUp(q)
    BY <1>1, <2>1 DEF Mailbox!PickUp
  <2> QED BY <2>2 DEF Kept, Mailbox!Next, Mailbox!Queues, Queues
<1>3. CASE Drained(q) = <<>>
  <2>1. UNCHANGED <<queue, InHand>>
    BY <1>3, DrainTakes
  <2> QED BY <1>1, <2>1 DEF Kept, Mailbox!vars
<1> QED BY <1>2, <1>3

\* Every step of Agent is a step of the promise, or does not show in it.
LEMMA KeptStep == Inv /\ Picked /\ Picked' /\ [Next]_vars => Kept
<1> SUFFICES ASSUME Inv, Picked, Picked', [Next]_vars PROVE Kept
  OBVIOUS
<1> TypeInv
  BY DEF Inv, CopiesInv
<1>1. ASSUME NEW q \in Queues, Enqueue(q) PROVE Kept
  <2>1. PICK m \in unsent : queue' = [queue EXCEPT ![q] = Append(@, User(m, q))] /\ unsent' = unsent \ {m}
    BY <1>1 DEF Enqueue
  <2>2. UNCHANGED <<outbox, pc, activeRun, ended, messages, faults, takenBack>>
    BY <1>1 DEF Enqueue, loopVars, stateVars
  <2>3. unsent \subseteq Msgs
    BY Parts
  <2>4. m \in Msgs \ (Msgs \ unsent) /\ Msgs \ unsent' = (Msgs \ unsent) \cup {m}
    BY <2>1, <2>3
  <2>5. User(m, q) = [role |-> "user", id |-> m, via |-> q]
    BY DEF User
  <2>6. UNCHANGED <<Phase, InHand, messages, takenBack, faults>>
    BY <2>2 DEF Phase, InHand, Undelivered
  <2>7. Mailbox!Post(q)
    BY <2>1, <2>4, <2>5, <2>6 DEF Mailbox!Post
  <2> QED BY <2>7 DEF Kept, Mailbox!Next, Mailbox!Queues, Queues
<1>2. ASSUME NEW q \in Queues, ClearQueue(q) PROVE Kept
  <2>1. /\ queue' = [queue EXCEPT ![q] = <<>>] /\ takenBack' = takenBack \cup Range(queue[q])
        /\ UNCHANGED <<outbox, pc, activeRun, ended, messages, faults, unsent>>
    BY <1>2 DEF ClearQueue, loopVars, stateVars
  <2>2. Range(queue[q]) = Mailbox!ToSet(queue[q])
    BY Parts DEF Range, Mailbox!ToSet
  <2>3. UNCHANGED <<Phase, InHand, messages, Msgs \ unsent, faults>>
    BY <2>1 DEF Phase, InHand, Undelivered
  <2>4. Mailbox!Withdraw(q)
    BY <2>1, <2>2, <2>3 DEF Mailbox!Withdraw
  <2> QED BY <2>4 DEF Kept, Mailbox!Next, Mailbox!Queues, Queues
<1>3. ASSUME NEW q \in Queues, SetQueueMode(q) PROVE Kept
  <2>1. UNCHANGED <<queue, unsent, takenBack, messages, faults, activeRun, ended>> /\ outbox' = outbox /\ (pc = "msg_end" <=> pc' = "msg_end")
    BY <1>3 DEF SetQueueMode, stateVars, loopVars, batchVars, runVars, queueVars
  <2>2. Undelivered' = Undelivered /\ Phase' = Phase
    BY <2>1 DEF Undelivered, Phase
  <2> QED BY <2>1, <2>2, Stutters
<1>4. ASSUME NEW q \in Queues, ContinueFromQueue(q) PROVE Kept
  <2>1. /\ activeRun = "none" /\ pc' = "agent_start" /\ activeRun' = "live" /\ ended' = FALSE
        /\ outbox' = Drained(q) /\ UNCHANGED <<messages, faults>> /\ Drain(q) /\ queue[q] # <<>>
    BY <1>4 DEF ContinueFromQueue, StartRun
  <2>2. pc = "idle" /\ Undelivered = <<>> /\ Phase = "idle"
    BY <2>1, Parts, HandParts DEF Phase, Holding
  <2>3. Undelivered' = Drained(q) /\ Phase' = "running"
    BY <2>1 DEF Undelivered, Phase
  <2>4. Drained(q) # <<>>
    BY <2>1 DEF Drained
  <2>5. Mailbox!Takes(q) /\ UNCHANGED <<unsent, takenBack>>
    BY <2>1, <2>2, <2>3, <2>4, DrainTakes
  <2>6. Mailbox!Start
    BY <2>1, <2>2, <2>3, <2>5 DEF Mailbox!Start, Mailbox!Queues, Queues
  <2> QED BY <2>6 DEF Kept, Mailbox!Next
<1>5. CASE Abort
  <2>1. /\ UNCHANGED <<queue, unsent, takenBack, messages, faults, ended, outbox, pc>>
        /\ activeRun # "none" /\ activeRun' # "none"
    BY <1>5 DEF Abort, queueVars, loopVars
  <2>2. Undelivered' = Undelivered /\ Phase' = Phase
    BY <2>1 DEF Undelivered, Phase
  <2> QED BY <2>1, <2>2, Stutters
<1>6. CASE Reset
  <2>1. /\ queue' = [q \in Queues |-> <<>>] /\ UNCHANGED <<outbox, pc, activeRun, ended, faults, unsent>>
        /\ messages' = <<>>
        /\ takenBack' = takenBack \cup Range(queue["steer"]) \cup Range(queue["followUp"])
    BY <1>6 DEF Reset, loopVars
  <2>2. \A q \in Queues : Range(queue[q]) = Mailbox!ToSet(queue[q])
    BY Parts DEF Range, Mailbox!ToSet
  <2>3. UNCHANGED <<Phase, InHand, Msgs \ unsent, faults>>
    BY <2>1 DEF Phase, InHand, Undelivered
  <2>4. Mailbox!Clear
    BY <2>1, <2>2, <2>3 DEF Mailbox!Clear, Mailbox!Queues, Queues
  <2> QED BY <2>4 DEF Kept, Mailbox!Next
<1>7. CASE Prompt
  <2>1. PICK batch \in Batches(unsent) : /\ StartRun([i \in DOMAIN batch |-> User(batch[i], "prompt")], FALSE)
                                         /\ unsent' = unsent \ Range(batch)
    BY <1>7 DEF Prompt
  <2> DEFINE prompts == [i \in DOMAIN batch |-> User(batch[i], "prompt")]
  <2>2. prompts \in Seq(Sent("prompt")) /\ outbox' = prompts
    BY <2>1, Parts, PromptLane DEF StartRun
  <2>3. /\ activeRun = "none" /\ pc' = "agent_start" /\ activeRun' = "live" /\ ended' = FALSE
        /\ UNCHANGED <<queue, messages, faults, takenBack>>
    BY <2>1, <1>7 DEF Prompt, StartRun
  <2>4. Phase = "idle" /\ Phase' = "running"
    BY <2>3 DEF Phase
  <2>5. InHand' = prompts
    <3>1. Undelivered' = prompts
      BY <2>2, <2>3 DEF Undelivered
    <3> QED BY <2>2, <3>1, HandFacts DEF InHand, Lanes
  <2>6. DOMAIN prompts = DOMAIN batch /\ \A i \in DOMAIN batch : prompts[i].id = batch[i]
    BY DEF User
  <2>7. unsent \subseteq Msgs /\ \A i \in DOMAIN batch : batch[i] \in unsent
    BY Parts DEF Batches
  <2>8. \A i, j \in DOMAIN batch : batch[i] = batch[j] => i = j
    BY DEF Batches, IsInjective
  <2>9. Mailbox!IsInjective(prompts)
    BY <2>6, <2>8 DEF Mailbox!IsInjective
  <2>10. Range(batch) = {prompts[i].id : i \in DOMAIN prompts}
    BY <2>6 DEF Range
  <2>11. /\ \A i \in DOMAIN prompts : prompts[i].id \notin Msgs \ unsent
         /\ Msgs \ unsent' = (Msgs \ unsent) \cup {prompts[i].id : i \in DOMAIN prompts}
    BY <2>1, <2>6, <2>7, <2>10 DEF Range
  <2>12. prompts \in Seq(Mailbox!Mail("prompt"))
    BY <2>2 DEF Mailbox!Mail, Sent
  <2> HIDE DEF prompts
  <2>13. Mailbox!TakesPrompts
    BY <2>5, <2>9, <2>11, <2>12 DEF Mailbox!TakesPrompts
  <2>14. Mailbox!Start
    BY <2>3, <2>4, <2>13 DEF Mailbox!Start
  <2> QED BY <2>14 DEF Kept, Mailbox!Next
<1>8. CASE ContinueFromTranscript
  <2>1. /\ activeRun = "none" /\ pc' = "agent_start" /\ activeRun' = "live" /\ ended' = FALSE
        /\ outbox' = <<>> /\ UNCHANGED <<messages, faults, queue, unsent, takenBack>>
    BY <1>8 DEF ContinueFromTranscript, StartRun, queueVars
  <2>2. Undelivered = <<>> /\ Phase = "idle"
    BY <2>1, Parts, HandParts DEF Phase, Holding
  <2>3. Undelivered' = Undelivered /\ Phase' = "running"
    BY <2>1, <2>2 DEF Undelivered, Phase
  <2>4. UNCHANGED <<queue, InHand, Msgs \ unsent, messages, takenBack, faults>>
    BY <2>1, <2>3 DEF InHand
  <2>5. Mailbox!Start
    BY <2>2, <2>3, <2>4 DEF Mailbox!Start
  <2> QED BY <2>5 DEF Kept, Mailbox!Next
<1>9. CASE DropFailedReply
  <2>1. UNCHANGED <<outbox, pc, queue, unsent, takenBack, activeRun, ended, faults>>
    BY <1>9 DEF DropFailedReply, loopVars, queueVars
  <2>2. Phase = "idle" /\ UNCHANGED <<Phase, InHand, queue, Msgs \ unsent, takenBack, faults>>
    BY <1>9, <2>1 DEF DropFailedReply, Phase, InHand, Undelivered
  <2>3. messages # <<>> /\ Final(messages).role = "assistant" /\ messages' = Front(messages)
    BY <1>9 DEF DropFailedReply
  <2>4. Mailbox!Retry
    BY <2>2, <2>3 DEF Mailbox!Retry, Front, Final
  <2> QED BY <2>4 DEF Kept, Mailbox!Next
<1>10. CASE AgentStartSettles
  <2>1. UNCHANGED <<queue, unsent, takenBack, messages, faults, activeRun, ended>> /\ outbox' = outbox /\ (pc = "msg_end" <=> pc' = "msg_end")
    BY <1>10 DEF AgentStartSettles, Notify, stateVars, queueVars, loopVars, batchVars, runVars
  <2>2. Undelivered' = Undelivered /\ Phase' = Phase
    BY <2>1 DEF Undelivered, Phase
  <2> QED BY <2>1, <2>2, Stutters
<1>11. CASE FirstTurnStartSettles
  <2>1. UNCHANGED <<queue, unsent, takenBack, messages, faults, activeRun, ended>> /\ outbox' = outbox /\ (pc = "msg_end" <=> pc' = "msg_end")
    BY <1>11 DEF FirstTurnStartSettles, DeliverOr, MessageStart, Notify, queueVars, batchVars,
       runVars, stateVars, loopVars
  <2>2. Undelivered' = Undelivered /\ Phase' = Phase
    BY <2>1 DEF Undelivered, Phase
  <2> QED BY <2>1, <2>2, Stutters
<1>12. CASE MessageStartSettles
  <2>1. /\ pc = "msg_start" /\ pc' = "msg_end" /\ messages' = Append(messages, Head(outbox))
        /\ UNCHANGED <<outbox, queue, unsent, takenBack, activeRun, ended, faults, stage>> /\ outbox # <<>>
    BY <1>12, Parts DEF MessageStartSettles, MessageEnd, Notify, loopVars, queueVars
  <2>2. Phase = "running" /\ UNCHANGED <<Phase, faults>>
    BY <2>1, Parts DEF Phase, Picked, Failing
  <2>3. Undelivered = outbox /\ Undelivered' = Tail(outbox)
    BY <2>1 DEF Undelivered
  <2>4. CASE stage = "results"
    <3>1. outbox \in Seq(ToolResultMessage) /\ Tail(outbox) \in Seq(ToolResultMessage)
      BY <2>1, <2>4 DEF Picked
    <3>2. InHand = <<>> /\ InHand' = InHand
      BY <2>3, <3>1, HandFacts DEF InHand
    <3>5. Head(outbox) \in ToolResultMessage
      BY <2>1, <3>1
    <3>6. Head(outbox) \in Message /\ Head(outbox).role # "user"
      BY <3>5, MessageTypes DEF ToolResultMessage
    <3>7. Mailbox!Speak
      BY <2>1, <2>2, <3>2, <3>6, AsSpeak, Parts
    <3> QED BY <3>7 DEF Kept, Mailbox!Next
  <2>5. CASE stage # "results"
    <3>1. PICK l \in Lanes : outbox \in Seq(Sent(l))
      BY <2>5 DEF Picked
    <3>2. Tail(outbox) \in Seq(Sent(l))
      BY <2>1, <3>1
    <3>3. InHand = outbox /\ InHand' = Tail(outbox)
      BY <2>3, <3>1, <3>2, HandFacts DEF InHand
    <3>4. Mailbox!Deliver
      BY <2>1, <2>2, <3>3, AsDeliver
    <3> QED BY <3>4 DEF Kept, Mailbox!Next
  <2> QED BY <2>4, <2>5
<1>13. CASE PromptDelivered
  <2>1. UNCHANGED <<queue, unsent, takenBack, messages, faults, activeRun, ended>> /\ pc = "msg_end" /\ outbox' = Tail(outbox) /\ pc' # "msg_end"
    BY <1>13 DEF PromptDelivered, DeliverOr, MessageStart, Notify, queueVars, batchVars, runVars
  <2>2. Undelivered' = Undelivered /\ Phase' = Phase
    BY <2>1 DEF Undelivered, Phase
  <2> QED BY <2>1, <2>2, Stutters
<1>14. CASE PendingDelivered
  <2>1. UNCHANGED <<queue, unsent, takenBack, messages, faults, activeRun, ended>> /\ pc = "msg_end" /\ outbox' = Tail(outbox) /\ pc' # "msg_end"
    BY <1>14 DEF PendingDelivered, DeliverOr, MessageStart, Notify, queueVars, batchVars, runVars
  <2>2. Undelivered' = Undelivered /\ Phase' = Phase
    BY <2>1 DEF Undelivered, Phase
  <2> QED BY <2>1, <2>2, Stutters
<1>15. CASE ResultDelivered
  <2>1. UNCHANGED <<queue, unsent, takenBack, messages, faults, activeRun, ended>> /\ pc = "msg_end" /\ outbox' = Tail(outbox) /\ pc' # "msg_end"
    BY <1>15 DEF ResultDelivered, DeliverOr, MessageStart, Notify, CallsToGo, StartCall, EndTurn,
       queueVars, runVars
  <2>2. Undelivered' = Undelivered /\ Phase' = Phase
    BY <2>1 DEF Undelivered, Phase
  <2> QED BY <2>1, <2>2, Stutters
<1>16. CASE PollInitial
  <2>0. CASE ~skipPoll
    <3>1. /\ Drain("steer") /\ UNCHANGED <<messages, faults, activeRun, ended>>
          /\ outbox' = Drained("steer") /\ pc' # "msg_end"
      BY <1>16, <2>0 DEF PollInitial, DeliverOr, MessageStart, Notify
    <3>2. pc \notin Holding /\ activeRun # "none" /\ ~ended
      BY <1>16, Parts DEF PollInitial, Holding, Failing, Picked
    <3>3. Undelivered = <<>> /\ Undelivered' = Drained("steer")
      BY <3>1, <3>2, HandParts DEF Undelivered
    <3>4. Phase = "running" /\ Phase' = Phase
      BY <3>1, <3>2 DEF Phase
    <3> QED BY <3>1, <3>3, <3>4, DrainKept DEF Queues
  <2>6. CASE skipPoll
    <3>1. UNCHANGED <<queue, unsent, takenBack, messages, faults, activeRun, ended>> /\ outbox' = <<>> /\ pc' = "request"
      BY <1>16, <2>6 DEF PollInitial, DeliverOr, queueVars
    <3>2. pc \notin Holding
      BY <1>16 DEF PollInitial, Holding
    <3>3. Undelivered' = Undelivered /\ Phase' = Phase
      BY <3>1, <3>2, HandParts DEF Undelivered, Phase
    <3> QED BY <3>1, <3>3, Stutters
  <2> QED BY <2>0, <2>6
<1>17. CASE PollSteering
  <2>1. /\ Drain("steer") /\ UNCHANGED <<messages, faults, activeRun, ended>>
        /\ \/ outbox' = Drained("steer") /\ pc' # "msg_end"
           \/ Drained("steer") = <<>> /\ outbox' = outbox /\ pc' # "msg_end"
    BY <1>17 DEF PollSteering, DeliverOr, NextTurn, MessageStart, Notify
  <2>2. pc \notin Holding /\ outbox = <<>> /\ activeRun # "none" /\ ~ended
    BY <1>17, Parts DEF PollSteering, Holding, Failing, Picked
  <2>3. Undelivered = <<>> /\ Undelivered' = Drained("steer")
    BY <2>1, <2>2, HandParts DEF Undelivered
  <2>4. Phase = "running" /\ Phase' = Phase
    BY <2>1, <2>2 DEF Phase
  <2> QED BY <2>1, <2>3, <2>4, DrainKept DEF Queues
<1>18. CASE PollFollowUp
  <2>1. /\ Drain("followUp") /\ UNCHANGED <<messages, faults, activeRun>> /\ pc' # "msg_end"
        /\ \/ outbox' = Drained("followUp") /\ ended' = ended
           \/ Drained("followUp") = <<>> /\ outbox' = outbox /\ ended' = TRUE
    BY <1>18 DEF PollFollowUp, AgentEnd, NextTurn, Notify
  <2>2. pc \notin Holding /\ outbox = <<>> /\ activeRun # "none" /\ ~ended
    BY <1>18, Parts DEF PollFollowUp, Holding, Failing, Picked
  <2>3. Undelivered = <<>> /\ Undelivered' = Drained("followUp")
    BY <2>1, <2>2, HandParts DEF Undelivered
  <2>4. CASE ended' = ended
    <3>1. Phase = "running" /\ Phase' = Phase
      BY <2>1, <2>2, <2>4 DEF Phase
    <3> QED BY <2>1, <2>3, <3>1, DrainKept DEF Queues
  <2>5. CASE ended' = TRUE
    <3>1. Phase = "running" /\ Phase' = "concluded" /\ Drained("followUp") = <<>>
      BY <2>1, <2>2, <2>5 DEF Phase
    <3>2. UNCHANGED <<queue, InHand, unsent, takenBack>> /\ InHand = <<>>
      BY <2>1, <2>2, <2>3, <3>1, DrainTakes, HandParts DEF Queues
    <3>3. Mailbox!Conclude
      BY <2>1, <3>1, <3>2, AsConclude
    <3> QED BY <3>3 DEF Kept, Mailbox!Next
  <2> QED BY <2>1, <2>4, <2>5
<1>19. CASE TurnStartSettles
  <2>1. UNCHANGED <<queue, unsent, takenBack, messages, faults, activeRun, ended>> /\ outbox' = outbox /\ (pc = "msg_end" <=> pc' = "msg_end")
    BY <1>19 DEF TurnStartSettles, DeliverOr, MessageStart, Notify, queueVars, batchVars, runVars,
       stateVars, loopVars
  <2>2. Undelivered' = Undelivered /\ Phase' = Phase
    BY <2>1 DEF Undelivered, Phase
  <2> QED BY <2>1, <2>2, Stutters
<1>20. CASE SendRequest
  <2>1. UNCHANGED <<queue, unsent, takenBack, messages, faults, activeRun, ended>> /\ outbox' = outbox /\ (pc = "msg_end" <=> pc' = "msg_end")
    BY <1>20 DEF SendRequest, stateVars, queueVars, loopVars, batchVars
  <2>2. Undelivered' = Undelivered /\ Phase' = Phase
    BY <2>1 DEF Undelivered, Phase
  <2> QED BY <2>1, <2>2, Stutters
<1>21. CASE StreamStarts
  <2>1. UNCHANGED <<queue, unsent, takenBack, messages, faults, activeRun, ended>> /\ outbox' = outbox /\ (pc = "msg_end" <=> pc' = "msg_end")
    BY <1>21 DEF StreamStarts, MessageStart, Notify, queueVars, batchVars, runVars, stateVars, loopVars
  <2>2. Undelivered' = Undelivered /\ Phase' = Phase
    BY <2>1 DEF Undelivered, Phase
  <2> QED BY <2>1, <2>2, Stutters
<1>22. CASE StreamEnds
  <2>1. PICK answer \in Answers :
          /\ UNCHANGED <<activeRun, queue, unsent, takenBack, outbox, faults, ended>>
          /\ \/ pc = "streaming" /\ pc' = "reply_end" /\ messages' = Append(messages, answer)
             \/ pc = "stream" /\ pc' = "reply_start" /\ messages' = messages
    BY <1>22 DEF StreamEnds, MessageEnd, MessageStart, Notify, queueVars
  <2>2. CASE pc = "stream"
    <3>1. Undelivered' = Undelivered /\ Phase' = Phase
      BY <2>1, <2>2 DEF Undelivered, Phase
    <3> QED BY <2>1, <2>2, <3>1, Stutters
  <2>3. CASE pc = "streaming"
    <3>1. /\ UNCHANGED <<activeRun, queue, unsent, takenBack, outbox, faults, ended>> /\ pc = "streaming" /\ pc' = "reply_end"
          /\ messages' = Append(messages, answer) /\ Phase = "running"
      BY <2>1, <2>3, Parts DEF Picked, Failing, Phase
    <3>6. answer \in AssistantMessage
      BY Parts, BoundsAssumption DEF Answers, AssistantMessage, Stops
    <3>2. Undelivered' = Undelivered /\ Undelivered = <<>> /\ Phase' = Phase
      BY <3>1, HandParts DEF Undelivered, Phase, Holding
    <3>3. InHand = <<>> /\ UNCHANGED InHand
      BY <3>2, HandFacts DEF InHand
    <3>4. answer \in Message /\ answer.role # "user"
      BY <3>6, MessageTypes DEF AssistantMessage
    <3>5. Mailbox!Speak
      BY <3>1, <3>2, <3>3, <3>4, AsSpeak, Parts
    <3> QED BY <3>5 DEF Kept, Mailbox!Next
  <2> QED BY <2>1, <2>2, <2>3
<1>23. CASE ReplyStartSettles
  <2>1. /\ UNCHANGED <<activeRun, queue, unsent, takenBack, outbox, faults, ended>> /\ pc = "reply_start" /\ pc' = "reply_end"
        /\ messages' = Append(messages, reply) /\ Phase = "running"
    BY <1>23, Parts DEF ReplyStartSettles, MessageEnd, Notify, loopVars, queueVars, Picked,
       Failing, Phase
  <2>2. Undelivered' = Undelivered /\ Undelivered = <<>> /\ Phase' = Phase
    BY <2>1, HandParts DEF Undelivered, Phase, Holding
  <2>3. InHand = <<>> /\ UNCHANGED InHand
    BY <2>2, HandFacts DEF InHand
  <2>4. reply \in Message /\ reply.role # "user"
    BY <2>1, Parts, MessageTypes DEF AssistantMessage
  <2>5. Mailbox!Speak
    BY <2>1, <2>2, <2>3, <2>4, AsSpeak, Parts
  <2> QED BY <2>5 DEF Kept, Mailbox!Next
<1>24. CASE ReplyFailed
  <2>1. UNCHANGED <<queue, unsent, takenBack, messages, faults, activeRun, ended>> /\ outbox' = outbox /\ (pc = "msg_end" <=> pc' = "msg_end")
    BY <1>24 DEF ReplyFailed, Notify, stateVars, queueVars, loopVars, batchVars
  <2>2. Undelivered' = Undelivered /\ Phase' = Phase
    BY <2>1 DEF Undelivered, Phase
  <2> QED BY <2>1, <2>2, Stutters
<1>25. CASE ReplyWithoutCalls
  <2>1. UNCHANGED <<queue, unsent, takenBack, messages, faults, activeRun, ended>> /\ outbox' = outbox /\ (pc = "msg_end" <=> pc' = "msg_end")
    BY <1>25 DEF ReplyWithoutCalls, EndTurn, Notify, stateVars, queueVars, batchVars, runVars, loopVars
  <2>2. Undelivered' = Undelivered /\ Phase' = Phase
    BY <2>1 DEF Undelivered, Phase
  <2> QED BY <2>1, <2>2, Stutters
<1>26. CASE ReplyWithCalls
  <2>1. UNCHANGED <<queue, unsent, takenBack, messages, faults, activeRun, ended>> /\ outbox' = outbox /\ (pc = "msg_end" <=> pc' = "msg_end")
    BY <1>26 DEF ReplyWithCalls, StartCall, Notify, queueVars, loopVars, runVars, stateVars
  <2>2. Undelivered' = Undelivered /\ Phase' = Phase
    BY <2>1 DEF Undelivered, Phase
  <2> QED BY <2>1, <2>2, Stutters
<1>27. CASE ToolPrepared
  <2>1. UNCHANGED <<queue, unsent, takenBack, messages, faults, activeRun, ended>> /\ outbox' = outbox /\ (pc = "msg_end" <=> pc' = "msg_end")
    BY <1>27 DEF ToolPrepared, Launch, Call, NextCall, CallsToGo, StartCall, Notify, queueVars,
       loopVars, runVars, stateVars
  <2>2. Undelivered' = Undelivered /\ Phase' = Phase
    BY <2>1 DEF Undelivered, Phase
  <2> QED BY <2>1, <2>2, Stutters
<1>28. CASE ToolRefused
  <2>1. UNCHANGED <<queue, unsent, takenBack, messages, faults, activeRun, ended>> /\ outbox' = outbox /\ (pc = "msg_end" <=> pc' = "msg_end")
    BY <1>28 DEF ToolRefused, Call, Notify, queueVars, loopVars, runVars, stateVars
  <2>2. Undelivered' = Undelivered /\ Phase' = Phase
    BY <2>1 DEF Undelivered, Phase
  <2> QED BY <2>1, <2>2, Stutters
<1>29. CASE RefusalSettles
  <2>1. UNCHANGED <<queue, unsent, takenBack, messages, faults, activeRun, ended>> /\ outbox' = outbox /\ (pc = "msg_end" <=> pc' = "msg_end")
    BY <1>29 DEF RefusalSettles, Launch, Call, NextCall, CallsToGo, StartCall, Notify, queueVars,
       loopVars, runVars, stateVars
  <2>2. Undelivered' = Undelivered /\ Phase' = Phase
    BY <2>1 DEF Undelivered, Phase
  <2> QED BY <2>1, <2>2, Stutters
<1>30. CASE BatchSettled
  <2>1. /\ UNCHANGED <<queue, unsent, takenBack, messages, faults, activeRun, ended>> /\ stage' = "results"
        /\ pc' # "msg_end" /\ pc \notin Holding
    BY <1>30 DEF BatchSettled, DeliverOr, MessageStart, Notify, queueVars, Holding
  <2>2. Undelivered = <<>> /\ Undelivered' = outbox' /\ outbox' \in Seq(ToolResultMessage)
    BY <2>1, HandParts DEF Undelivered, Picked
  <2>3. UNCHANGED InHand
    BY <2>2, HandFacts DEF InHand
  <2>5. Phase' = Phase
    BY <2>1 DEF Phase
  <2> QED BY <2>1, <2>3, <2>5 DEF Kept, Mailbox!vars
<1>31. CASE TurnEndSettles
  <2>1. UNCHANGED <<queue, unsent, takenBack, messages, faults, activeRun, ended>> /\ outbox' = outbox /\ (pc = "msg_end" <=> pc' = "msg_end")
    BY <1>31 DEF TurnEndSettles, stateVars, queueVars, loopVars, batchVars, runVars
  <2>2. Undelivered' = Undelivered /\ Phase' = Phase
    BY <2>1 DEF Undelivered, Phase
  <2> QED BY <2>1, <2>2, Stutters
<1>32. CASE FinalTurnEndSettles
  <2>1. /\ pc = "final_turn_end" /\ pc' = "agent_end" /\ ended' = TRUE /\ activeRun # "none" /\ ~ended
        /\ UNCHANGED <<messages, faults, activeRun, queue, unsent, takenBack, outbox>>
    BY <1>32, Parts DEF FinalTurnEndSettles, AgentEnd, queueVars, loopVars, Picked, Failing
  <2>2. Undelivered' = Undelivered /\ Undelivered = <<>> /\ Phase = "running" /\ Phase' = "concluded"
    BY <2>1, HandParts DEF Undelivered, Phase, Holding
  <2>3. InHand = <<>> /\ UNCHANGED InHand
    BY <2>2, HandFacts DEF InHand
  <2>4. Mailbox!Conclude
    BY <2>1, <2>2, <2>3, AsConclude
  <2> QED BY <2>4 DEF Kept, Mailbox!Next
<1>33. CASE AgentEndSettles
  <2>1. /\ pc = "agent_end" /\ pc' = "idle" /\ activeRun' = "none" /\ outbox' = <<>> /\ activeRun # "none" /\ ended
        /\ UNCHANGED <<messages, faults, queue, unsent, takenBack>>
    BY <1>33, Parts DEF AgentEndSettles, FinishRun, queueVars, Inv, EndTold
  <2>2. Undelivered' = Undelivered /\ Phase = "concluded" /\ Phase' = "idle"
    BY <2>1, HandParts DEF Undelivered, Phase, Holding
  <2>3. UNCHANGED InHand
    BY <2>2 DEF InHand
  <2>4. Mailbox!Retire
    BY <2>1, <2>2, <2>3, AsRetire
  <2> QED BY <2>4 DEF Kept, Mailbox!Next
<1>34. CASE FailureStartSettles
  <2>1. /\ UNCHANGED <<activeRun, queue, unsent, takenBack, outbox, faults, ended>> /\ pc = "failure_start" /\ pc' = "failure_end"
        /\ messages' = Append(messages, reply)
    BY <1>34 DEF FailureStartSettles, MessageEnd, Notify, loopVars, queueVars
  <2>6. faults > 0
    BY <2>1, FaultsCounted DEF Inv, Quiet, Calm, Failing
  <2>7. Phase = "running" \/ (faults > 0 /\ Phase = "concluded")
    BY <2>1, <2>6, Parts DEF Phase
  <2>2. Undelivered' = Undelivered /\ Undelivered = <<>> /\ Phase' = Phase
    BY <2>1, HandParts DEF Undelivered, Phase, Holding
  <2>3. InHand = <<>> /\ UNCHANGED InHand
    BY <2>2, HandFacts DEF InHand
  <2>4. reply \in Message /\ reply.role # "user"
    BY <2>1, Parts, MessageTypes DEF AssistantMessage
  <2>5. Mailbox!Speak
    BY <2>1, <2>2, <2>3, <2>4, <2>7, AsSpeak, Parts
  <2> QED BY <2>5 DEF Kept, Mailbox!Next
<1>35. CASE FailureEndSettles
  <2>1. UNCHANGED <<queue, unsent, takenBack, messages, faults, activeRun, ended>> /\ outbox' = outbox /\ (pc = "msg_end" <=> pc' = "msg_end")
    BY <1>35 DEF FailureEndSettles, Notify, stateVars, queueVars, loopVars, batchVars
  <2>2. Undelivered' = Undelivered /\ Phase' = Phase
    BY <2>1 DEF Undelivered, Phase
  <2> QED BY <2>1, <2>2, Stutters
<1>36. CASE FailureTurnEndSettles
  <2>1. /\ pc = "failure_turn_end" /\ pc' = "failure_agent_end" /\ ended' = TRUE /\ activeRun # "none"
        /\ UNCHANGED <<messages, faults, activeRun, queue, unsent, takenBack, outbox>>
    BY <1>36, Parts DEF FailureTurnEndSettles, AgentEnd, queueVars, loopVars
  <2>2. Undelivered' = Undelivered /\ Undelivered = <<>>
    BY <2>1, HandParts DEF Undelivered, Holding
  <2>3. InHand = <<>> /\ UNCHANGED InHand
    BY <2>2, HandFacts DEF InHand
  <2>4. CASE ended
    <3>1. Phase' = Phase
      BY <2>1, <2>4 DEF Phase
    <3> QED BY <2>1, <2>2, <3>1, Stutters
  <2>5. CASE ~ended
    <3>1. Phase = "running" /\ Phase' = "concluded"
      BY <2>1, <2>5 DEF Phase
    <3>2. Mailbox!Conclude
      BY <2>1, <2>3, <3>1, AsConclude
    <3> QED BY <3>2 DEF Kept, Mailbox!Next
  <2> QED BY <2>4, <2>5
<1>37. CASE FailureAgentEndSettles
  <2>1. /\ pc = "failure_agent_end" /\ pc' = "idle" /\ activeRun' = "none" /\ outbox' = <<>> /\ activeRun # "none" /\ ended
        /\ UNCHANGED <<messages, faults, queue, unsent, takenBack>>
    BY <1>37, Parts DEF FailureAgentEndSettles, FinishRun, queueVars, Inv, EndTold
  <2>2. Undelivered' = Undelivered /\ Phase = "concluded" /\ Phase' = "idle"
    BY <2>1, HandParts DEF Undelivered, Phase, Holding
  <2>3. UNCHANGED InHand
    BY <2>2 DEF InHand
  <2>4. Mailbox!Retire
    BY <2>1, <2>2, <2>3, AsRetire
  <2> QED BY <2>4 DEF Kept, Mailbox!Next
<1>38. CASE RunRejects
  <2>1. /\ pc' = "failure_start" /\ outbox' = <<>> /\ faults' = faults + 1 /\ activeRun # "none"
        /\ UNCHANGED <<messages, queue, unsent, takenBack, activeRun, ended>>
    BY <1>38, Parts DEF RunRejects, FailRun, MessageStart, Notify, queueVars, AwaitsListeners,
       AwaitsHook
  <2>2. InHand' = <<>> /\ Phase' = Phase
    BY <2>1, HandFacts DEF Undelivered, Phase, InHand
  <2>3. Mailbox!Fail
    BY <2>1, <2>2, AsFail
  <2> QED BY <2>3 DEF Kept, Mailbox!Next
<1>39. CASE FailureRejects
  <2>1. /\ pc' = "idle" /\ activeRun' = "none" /\ outbox' = <<>> /\ faults' = faults + 1
        /\ UNCHANGED <<messages, queue, unsent, takenBack>>
    BY <1>39 DEF FailureRejects, FinishRun, queueVars
  <2>2. InHand' = <<>> /\ Phase' = "idle"
    BY <2>1, HandFacts DEF Undelivered, Phase, InHand
  <2>3. Mailbox!Fail
    BY <2>1, <2>2, AsFail
  <2> QED BY <2>3 DEF Kept, Mailbox!Next
<1>40. ASSUME NEW c \in Calls, ToolExecuted(c) PROVE Kept
  <2>1. UNCHANGED <<queue, unsent, takenBack, messages, faults, activeRun, ended>> /\ outbox' = outbox /\ (pc = "msg_end" <=> pc' = "msg_end")
    BY <1>40 DEF ToolExecuted, NotifyOf, queueVars, loopVars, runVars, stateVars
  <2>2. Undelivered' = Undelivered /\ Phase' = Phase
    BY <2>1 DEF Undelivered, Phase
  <2> QED BY <2>1, <2>2, Stutters
<1>41. ASSUME NEW c \in Calls, ToolEndSettles(c) PROVE Kept
  <2>1. UNCHANGED <<queue, unsent, takenBack, messages, faults, activeRun, ended>> /\ outbox' = outbox /\ (pc = "msg_end" <=> pc' = "msg_end")
    BY <1>41 DEF ToolEndSettles, stateVars, queueVars, loopVars, runVars
  <2>2. Undelivered' = Undelivered /\ Phase' = Phase
    BY <2>1 DEF Undelivered, Phase
  <2> QED BY <2>1, <2>2, Stutters
<1>42. ASSUME NEW c \in Calls, ToolRejects(c) PROVE Kept
  <2>1. /\ UNCHANGED <<messages, queue, unsent, takenBack, activeRun>>
        /\ \/ faults' = faults
           \/ faults' = faults + 1
        /\ \/ Awaited(c) /\ pc' = "failure_start" /\ outbox' = <<>> /\ ended' = ended
           \/ ~Awaited(c) /\ UNCHANGED <<pc, outbox, ended>>
    BY <1>42 DEF ToolRejects, FailRun, MessageStart, Notify, queueVars
  <2>2. Phase' = Phase
    BY <2>1 DEF Phase
  <2>3. UNCHANGED InHand
    <3>1. CASE Awaited(c)
      <4>1. Undelivered = <<>> /\ Undelivered' = <<>>
        BY <2>1, <3>1, HandParts DEF Undelivered, Awaited, Holding
      <4> QED BY <4>1 DEF InHand
    <3>2. CASE ~Awaited(c)
      BY <2>1, <3>2 DEF InHand, Undelivered
    <3> QED BY <3>1, <3>2
  <2>4. CASE faults' = faults
    BY <2>1, <2>2, <2>3, <2>4 DEF Kept, Mailbox!vars
  <2>5. CASE faults' = faults + 1
    <3>1. Mailbox!Fail
      BY <2>1, <2>2, <2>3, <2>5, AsFail
    <3> QED BY <3>1 DEF Kept, Mailbox!Next
  <2> QED BY <2>1, <2>4, <2>5
<1>43. ASSUME NEW c \in Calls, ToolUpdates(c) PROVE Kept
  <2>1. UNCHANGED <<queue, unsent, takenBack, messages, faults, activeRun, ended>> /\ outbox' = outbox /\ (pc = "msg_end" <=> pc' = "msg_end")
    BY <1>43 DEF ToolUpdates, NotifyOf, stateVars, queueVars, loopVars, runVars
  <2>2. Undelivered' = Undelivered /\ Phase' = Phase
    BY <2>1 DEF Undelivered, Phase
  <2> QED BY <2>1, <2>2, Stutters
<1>44. ASSUME NEW c \in Calls, UpdateRejected(c) PROVE Kept
  <2>1. faults' = faults + 1 /\ UNCHANGED <<messages, queue, unsent, takenBack, activeRun, ended, pc, outbox>>
    BY <1>44 DEF UpdateRejected, NotifyOf, stateVars, queueVars, loopVars
  <2>2. UNCHANGED <<InHand, Phase>>
    BY <2>1 DEF Undelivered, Phase, InHand
  <2>3. Mailbox!Fail
    BY <2>1, <2>2, AsFail
  <2> QED BY <2>3 DEF Kept, Mailbox!Next
<1>45. CASE UNCHANGED vars
  <2>1. UNCHANGED <<queue, unsent, takenBack, messages, faults, activeRun, ended>> /\ outbox' = outbox /\ pc' = pc
    BY <1>45 DEF vars, stateVars, queueVars, loopVars
  <2>2. Undelivered' = Undelivered /\ Phase' = Phase
    BY <2>1 DEF Undelivered, Phase
  <2> QED BY <2>1, <2>2, Stutters
<1> QED
  BY <1>1, <1>2, <1>3, <1>4, <1>5, <1>6, <1>7, <1>8, <1>9, <1>10, <1>11, <1>12, <1>13, <1>14, <1>15,
     <1>16, <1>17, <1>18, <1>19, <1>20, <1>21, <1>22, <1>23, <1>24, <1>25, <1>26, <1>27, <1>28,
     <1>29, <1>30, <1>31, <1>32, <1>33, <1>34, <1>35, <1>36, <1>37, <1>38, <1>39, <1>40, <1>41,
     <1>42, <1>43, <1>44, <1>45 DEF Next, UserStep, LoopStep, ToolStep


\* Agent implements AgentMailbox, with no bound on its messages, runs, resets or rejections: a message
\* that was sent waits until a run takes it from the front of its lane or the user's clear or reset()
\* takes it back; a run delivers what it took, in order, or drops it in the step in which a listener
\* or a hook rejects.
THEOREM KeepsMailbox == Spec => MailboxKept
<1>1. Init => Inv /\ Picked
  <2>1. ASSUME Init PROVE Picked
    <3>1. \A q \in Queues : queue[q] \in Seq(Sent(q))
      <4>1. \A q \in Queues : <<>> \in Seq(Sent(q))
        OBVIOUS
      <4> QED BY <2>1, <4>1 DEF Init
    <3>2. \E l \in Lanes : outbox \in Seq(Sent(l))
      <4>1. "prompt" \in Lanes /\ <<>> \in Seq(Sent("prompt"))
        BY DEF Lanes
      <4> QED BY <2>1, <4>1 DEF Init
    <3> QED BY <2>1, <3>1, <3>2 DEF Init, Picked
  <2> QED BY <2>1, InitInv
<1>2. Init => Mailbox!Init
  <2> SUFFICES ASSUME Init PROVE Mailbox!Init
    OBVIOUS
  <2>1. Undelivered = <<>> /\ Phase = "idle" /\ messages = <<>> /\ faults = 0 /\ takenBack = {}
    BY DEF Init, Undelivered, Phase
  <2>2. InHand = <<>> /\ Msgs \ unsent = {}
    BY <2>1, HandFacts DEF InHand, Init
  <2>3. queue = [l \in Mailbox!Queues |-> <<>>]
    BY DEF Init, Queues, Mailbox!Queues
  <2> QED BY <2>1, <2>2, <2>3 DEF Mailbox!Init
<1>3. Inv /\ Picked /\ [Next]_vars => Inv' /\ Picked'
  BY InvStep, PickedStep DEF Inv, CopiesInv
<1>4. Inv /\ Picked /\ Inv' /\ Picked' /\ [Next]_vars => [Mailbox!Next]_(Mailbox!vars)
  BY KeptStep DEF Kept
<1> QED BY <1>1, <1>2, <1>3, <1>4, PTL DEF Spec, MailboxKept, Mailbox!Spec

=============================================================================
