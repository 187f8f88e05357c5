----------------------------- MODULE EventStream -----------------------------
(***************************************************************************)
(* EventStream of ai/src/utils/event-stream.ts: a producer pushes events,  *)
(* consumers iterate over them and then await result().  The producers are *)
(* those of the repository: a provider (or the lazy stream in front of     *)
(* it), which ends with a "done" or "error" event; agentLoop, whose        *)
(* agent_end is final and whose promise may reject; streamProxy, whose     *)
(* server may hang up before the final event.                              *)
(***************************************************************************)
EXTENDS Naturals, Sequences, FiniteSets, SequencesExt

CONSTANTS
  Readers,    \* consumers of one stream
  MaxEvents   \* bound: pushes before the final one

ASSUME StreamAssumption == MaxEvents \in Nat

VARIABLES
  producer,   \* "open", "final" (the final event was pushed), "ended" (end() was called), "rejected"
  pushed,     \* how many events were pushed, the event being its number
  final,      \* the final event, or 0
  events,     \* EventStream.queue
  waiting,    \* EventStream.waiting: readers, in order
  closed,     \* EventStream.done
  answered,   \* finalResultPromise is resolved
  reader,     \* what each consumer awaits
  hand,       \* of each reader: the events its waiter was called with and it has not resumed with
  got         \* of each reader: the events it was yielded

streamVars == <<producer, pushed, final, events, waiting, closed, answered, reader, hand, got>>

StreamInit ==
  /\ producer = "open" /\ pushed = 0 /\ final = 0
  /\ events = <<>> /\ waiting = <<>> /\ closed = FALSE /\ answered = FALSE
  /\ reader = [r \in Readers |-> "new"]
  /\ hand = [r \in Readers |-> <<>>]
  /\ got = [r \in Readers |-> <<>>]

Bug_Hand(e) ==
  IF waiting = <<>>
  THEN events' = Append(events, e) /\ UNCHANGED <<waiting, reader, hand>>
  ELSE /\ events' = Append(events, e)
       /\ waiting' = Tail(waiting)
       /\ reader' = [reader EXCEPT ![Head(waiting)] = "woken"]
       /\ hand' = [hand EXCEPT ![Head(waiting)] = <<e>>]

\* The longest waiting consumer is given the event; with none it is queued.
Hand(e) ==
  IF waiting = <<>>
  THEN events' = Append(events, e) /\ UNCHANGED <<waiting, reader, hand>>
  ELSE /\ waiting' = Tail(waiting)
       /\ reader' = [reader EXCEPT ![Head(waiting)] = "woken"]
       /\ hand' = [hand EXCEPT ![Head(waiting)] = <<e>>]
       /\ UNCHANGED events

\* push of a stream that is done does nothing: the error streamProxy reports when the connection fails
\* after the final event, or a second final event of its server.
Accepts == ~closed

Pushing == producer \in {"open", "final"} /\ Accepts

Push ==
  /\ Pushing /\ pushed < MaxEvents
  /\ pushed' = pushed + 1
  /\ Hand(pushed')
  /\ UNCHANGED <<producer, final, closed, answered, got>>

\* isComplete: "done", "error" or agent_end.
PushFinal ==
  /\ Pushing
  /\ producer' = "final"
  /\ pushed' = pushed + 1 /\ final' = pushed'
  /\ closed' = TRUE /\ answered' = TRUE
  /\ Hand(pushed')
  /\ UNCHANGED got

Bug_End(result) ==
  /\ producer' = "ended"
  /\ closed' = TRUE
  /\ answered' = (answered \/ result)
  /\ UNCHANGED <<pushed, final, events, waiting, reader, hand, got>>

End(result) ==
  /\ producer' = "ended"
  /\ closed' = TRUE
  /\ answered' = (answered \/ result)
  /\ waiting' = <<>>
  /\ reader' = [r \in Readers |-> IF Contains(waiting, r) THEN "woken" ELSE reader[r]]
  /\ UNCHANGED <<pushed, final, events, hand, got>>

\* A provider calls end() after its final event, agentLoop end(messages).
EndAfterFinal == producer = "final" /\ \E result \in BOOLEAN : End(result)

\* The proxy server's body ends without a final event.
HangUp == producer = "open" /\ End(FALSE)

\* agentLoop: a run that rejects never calls end().
RunRejects ==
  /\ producer = "open"
  /\ producer' = "rejected"
  /\ UNCHANGED <<pushed, final, events, waiting, closed, answered, reader, hand, got>>

Iterate(r) ==
  /\ reader[r] = "new"
  /\ reader' = [reader EXCEPT ![r] = "next"]
  /\ UNCHANGED <<producer, pushed, final, events, waiting, closed, answered, hand, got>>

\* [Symbol.asyncIterator]().next() by a consumer that stops at the final event, as
\* streamAssistantResponse does.
Given(r, e) ==
  /\ got' = [got EXCEPT ![r] = Append(@, e)]
  /\ reader' = [reader EXCEPT ![r] = IF e = final THEN "result" ELSE "next"]

ReadNext(r) ==
  /\ reader[r] = "next"
  /\ IF events # <<>>
     THEN Given(r, Head(events)) /\ events' = Tail(events) /\ UNCHANGED waiting
     ELSE /\ reader' = [reader EXCEPT ![r] = IF closed THEN "result" ELSE "waiting"]
          /\ waiting' = IF closed THEN waiting ELSE Append(waiting, r)
          /\ UNCHANGED <<events, got>>
  /\ UNCHANGED <<producer, pushed, final, closed, answered, hand>>

Resume(r) ==
  /\ reader[r] = "woken"
  /\ IF hand[r] # <<>>
     THEN Given(r, Head(hand[r]))
     ELSE reader' = [reader EXCEPT ![r] = "result"] /\ UNCHANGED got
  /\ hand' = [hand EXCEPT ![r] = <<>>]
  /\ UNCHANGED <<producer, pushed, final, events, waiting, closed, answered>>

\* await response.result()
Result(r) ==
  /\ reader[r] = "result" /\ answered
  /\ reader' = [reader EXCEPT ![r] = "finished"]
  /\ UNCHANGED <<producer, pushed, final, events, waiting, closed, answered, hand, got>>

Produce == Push \/ PushFinal \/ EndAfterFinal \/ HangUp
Consume == \E r \in Readers : ReadNext(r) \/ Resume(r) \/ Result(r)

StreamNext == Produce \/ RunRejects \/ Consume \/ \E r \in Readers : Iterate(r)
StreamSpec == StreamInit /\ [][StreamNext]_streamVars

\* Requests end or time out, and promises that are resolved resume their awaits.
StreamProgress == Produce \/ Consume

(***************************************************************************)
(* Properties.                                                             *)
(***************************************************************************)
Held(r) == got[r] \o hand[r]
Ascending(s) == \A i, j \in DOMAIN s : i < j => s[i] < s[j]

\* Every event pushed is queued or went to one consumer, once and in the order of the pushes, though a
\* waiter that was called resumes only after later pushes; none comes after the final one, though the
\* producer may push again, and nobody waits while an event is queued.
EachEventOnce ==
  /\ \A e \in 1..pushed :
       Cardinality({r \in Readers : Contains(Held(r), e)}) = IF Contains(events, e) THEN 0 ELSE 1
  /\ \A r \in Readers : Ascending(Held(r) \o events)
  /\ final # 0 => pushed = final
  /\ events # <<>> => waiting = <<>>

HungUp == producer = "ended" /\ ~answered

\* Every consumer of a stream comes to its result, unless the run behind agentLoop rejected or the
\* proxy's server hung up: then nobody resolves the result.
ReadersFinish ==
  (\E r \in Readers : reader[r] = "next")
    ~> (producer = "rejected" \/ HungUp \/ \A r \in Readers : reader[r] \in {"new", "finished"})
=============================================================================
