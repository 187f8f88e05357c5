---------------------------- MODULE AgentHarness ----------------------------
(***************************************************************************)
(* packages/agent/src/harness/agent-harness.ts: phases, message queues,    *)
(* pending session writes and aborts around runs of the agent loop.        *)
(*                                                                         *)
(* pc is the await an operation is at.  The loop is what AgentHarness sees *)
(* of agent-loop.ts: the events it awaits and the callbacks it calls.  A   *)
(* session write is one await that ends in the entry being appended.       *)
(***************************************************************************)
EXTENDS Naturals, Sequences, FiniteSets, Functions

CONSTANTS
  Runs,     \* calls of prompt, skill and promptFromTemplate
  Structs,  \* calls of compact and navigateTree
  Writes,   \* calls of setModel, setThinkingLevel, setTools, setActiveTools, appendMessage
  Msgs,     \* calls of steer, followUp and nextTurn
  Aborts,   \* calls of abort
  None,
  Overlap,  \* whether an operation may start before the one before it has returned
  MaxTurns, \* bound: replies of a run with tool calls
  MaxFaults \* bound: listeners, hooks and writes that reject

Ops == Runs \cup Structs \cup Writes \cup Msgs \cup Aborts

ASSUME HarnessAssumption ==
  /\ {MaxTurns, MaxFaults} \subseteq Nat /\ Overlap \in BOOLEAN
  /\ None \notin Ops
  /\ Runs \cap (Structs \cup Writes \cup Msgs \cup Aborts) = {}
  /\ Structs \cap (Writes \cup Msgs \cup Aborts) = {}
  /\ Writes \cap (Msgs \cup Aborts) = {} /\ Msgs \cap Aborts = {}

VARIABLES
  phase, controller, runPromise,   \* phase, runAbortController, runPromise
  queue,      \* steerQueue, followUpQueue, nextTurnQueue
  arrays,     \* how often abort() has replaced the arrays of the first two
  session,    \* the entries of the session
  pending,    \* pendingSessionWrites
  pc,         \* of each operation: the await it is at
  run,        \* of each run: the locals of executeTurn, the loop and the callbacks
  context,    \* of each run and structural operation: what it knows of the session
  aborted,    \* the runs whose signal is aborted
  resolved,   \* the runs whose run promise is resolved
  waits, hit, \* of each abort: the promise it awaits, the run it has signalled
  cleared,    \* messages that aborts have cleared, with those put back where an abort had cleared
  deferred,   \* the writes made while busy, in the order of their calls
  sent, announced, \* of each queue: the messages sent to it, those whose drain was announced
  faults

queues == <<queue, arrays>>
store  == <<session, pending>>
ctl    == <<phase, controller, runPromise, resolved>>
abt    == <<aborted, waits, hit, cleared>>
hist   == <<deferred, sent, announced, faults>>
vars   == <<ctl, queues, store, pc, run, context, abt, hist>>

Item(kind, of) == [kind |-> kind, of |-> of]
Messages(ms)   == [i \in DOMAIN ms |-> Item("message", ms[i])]

Queues == {"steer", "followUp", "nextTurn"}
NoRun  == [stage |-> "start", out |-> <<>>, then |-> "request", drained |-> <<>>, from |-> "steer",
           array |-> 0, reply |-> "stop", more |-> FALSE, raised |-> FALSE, failed |-> FALSE,
           turns |-> 0]

Init ==
  /\ phase = "idle" /\ controller = None /\ runPromise = None /\ resolved = {}
  /\ queue = [q \in Queues |-> <<>>] /\ arrays = 0
  /\ session = <<>> /\ pending = <<>>
  /\ pc = [o \in Ops |-> "new"]
  /\ run = [r \in Runs |-> NoRun]
  /\ context = [o \in Runs \cup Structs |-> <<>>]
  /\ aborted = {} /\ cleared = {}
  /\ waits = [a \in Aborts |-> None] /\ hit = [a \in Aborts |-> None]
  /\ deferred = <<>> /\ faults = 0
  /\ sent = [q \in Queues |-> <<>>] /\ announced = [q \in Queues |-> <<>>]

Open(o)     == pc[o] \notin {"new", "returned", "rejected"}
Go(o, l)    == pc' = [pc EXCEPT ![o] = l]
AnyFault    == faults < MaxFaults /\ faults' = faults + 1

\* A caller that awaits its calls starts an operation when none is open and no write is under way.
MayStart(o) == /\ pc[o] = "new" /\ phase = "idle"
               /\ Overlap \/ \A x \in Runs \cup Structs \cup Writes : ~Open(x)

(***************************************************************************)
(* prompt, skill and promptFromTemplate, up to the loop.                   *)
(***************************************************************************)
StartRun(r) ==
  /\ MayStart(r)
  /\ phase' = "turn" /\ runPromise' = r
  /\ context' = [context EXCEPT ![r] = session]
  /\ Go(r, "creating")
  /\ UNCHANGED <<controller, resolved, queues, store, run, abt, hist>>

\* drainQueuedMessages, and the drain of nextTurn: n messages leave the queue before it is announced.
Drain(r, q, n) ==
  /\ run' = [run EXCEPT ![r].drained = SubSeq(queue[q], 1, n), ![r].from = q, ![r].array = arrays]
  /\ queue' = [queue EXCEPT ![q] = SubSeq(@, n + 1, Len(@))]
  /\ Go(r, "queue_update")

StateCreated(r) ==
  /\ pc[r] = "creating"
  /\ IF queue["nextTurn"] # <<>>
     THEN Drain(r, "nextTurn", Len(queue["nextTurn"]))
     ELSE Go(r, "before_start") /\ UNCHANGED <<run, queue>>
  /\ UNCHANGED <<ctl, arrays, store, context, abt, hist>>

\* Bug: the abort controller is not published.
Bug_BeforeStart(r) ==
  /\ pc[r] = "before_start"
  /\ run' = [run EXCEPT ![r].stage = "loop", ![r].then = "poll", ![r].more = TRUE,
                        ![r].out = Append(@, Item("prompt", r))]
  /\ Go(r, "append")
  /\ UNCHANGED <<ctl, queues, store, context, abt, hist>>

\* Bug: the messages for this turn are replaced by the prompt.
FirstMessages(r) == Append(run[r].out, Item("prompt", r))

BeforeStart(r) ==
  /\ pc[r] = "before_start"
  /\ controller' = r
  /\ run' = [run EXCEPT ![r].stage = "loop", ![r].then = "poll", ![r].more = TRUE,
                        ![r].out = FirstMessages(r)]
  /\ Go(r, "append")
  /\ UNCHANGED <<phase, runPromise, resolved, queues, store, context, abt, hist>>

(***************************************************************************)
(* The loop: messages are appended, then announced; queues are polled.     *)
(***************************************************************************)
Appended(r) ==
  /\ pc[r] = "append"
  /\ session' = Append(session, Head(run[r].out))
  /\ context' = [context EXCEPT ![r] = Append(@, Head(run[r].out))]
  /\ Go(r, "notify")
  /\ UNCHANGED <<ctl, queues, pending, run, abt, hist>>

\* Bug: an off-by-one on the messages left.
Notified(r) ==
  /\ pc[r] = "notify"
  /\ run' = [run EXCEPT ![r].out = Tail(@)]
  /\ Go(r, IF Len(run[r].out) = 1 THEN run[r].then ELSE "append")
  /\ UNCHANGED <<ctl, queues, store, context, abt, hist>>

\* One message or all of them, as the queue's mode is at the moment.
Poll(r, q) == \E n \in {1, Len(queue[q])} : queue[q] # <<>> /\ Drain(r, q, n)

PollSteering(r) ==
  /\ pc[r] = "poll"
  /\ \/ Poll(r, "steer")
     \/ /\ queue["steer"] = <<>>
        /\ Go(r, IF run[r].more THEN "request" ELSE "poll_follow") /\ UNCHANGED <<run, queue>>
  /\ UNCHANGED <<ctl, arrays, store, context, abt, hist>>

PollFollowUp(r) ==
  /\ pc[r] = "poll_follow"
  /\ \/ Poll(r, "followUp")
     \/ /\ queue["followUp"] = <<>>
        /\ run' = [run EXCEPT ![r].then = "agent_end"]
        /\ Go(r, "flush") /\ UNCHANGED queue
  /\ UNCHANGED <<ctl, arrays, store, context, abt, hist>>

DrainAnnounced(r) ==
  /\ pc[r] = "queue_update"
  /\ run' = [run EXCEPT ![r].out = Messages(run[r].drained), ![r].drained = <<>>, ![r].then = "request"]
  /\ announced' = [announced EXCEPT ![run[r].from] = @ \o run[r].drained]
  /\ Go(r, IF run[r].stage = "start" THEN "before_start" ELSE "append")
  /\ UNCHANGED <<ctl, queues, store, context, abt, deferred, sent, faults>>

Replied(r) == \E reply \in {"stop", "calls", "failed"} :
  /\ pc[r] = "request"
  /\ reply = "calls" => run[r].turns < MaxTurns
  /\ run' = [run EXCEPT ![r].reply = reply,
                        ![r].more  = (reply = "calls"),
                        ![r].turns = IF reply = "calls" THEN @ + 1 ELSE @,
                        ![r].out   = <<Item(IF reply = "calls" THEN "calls" ELSE "reply", r)>>,
                        ![r].then  = IF reply = "calls" THEN "tools" ELSE "turn_end"]
  /\ Go(r, "append")
  /\ UNCHANGED <<ctl, queues, store, context, abt, hist>>

\* The batch is done; a tool may ask to terminate.
ToolsDone(r) == \E more \in BOOLEAN :
  /\ pc[r] = "tools"
  /\ run' = [run EXCEPT ![r].out = <<Item("result", r)>>, ![r].then = "turn_end", ![r].more = more]
  /\ Go(r, "append")
  /\ UNCHANGED <<ctl, queues, store, context, abt, hist>>

(***************************************************************************)
(* Save points and the end of a run.                                       *)
(***************************************************************************)
FlushThen(r, l) == run' = [run EXCEPT ![r].then = l] /\ Go(r, "flush")

\* The listeners of turn_end: one that rejects does not prevent the flush.
TurnEnd(r) ==
  /\ pc[r] = "turn_end"
  /\ \/ run' = [run EXCEPT ![r].then = "save_point"] /\ UNCHANGED faults
     \/ run' = [run EXCEPT ![r].then = "save_point", ![r].raised = TRUE] /\ AnyFault
  /\ Go(r, "flush")
  /\ UNCHANGED <<ctl, queues, store, context, abt, deferred, sent, announced>>

SavePoint(r) ==
  /\ pc[r] = "save_point"
  /\ FlushThen(r, IF run[r].reply = "failed" THEN "agent_end" ELSE "snapshot")
  /\ UNCHANGED <<ctl, queues, store, context, abt, hist>>

\* prepareNextTurn has created the next turn's state.
Snapshot(r) ==
  /\ pc[r] = "snapshot"
  /\ Go(r, "poll")
  /\ UNCHANGED <<ctl, queues, store, run, context, abt, hist>>

AgentEnd(r) ==
  /\ pc[r] = "agent_end"
  /\ Go(r, "settled")
  /\ UNCHANGED <<ctl, queues, store, run, context, abt, hist>>

\* The loop has returned; executeTurn flushes once more.
Settled(r) ==
  /\ pc[r] = "settled"
  /\ run' = [run EXCEPT ![r].stage = "final", ![r].then = "final"] /\ Go(r, "flush")
  /\ UNCHANGED <<ctl, queues, store, context, abt, hist>>

\* Bug: a write leaves pendingSessionWrites before it is in the session.
Bug_FlushNext(r) ==
  /\ pc[r] = "flush" /\ pending # <<>>
  /\ run' = [run EXCEPT ![r].drained = <<Head(pending)>>]
  /\ pending' = Tail(pending)
  /\ Go(r, "flushing")
  /\ UNCHANGED <<ctl, queues, session, context, abt, hist>>

\* flushPendingSessionWrites: the first write is appended, then shifted away.
FlushNext(r) ==
  /\ pc[r] = "flush" /\ pending # <<>>
  /\ run' = [run EXCEPT ![r].drained = <<Head(pending)>>]
  /\ Go(r, "flushing")
  /\ UNCHANGED <<ctl, queues, store, context, abt, hist>>

\* Bug: what is shifted away is the last write.
Shifted(s) == IF s = <<>> THEN s ELSE Tail(s)

Flushed(r) ==
  /\ pc[r] = "flushing"
  /\ session' = Append(session, Item("write", run[r].drained[1]))
  /\ pending' = Shifted(pending)
  /\ run' = [run EXCEPT ![r].drained = <<>>]
  /\ Go(r, "flush")
  /\ UNCHANGED <<ctl, queues, context, abt, hist>>

\* Bug: the promise of the run is dropped, not resolved.
Bug_Finish(r) == runPromise' = None /\ Go(r, "returned") /\ UNCHANGED resolved

Finish(r) == runPromise' = None /\ resolved' = resolved \cup {r} /\ Go(r, "returned")

\* A rejection: before the loop it ends the operation; in the loop it makes emitRunFailure report
\* it; there, or in the last flush, it makes the operation reject.
Throw(r) == LET l == run[r] IN
  CASE l.stage = "start" ->
         /\ phase' = "idle" /\ Finish(r)
         /\ UNCHANGED <<controller, run>>
    [] l.stage = "loop" ->
         /\ run' = [run EXCEPT ![r] = [l EXCEPT !.stage = "failing", !.out = <<Item("failure", r)>>,
                      !.then = "turn_end", !.reply = "failed", !.raised = FALSE, !.drained = <<>>]]
         /\ Go(r, "append") /\ UNCHANGED ctl
    [] l.stage = "failing" ->
         /\ run' = [run EXCEPT ![r] = [l EXCEPT !.stage = "final", !.then = "final", !.failed = TRUE,
                      !.drained = <<>>]]
         /\ Go(r, "flush") /\ UNCHANGED ctl
    [] l.stage = "final" ->
         /\ phase' = "idle" /\ controller' = None /\ Finish(r)
         /\ UNCHANGED run

\* Bug: the next turn's state is created before the flush has finished.
Bug_NextContext(r) == context[r]

\* createTurnState reads the session.
NextContext(r) == session

\* Bug: only agent_end makes the harness idle.
Bug_PhaseAfter(r) == phase

\* The phase once executeTurn is over: a rejection makes the harness idle.
PhaseAfter(r) == IF run[r].failed THEN "idle" ELSE phase

\* Bug: the flush is started, not awaited.
AllFlushed(r) == pending = <<>>

FlushDone(r) ==
  /\ pc[r] = "flush" /\ AllFlushed(r)
  /\ LET next == run[r].then IN
     \/ /\ next = "save_point" /\ ~run[r].raised
        /\ Go(r, next) /\ UNCHANGED <<ctl, run, context>>
     \/ /\ next = "save_point" /\ run[r].raised
        /\ Throw(r) /\ UNCHANGED context
     \/ /\ next = "snapshot"
        /\ context' = [context EXCEPT ![r] = NextContext(r)]
        /\ Go(r, next) /\ UNCHANGED <<ctl, run>>
     \/ /\ next = "agent_end"
        /\ phase' = "idle" /\ Go(r, next)
        /\ UNCHANGED <<controller, runPromise, resolved, run, context>>
     \/ /\ next = "final"
        /\ controller' = None
        /\ phase' = PhaseAfter(r)
        /\ Finish(r) /\ UNCHANGED <<run, context>>
  /\ UNCHANGED <<queues, store, abt, hist>>

\* Bug: what was drained is put back behind what was sent meanwhile.
Bug_RolledBack(r) == [queue EXCEPT ![run[r].from] = @ \o run[r].drained]

\* abort() has replaced the array that was drained.
Replaced(r) == run[r].from # "nextTurn" /\ run[r].array # arrays

\* What the queues are after a drain could not be announced: the messages go back to their array.
RolledBack(r) ==
  IF Replaced(r) THEN queue ELSE [queue EXCEPT ![run[r].from] = run[r].drained \o @]

Awaiting == {"creating", "queue_update", "before_start", "append", "notify", "request", "tools",
             "save_point", "snapshot", "flushing", "agent_end", "settled"}

\* A listener, a hook, the session or a callback of the application rejects.
Rejects(r) ==
  /\ pc[r] \in Awaiting /\ AnyFault
  /\ queue' = IF pc[r] = "queue_update" THEN RolledBack(r) ELSE queue
  /\ cleared' = cleared \cup (IF pc[r] = "queue_update" /\ Replaced(r) THEN Range(run[r].drained) ELSE {})
  /\ Throw(r)
  /\ UNCHANGED <<arrays, store, context, aborted, waits, hit, deferred, sent, announced>>

\* The skill or the prompt template is unknown.
Unknown(r) ==
  /\ pc[r] = "creating" /\ Throw(r)
  /\ UNCHANGED <<queues, store, context, abt, hist>>

(***************************************************************************)
(* compact and navigateTree.                                               *)
(***************************************************************************)
\* Bug: it starts while a run is on its way.
StartStruct(s) ==
  /\ MayStart(s)
  /\ phase' = "structural"
  /\ context' = [context EXCEPT ![s] = session]
  /\ Go(s, "preparing")
  /\ UNCHANGED <<controller, runPromise, resolved, queues, store, run, abt, hist>>

Prepared(s) ==
  /\ pc[s] = "preparing" /\ Go(s, "append")
  /\ UNCHANGED <<ctl, queues, store, run, context, abt, hist>>

StructAppended(s) ==
  /\ pc[s] = "append"
  /\ session' = Append(session, Item("structural", s))
  /\ Go(s, "notify")
  /\ UNCHANGED <<ctl, queues, pending, run, context, abt, hist>>

\* It returns, is cancelled, or rejects: the phase is idle again.
StructEnds(s) ==
  /\ \/ pc[s] \in {"preparing", "notify"} /\ UNCHANGED faults
     \/ pc[s] = "append" /\ AnyFault
  /\ phase' = "idle" /\ Go(s, "returned")
  /\ UNCHANGED <<controller, runPromise, resolved, queues, store, run, context, abt, deferred, sent, announced>>

(***************************************************************************)
(* Setters and appendMessage; steer, followUp and nextTurn; abort.         *)
(***************************************************************************)
WriteWhenIdle(w) ==
  /\ pc[w] = "new" /\ phase = "idle"
  /\ Overlap \/ \A x \in Writes : ~Open(x)
  /\ Go(w, "append")
  /\ UNCHANGED <<ctl, queues, store, run, context, abt, hist>>

\* Bug: a write made while busy goes to the session at once.
Bug_WriteWhenBusy(w) ==
  /\ pc[w] = "new" /\ phase # "idle"
  /\ Go(w, "append")
  /\ UNCHANGED <<ctl, queues, store, run, context, abt, hist>>

WriteWhenBusy(w) ==
  /\ pc[w] = "new" /\ phase # "idle"
  /\ deferred' = Append(deferred, w)
  /\ pending' = Append(pending, w)
  /\ Go(w, "returned")
  /\ UNCHANGED <<ctl, queues, session, run, context, abt, sent, announced, faults>>

WriteAppended(w) ==
  /\ pc[w] = "append"
  /\ \/ session' = Append(session, Item("write", w)) /\ Go(w, "returned") /\ UNCHANGED faults
     \/ Go(w, "rejected") /\ AnyFault /\ UNCHANGED session
  /\ UNCHANGED <<ctl, queues, pending, run, context, abt, deferred, sent, announced>>

Send(m) == \E q \in Queues :
  /\ pc[m] = "new"
  /\ q # "nextTurn" => phase # "idle"
  /\ queue' = [queue EXCEPT ![q] = Append(@, m)]
  /\ sent' = [sent EXCEPT ![q] = Append(@, m)]
  /\ Go(m, "returned")
  /\ UNCHANGED <<ctl, arrays, store, run, context, abt, deferred, announced, faults>>

\* Messages for the next turn survive.
Abort(a) ==
  /\ pc[a] = "new"
  /\ cleared' = cleared \cup Range(queue["steer"]) \cup Range(queue["followUp"])
  /\ queue' = [queue EXCEPT !["steer"] = <<>>, !["followUp"] = <<>>] /\ arrays' = arrays + 1
  /\ aborted' = IF controller = None THEN aborted ELSE aborted \cup {controller}
  /\ hit' = [hit EXCEPT ![a] = controller]
  /\ Go(a, "queue_update")
  /\ UNCHANGED <<ctl, store, run, context, waits, hist>>

\* waitForIdle takes the run promise there is; a listener that rejects does not prevent it.
AbortAnnounced(a) ==
  /\ pc[a] = "queue_update"
  /\ waits' = [waits EXCEPT ![a] = runPromise]
  /\ Go(a, "waiting")
  /\ UNCHANGED <<ctl, queues, store, run, context, aborted, hit, cleared, hist>>

\* Bug: the run is not waited for.
AbortReturns(a) ==
  /\ pc[a] = "waiting"
  /\ waits[a] \in resolved \cup {None}
  /\ Go(a, "returned")
  /\ UNCHANGED <<ctl, queues, store, run, context, abt, hist>>

RunStep(r) ==
  \/ StateCreated(r) \/ Unknown(r) \/ BeforeStart(r) \/ Appended(r) \/ Notified(r)
  \/ PollSteering(r) \/ PollFollowUp(r) \/ DrainAnnounced(r) \/ Replied(r) \/ ToolsDone(r)
  \/ TurnEnd(r) \/ SavePoint(r) \/ Snapshot(r) \/ AgentEnd(r) \/ Settled(r)
  \/ FlushNext(r) \/ Flushed(r) \/ FlushDone(r) \/ Rejects(r)

StructStep(s) == Prepared(s) \/ StructAppended(s) \/ StructEnds(s)
AbortStep(a)  == AbortAnnounced(a) \/ AbortReturns(a)

Next ==
  \/ \E r \in Runs : StartRun(r) \/ RunStep(r)
  \/ \E s \in Structs : StartStruct(s) \/ StructStep(s)
  \/ \E w \in Writes : WriteWhenIdle(w) \/ WriteWhenBusy(w) \/ WriteAppended(w)
  \/ \E m \in Msgs : Send(m)
  \/ \E a \in Aborts : Abort(a) \/ AbortStep(a)

Spec == Init /\ [][Next]_vars

\* Listeners, hooks, tools, the provider and the session answer or reject.
Fairness ==
  /\ \A r \in Runs : WF_vars(RunStep(r))
  /\ \A s \in Structs : WF_vars(StructStep(s))
  /\ \A w \in Writes : WF_vars(WriteAppended(w))
  /\ \A a \in Aborts : WF_vars(AbortStep(a))

FairSpec == Spec /\ Fairness

(***************************************************************************)
(* Properties.                                                             *)
(***************************************************************************)
Over(r)  == (run[r].stage = "final" /\ ~run[r].failed) \/ pc[r] \in {"agent_end", "settled"}
Ahead(r) == IF pc[r] = "notify" THEN Tail(run[r].out) ELSE run[r].out
Occ(s, x) == Cardinality({i \in DOMAIN s : s[i] = x})
\* Of the messages of whole, each there once, part has those that are not in gone, in their order.
Remains(part, whole, gone) ==
  /\ Range(part) = Range(whole) \ gone
  /\ \A i, j \in DOMAIN part, k, l \in DOMAIN whole :
       i < j /\ part[i] = whole[k] /\ part[j] = whole[l] => k < l
Entries  == [kind : {"prompt", "calls", "reply", "result", "failure"}, of : Runs]
            \cup [kind : {"message"}, of : Msgs] \cup [kind : {"write"}, of : Writes]
            \cup [kind : {"structural"}, of : Structs]

RunRecord == [stage : {"start", "loop", "failing", "final"}, out : Seq(Entries),
              then : {"request", "poll", "tools", "turn_end", "save_point", "snapshot", "agent_end", "final"},
              drained : Seq(Msgs \cup Writes), from : Queues, array : Nat, reply : {"stop", "calls", "failed"},
              more : BOOLEAN, raised : BOOLEAN, failed : BOOLEAN, turns : 0..MaxTurns]

\* Every variable has its type, and a run that appends or announces messages has one left.
TypeOK ==
  /\ phase \in {"idle", "turn", "structural"} /\ {controller, runPromise} \subseteq Runs \cup {None}
  /\ queue \in [Queues -> Seq(Msgs)] /\ arrays \in Nat
  /\ session \in Seq(Entries) /\ pending \in Seq(Writes)
  /\ pc \in [Ops -> {"new", "returned", "rejected", "preparing", "waiting", "poll", "poll_follow",
                     "turn_end", "flush"} \cup Awaiting]
  /\ run \in [Runs -> RunRecord]
  /\ \A r \in Runs :
       /\ pc[r] \in {"append", "notify"} => run[r].out # <<>>
       /\ pc[r] = "flushing" => pending # <<>> /\ run[r].drained = <<Head(pending)>>
       /\ pc[r] = "queue_update" => run[r].drained \in Seq(Msgs) \ {<<>>}
  /\ context \in [Runs \cup Structs -> Seq(Entries)]
  /\ aborted \cup resolved \subseteq Runs /\ cleared \subseteq Msgs
  /\ waits \in [Aborts -> Runs \cup {None}] /\ hit \in [Aborts -> Runs \cup {None}]
  /\ deferred \in Seq(Writes) /\ {sent, announced} \subseteq [Queues -> Seq(Msgs)]
  /\ faults \in 0..MaxFaults

\* A setter or appendMessage that has returned has its entry in the session or queued, once,
\* whatever listeners, hooks and writes rejected in between (agent-harness.md: "flush one-by-one and
\* are not dropped on failure"). What is called while busy gets to the session in the order of the
\* calls. When a run tells its listeners that it has ended and settled, and the harness is idle, no
\* write waits for it: those made from then on go to the session after all that were made before.
WritesKept ==
  /\ \A w \in Writes :
       pc[w] = "returned" => Occ(session, Item("write", w)) + Occ(pending, w) = 1
  /\ \E n \in 0..Len(deferred) : pending = SubSeq(deferred, n + 1, Len(deferred))
  /\ \A i, j \in DOMAIN deferred, k, l \in DOMAIN session :
       i < j /\ session[k] = Item("write", deferred[i]) /\ session[l] = Item("write", deferred[j]) => k < l
  /\ \A r \in Runs : pc[r] \in {"agent_end", "settled"} => pending = <<>>

\* What the provider is asked, and what compact and navigateTree append to, is the session as it is:
\* nothing was appended behind a run's back between its snapshot and its request, nor behind a
\* structural operation's between what it prepared and its append.
SnapshotIsSession ==
  /\ \A r \in Runs : pc[r] = "request" => context[r] = session
  /\ \A s \in Structs : pc[s] = "append" => context[s] = session

\* An assistant message with tool calls is followed by the results or the failure of its run, never by
\* a write, an own entry of compact or a message: the provider refuses a transcript where they are apart.
CallsMeetResults == \A i \in DOMAIN session : LET e == session[i] IN
  e.kind = "calls" /\ i < Len(session)
  => session[i + 1] \in {Item("result", e.of), Item("failure", e.of)} \/ run[e.of].failed

\* At most one run or structural operation is at work. Once every operation is over, however it
\* failed, the harness is idle and has no run, controller or promise: the next prompt is not refused
\* as busy and waitForIdle does not wait for ever.
IdleAtLast ==
  /\ TypeOK
  /\ Cardinality({r \in Runs : Open(r) /\ ~Over(r)} \cup {s \in Structs : Open(s)}) <= 1
  /\ (\A o \in Runs \cup Structs : ~Open(o)) =>
       phase = "idle" /\ controller = None /\ runPromise = None

\* Each of the three queues is first in, first out: of what was sent to it, all that is not cleared is,
\* in the order it was sent, what runs have announced, then what a run is about to announce, then what is
\* queued, whatever was aborted and rejected. Cleared is what steer and followUp held at an abort(), and
\* what a run had drained from one of them when abort() replaced its array and then the announcement
\* failed: "Queue drains roll back if queue-update notification fails", into the array that is no longer
\* the queue. Unless something has failed, a message that left its queue is in the session once, or its
\* run is about to append it.
QueuesAreFifo == \A q \in Queues :
  LET held == {r \in Runs : pc[r] = "queue_update" /\ run[r].from = q}
      out  == IF held = {} THEN <<>> ELSE run[CHOOSE r \in held : TRUE].drained
      Ways(m) == Occ(session, Item("message", m))
                 + Cardinality({r \in Runs : Open(r) /\ Item("message", m) \in Range(Ahead(r))})
  IN /\ Remains(announced[q] \o out \o queue[q], sent[q], cleared)
     /\ faults = 0 => \A m \in Range(announced[q]) : Ways(m) = 1

\* agent-harness.md on abort: "It aborts the low-level run": an abort while a run is in its loop, and has
\* not told its end, signals it, and returns only after that run is over.
AbortEndsRun ==
  /\ [][(\E a \in Aborts : pc[a] = "new" /\ pc'[a] # "new")
        => {r \in Runs : Open(r) /\ run[r].stage = "loop" /\ ~Over(r)} \subseteq aborted']_vars
  /\ [](\A a \in Aborts : pc[a] = "returned" /\ hit[a] # None => pc[hit[a]] = "returned")

\* Every run, structural operation and abort is over at last, if what it awaits answers or rejects.
Settles ==
  LET waiting == \E o \in Runs \cup Structs \cup Aborts : Open(o) IN waiting ~> ~waiting
=============================================================================
