---------------------------- MODULE AgentSession ----------------------------
(***************************************************************************)
(* AgentSession (coding-agent/src/core/agent-session.ts) over an abstract  *)
(* agent: prompts, queued messages, automatic retry, manual and automatic  *)
(* compaction, deferred bash messages, and what interactive mode and RPC   *)
(* mode do with them.  An action is the code between two awaits.           *)
(***************************************************************************)
EXTENDS Integers, FiniteSets, SequencesExt

CONSTANTS
  Users,         \* the messages a user types, one call each
  Bashes,        \* bash commands a user runs
  FrontEnds,     \* subset of {"interactive", "rpc"}
  MaxRetries,    \* retry.maxRetries
  MaxReplies,    \* the reply from which on the provider answers plainly
  MaxEvents,     \* a bound on what the user does (messages, compact(), bash, cancelling) and what fails
  MaxCompactions,\* a bound on the compactions of a session
  None

ASSUME SessionBounds ==
  /\ FrontEnds \subseteq {"interactive", "rpc"}
  /\ {MaxRetries, MaxReplies, MaxEvents, MaxCompactions} \subseteq Nat
  /\ None \notin Users

VARIABLES
  front,   \* the mode this process runs in
  agent,   \* the Agent: its messages and its active run
  queue,   \* the Agent's queued messages
  shown,   \* _steeringMessages and _followUpMessages
  branch,  \* the active branch of the session: its messages, and its compaction entries by their places
  sess,    \* the other fields of AgentSession
  call,    \* how far prompt() is for each message
  manual,  \* the call of compact()
  ui,      \* interactive mode: held back during compaction, typed ahead, the main loop's call
  hist     \* bookkeeping of the bounds and properties

vars == <<front, agent, queue, shown, branch, sess, call, manual, ui, hist>>

(***************************************************************************)
(* Messages and what the session makes of them.                            *)
(***************************************************************************)
User(m) == [role |-> "user", id |-> m]
Bash(b) == [role |-> "bashExecution", id |-> b]
Result(n) == [role |-> "toolResult", id |-> n]
NoReply == [role |-> "none"]

\* A compaction entry: the messages that precede it, the first one it keeps, and why it was made.
Compaction(k, why) == [at |-> Len(branch.messages), keep |-> k, reason |-> why]
Compactions == Len(branch.compactions)

\* The summary that stands for the last of n compactions.
Summary(n) == [role |-> "compactionSummary", id |-> n]

\* A reply is stamped with the time its request began: here, the compactions there were.
Reply(n, k, u) == [role |-> "assistant", id |-> n, kind |-> k, usage |-> u, epoch |-> agent.since]

\* The messages a branch stands for: from the first that the last compaction keeps.
FirstKept(b) == IF b.compactions = <<>> THEN 1 ELSE Last(b.compactions).keep
buildSessionContext(b) ==
  IF b.compactions = <<>> THEN b.messages
  ELSE <<Summary(Len(b.compactions))>> \o SubSeq(b.messages, FirstKept(b), Len(b.messages))

JustCompacted(b) == b.compactions # <<>> /\ Last(b.compactions).at = Len(b.messages)

Bug_CutPoints(b) == IF JustCompacted(b) THEN {} ELSE FirstKept(b) + 1 .. Len(b.messages)

\* The messages a compaction may keep from: which one depends on their sizes.
CutPoints(b) ==
  IF JustCompacted(b) THEN {}
  ELSE {i \in FirstKept(b) + 1 .. Len(b.messages) : b.messages[i].role \in {"user", "assistant", "bashExecution"}}

isStreaming == agent.at # "idle"
EndsWithReply(ms) == ms # <<>> /\ Last(ms).role = "assistant"
DropReply(ms) == IF EndsWithReply(ms) THEN Front(ms) ELSE ms
LastUsage(ms) == SelectLastInSeq(ms, LAMBDA x : x.role = "assistant" /\ x.kind \in {"stop", "tool", "length"})

\* Errors: a transient one, a limit of the account, too long a context.  A reply of "length" is one that
\* the context left no room for.
Failed(r) == r.kind \in {"error", "limit", "overflow"}
Overflowed(r) == r.kind \in {"overflow", "length"}
Final(r) == r.kind \in {"stop", "length"}

(***************************************************************************)
(* Initially nothing was typed and the session is new.                     *)
(***************************************************************************)
NewCall == [pc |-> "new", stage |-> "own", reply |-> NoReply, willRetry |-> FALSE, keep |-> 0,
            aborted |-> FALSE, batch |-> <<>>]

Init ==
  /\ front \in FrontEnds
  /\ agent = [messages |-> <<>>, at |-> "idle", todo |-> <<>>, then |-> "request", polled |-> FALSE,
              since |-> 0, heard |-> FALSE, owner |-> None, run |-> 0, aborted |-> FALSE]
  /\ queue = <<>> /\ shown = <<>>
  /\ branch = [messages |-> <<>>, compactions |-> <<>>]
  /\ sess = [connected |-> TRUE, bash |-> <<>>, last |-> NoReply, attempt |-> 0,
             overflow |-> FALSE, sleeper |-> None]
  /\ call = [m \in Users |-> NewCall]
  /\ manual = [pc |-> "none", run |-> 0, keep |-> 0, aborted |-> FALSE]
  /\ ui = [held |-> <<>>, inputs |-> <<>>, main |-> None]
  /\ hist = [delivered |-> <<>>, replies |-> 0, errors |-> 0, recovered |-> FALSE, bash |-> {},
             events |-> 0, clean |-> TRUE]

Calls(pcs) == {m \in Users : call[m].pc \in pcs}

\* The calls of prompt() that may still start a run, other than m's.
Others(m) == {x \in Users \ {m} :
  call[x].pc \notin {"new", "input", "held", "done", "rejected", "editor"} /\ ~(call[x].pc = "finish" /\ call[x].stage = "own")}

\* The run that compact() aborted is over.
Waited == manual.pc = "wait" /\ ~(isStreaming /\ agent.run = manual.run)

\* Between these points and the next one prompt() awaits nothing but settled promises.
\* The agent polls at once too: what comes between might as well come before.
Calm == Calls({"called", "ran", "continue", "finish"}) = {} /\ ~Waited /\ agent.at # "poll"

At(m, pc) == [call EXCEPT ![m].pc = pc]
isCompacting ==
  \/ manual.pc \in {"prepare", "summarise", "compacted"}
  \/ Calls({"summarise", "compacted"}) # {}

Bug_FlushBash ==
  /\ agent' = [agent EXCEPT !.messages = @ \o sess.bash]
  /\ sess' = [sess EXCEPT !.bash = <<>>]
  /\ UNCHANGED branch

\* _flushPendingBashMessages
FlushBash ==
  /\ agent' = [agent EXCEPT !.messages = @ \o sess.bash]
  /\ branch' = [branch EXCEPT !.messages = @ \o sess.bash]
  /\ sess' = [sess EXCEPT !.bash = <<>>]

(***************************************************************************)
(* A run of the agent, as the session sees it: messages are pushed to its  *)
(* state, and what listens then handles the event (_handleAgentEvent).     *)
(***************************************************************************)
StartRun(m, msgs, polled, flushed) ==
  [agent EXCEPT !.messages = flushed, !.at = IF msgs = <<>> THEN "poll" ELSE "deliver", !.todo = msgs,
                !.since = Compactions, !.then = "request", !.polled = polled, !.owner = m, !.run = @ + 1]

Pushed(x) == [agent EXCEPT !.messages = Append(@, x), !.todo = <<x>>, !.heard = sess.connected, !.at = "save"]

\* message_start removes the message from what is shown as queued; then it is pushed.
Deliver ==
  /\ agent.at = "deliver"
  /\ LET x == Head(agent.todo) IN
     /\ agent' = Pushed(x)
     /\ shown' = IF sess.connected THEN RemoveFirst(shown, x.id) ELSE shown
     /\ sess' = [sess EXCEPT !.overflow = @ /\ ~sess.connected]
     /\ hist' = [hist EXCEPT !.delivered = Append(@, x.id), !.errors = 0, !.recovered = FALSE]
  /\ UNCHANGED <<front, queue, branch, call, manual, ui>>

\* The provider answers, fails, or notices that the run was aborted.
Replies ==
  LET new == hist.replies + 1 IN
  IF agent.aborted THEN {Reply(new, "aborted", u) : u \in {"low", "high"}}
  ELSE IF hist.replies >= MaxReplies THEN {Reply(new, "stop", "low")}
  ELSE {Reply(new, k, u) : k \in {"stop", "tool"}, u \in {"low", "high"}}
       \cup {Reply(new, k, "none") : k \in {"error", "limit", "overflow"}} \cup {Reply(new, "length", "high")}

ReplyArrives ==
  /\ agent.at = "request"
  /\ \E r \in Replies :
       /\ agent' = [Pushed(r) EXCEPT !.polled = FALSE, !.then = IF Final(r) THEN "end" ELSE "request"]
       /\ hist' = [hist EXCEPT !.replies = @ + 1, !.errors = IF r.kind \in {"error", "limit"} THEN @ + 1 ELSE 0,
                               !.recovered = @ /\ Failed(r)]
  /\ UNCHANGED <<front, queue, shown, branch, sess, call, manual, ui>>

ToolAnswers ==
  /\ agent.at = "tools"
  /\ agent' = Pushed(Result(hist.replies))
  /\ UNCHANGED <<front, queue, shown, branch, sess, call, manual, ui, hist>>

\* Where the loop goes once a message is handled.
AfterMessage(x) ==
  CASE x.role = "user" -> IF agent.polled THEN "request" ELSE "poll"
    [] x.role = "toolResult" -> "poll"
    [] OTHER -> IF x.kind = "tool" THEN "tools" ELSE IF Final(x) THEN "poll" ELSE "end"

\* A reply that is no error ends the count of retries and the recovery from overflow.
Counted(r) == [sess EXCEPT !.last = r, !.overflow = @ /\ Failed(r), !.attempt = IF Failed(r) THEN @ ELSE 0]

\* Extensions have handled message_end, and the message is persisted.
MessageEnd ==
  /\ agent.at = "save"
  /\ LET x == Head(agent.todo) IN
     /\ agent' = [agent EXCEPT !.todo = Tail(@), !.heard = FALSE, !.at = AfterMessage(x), !.since = Compactions]
     /\ branch' = IF agent.heard THEN [branch EXCEPT !.messages = Append(@, x)] ELSE branch
     /\ sess' = IF agent.heard /\ x.role = "assistant" THEN Counted(x) ELSE sess
  /\ UNCHANGED <<front, queue, shown, call, manual, ui, hist>>

Bug_Poll ==
  /\ agent.at = "poll"
  /\ IF queue = <<>>
     THEN agent' = [agent EXCEPT !.at = agent.then, !.since = Compactions]
     ELSE agent' = [agent EXCEPT !.at = "deliver", !.todo = <<User(Head(queue))>>, !.polled = TRUE, !.then = "request"]
  /\ UNCHANGED <<front, queue, shown, branch, sess, call, manual, ui, hist>>

\* getSteeringMessages and getFollowUpMessages, one message at a time.
Poll ==
  /\ agent.at = "poll"
  /\ IF queue = <<>>
     THEN agent' = [agent EXCEPT !.at = agent.then, !.since = Compactions] /\ UNCHANGED queue
     ELSE /\ agent' = [agent EXCEPT !.at = "deliver", !.todo = <<User(Head(queue))>>, !.polled = TRUE, !.then = "request"]
          /\ queue' = Tail(queue)
  /\ UNCHANGED <<front, shown, branch, sess, call, manual, ui, hist>>

\* agent_end was handled: the agent is idle, and prompt() goes on.
RunEnds ==
  /\ agent.at = "end"
  /\ agent' = [agent EXCEPT !.at = "idle", !.aborted = FALSE, !.owner = None, !.then = "request", !.polled = FALSE]
  /\ call' = At(agent.owner, "ran")
  /\ UNCHANGED <<front, queue, shown, branch, sess, manual, ui, hist>>

AgentStep == Deliver \/ ReplyArrives \/ ToolAnswers \/ MessageEnd \/ RunEnds

(***************************************************************************)
(* _checkCompaction: whether a reply calls for a compaction, "compact", or *)
(* for one and another attempt, "retry".                                   *)
(***************************************************************************)
Bug_Stale(r) == FALSE

Stale(r) == r.epoch < Compactions

Check(r, skipAborted) ==
  LET usage == LastUsage(agent.messages)
      from == IF Failed(r) THEN IF usage = 0 THEN NoReply ELSE agent.messages[usage] ELSE r
  IN CASE r = NoReply -> "no"
       [] r # NoReply /\ (Stale(r) \/ (skipAborted /\ r.kind = "aborted")) -> "no"
       [] r # NoReply /\ ~Stale(r) /\ Overflowed(r) -> IF sess.overflow THEN "no" ELSE "retry"
       [] OTHER -> IF from = NoReply THEN "no"
                   ELSE IF ~Stale(from) /\ from.usage = "high" THEN "compact" ELSE "no"

Bug_NotCompacted(m, q) == IF call[m].stage = "check" THEN "hooks" ELSE "finish"

\* What prompt() does when _checkCompaction returned false, with q queued.
NotCompacted(m, q) ==
  CASE call[m].stage = "check" -> "hooks"
    [] OTHER -> IF q # <<>> THEN "continue" ELSE "finish"

\* Start on the job that Check found, with messages ms and the session fields s.
Start(job, ms, s) ==
  /\ agent' = [agent EXCEPT !.messages = IF job = "retry" THEN DropReply(ms) ELSE ms]
  /\ sess' = [s EXCEPT !.overflow = @ \/ job = "retry"]

(***************************************************************************)
(* prompt(): submitted, queued while streaming, held back by interactive   *)
(* mode during a compaction, typed ahead of its main loop.                 *)
(***************************************************************************)
Steer(m) ==
  /\ queue' = Append(queue, m)
  /\ shown' = Append(shown, m)
  /\ call' = At(m, "done")
  /\ UNCHANGED ui

Submit(m) ==
  /\ call[m].pc = "new" /\ hist.events < MaxEvents
  /\ hist' = [hist EXCEPT !.events = @ + 1]
  /\ CASE front = "interactive" /\ isCompacting ->
            /\ ui' = [ui EXCEPT !.held = Append(@, m)]
            /\ call' = At(m, "held")
            /\ UNCHANGED <<queue, shown>>
       [] isStreaming /\ ~(front = "interactive" /\ isCompacting) -> Steer(m)
       [] OTHER -> /\ ui' = IF front = "interactive" THEN [ui EXCEPT !.inputs = Append(@, m)] ELSE ui
                   /\ call' = At(m, IF front = "interactive" THEN "input" ELSE "called")
                   /\ UNCHANGED <<queue, shown>>
  /\ UNCHANGED <<front, agent, branch, sess, manual>>

\* The main loop of interactive mode takes the next input when its prompt() has returned.
NextInput ==
  /\ ui.main = None /\ ui.inputs # <<>>
  /\ ui' = [ui EXCEPT !.main = Head(ui.inputs), !.inputs = Tail(@)]
  /\ call' = At(Head(ui.inputs), "called")
  /\ UNCHANGED <<front, agent, queue, shown, branch, sess, manual, hist>>

\* prompt() throws: the main loop shows the error, a flush of held messages puts them back.
Rejected(m) ==
  LET batch == call[m].batch IN
  IF batch = <<>>
  THEN /\ call' = At(m, "rejected")
       /\ ui' = [ui EXCEPT !.main = IF @ = m THEN None ELSE @]
       /\ UNCHANGED <<queue, shown>>
  ELSE /\ call' = [x \in Users |-> IF x \in ToSet(batch) THEN [NewCall EXCEPT !.pc = "held"] ELSE call[x]]
       /\ ui' = [ui EXCEPT !.held = batch]
       /\ queue' = <<>> /\ shown' = <<>>

\* prompt() up to its first await: refused, or the last reply calls for a compaction, or hooks are next.
Call(m) ==
  /\ call[m].pc = "called"
  /\ \/ /\ isStreaming
        /\ Rejected(m)
        /\ UNCHANGED <<agent, branch, sess, hist>>
     \/ /\ ~isStreaming /\ hist.events < MaxEvents
        /\ FlushBash
        /\ Rejected(m)
        /\ hist' = [hist EXCEPT !.events = @ + 1]
     \/ /\ ~isStreaming
        /\ LET ms == agent.messages \o sess.bash
               i == SelectLastInSeq(ms, LAMBDA x : x.role = "assistant")
               job == IF i = 0 THEN "no" ELSE Check(ms[i], FALSE)
           IN /\ Start(job, ms, [sess EXCEPT !.bash = <<>>])
              /\ hist' = [hist EXCEPT !.recovered = @ \/ job = "retry", !.clean = @ /\ Others(m) = {} /\ manual.pc = "none"]
              /\ call' = [call EXCEPT ![m].pc = IF job = "no" THEN "hooks" ELSE "auth",
                                      ![m].stage = "check", ![m].willRetry = job = "retry"]
        /\ branch' = [branch EXCEPT !.messages = @ \o sess.bash]
        /\ UNCHANGED <<queue, shown, ui>>
  /\ UNCHANGED <<front, manual>>

\* before_agent_start and the memory prefetch have answered: agent.prompt().
BeforeStart(m) ==
  /\ call[m].pc = "hooks"
  /\ IF isStreaming
     THEN FlushBash /\ Rejected(m)
     ELSE /\ agent' = StartRun(m, <<User(m)>>, FALSE, agent.messages)
          /\ call' = [call EXCEPT ![m].pc = "running", ![m].stage = "own"]
          /\ UNCHANGED <<queue, shown, branch, sess, ui>>
  /\ UNCHANGED <<front, manual, hist>>

\* agent.continue(), after a retry, a compaction or because messages are queued.
Continue(m) ==
  LET steered == EndsWithReply(agent.messages) IN
  /\ call[m].pc = "continue"
  /\ IF isStreaming \/ agent.messages = <<>> \/ (steered /\ queue = <<>>)
     THEN FlushBash /\ Rejected(m) /\ hist' = [hist EXCEPT !.clean = FALSE]
     ELSE /\ agent' = StartRun(m, IF steered THEN <<User(Head(queue))>> ELSE <<>>, steered, agent.messages)
          /\ queue' = IF steered THEN Tail(queue) ELSE queue
          /\ call' = [call EXCEPT ![m].pc = "running", ![m].stage = IF @ = "check" THEN "pre" ELSE @]
          /\ UNCHANGED <<shown, branch, sess, ui, hist>>
  /\ UNCHANGED <<front, manual>>

\* The finally of prompt()'s runs; those before the message itself are followed by the hooks.
Finish(m) ==
  /\ call[m].pc = "finish"
  /\ FlushBash
  /\ call' = At(m, IF call[m].stage = "pre" THEN "hooks" ELSE "done")
  /\ ui' = [ui EXCEPT !.main = IF @ = m /\ call[m].stage # "pre" THEN None ELSE @]
  /\ UNCHANGED <<front, queue, shown, manual, hist>>

(***************************************************************************)
(* _handlePostAgentRun: retry, compact, or see whether messages wait.      *)
(***************************************************************************)
\* _checkCompaction(msg), when the session's fields are s.
CheckAfterRun(m, msg, s) ==
  LET job == Check(msg, TRUE) IN
  /\ Start(job, agent.messages, s)
  /\ hist' = [hist EXCEPT !.recovered = @ \/ job = "retry", !.errors = 0]
  /\ call' = [call EXCEPT ![m].pc = IF job = "no" THEN NotCompacted(m, queue) ELSE "auth",
                          ![m].reply = NoReply, ![m].willRetry = job = "retry"]

Bug_Retries(r) == r.kind = "error" /\ sess.attempt <= MaxRetries
Retries(r) == r.kind = "error" /\ sess.attempt < MaxRetries

PostRun(m) ==
  LET msg == sess.last
      rest == [sess EXCEPT !.last = NoReply]
  IN
  /\ call[m].pc = "ran"
  /\ CASE msg = NoReply ->
            /\ sess' = rest /\ call' = At(m, "finish")
            /\ hist' = [hist EXCEPT !.errors = 0]
            /\ UNCHANGED agent
       [] msg # NoReply /\ Retries(msg) ->
            /\ sess' = [rest EXCEPT !.attempt = @ + 1, !.sleeper = m]
            /\ agent' = [agent EXCEPT !.messages = DropReply(@)]
            /\ call' = [call EXCEPT ![m].pc = "sleeping", ![m].reply = msg]
            /\ UNCHANGED hist
       [] OTHER -> CheckAfterRun(m, msg, [rest EXCEPT !.attempt = IF Failed(msg) THEN 0 ELSE @])
  /\ UNCHANGED <<front, queue, shown, branch, manual, ui>>

\* The delay of _prepareRetry is over.
Wake(m) ==
  /\ call[m].pc = "sleeping"
  /\ call' = At(m, "continue")
  /\ sess' = [sess EXCEPT !.sleeper = IF @ = m THEN None ELSE @]
  /\ UNCHANGED <<front, agent, queue, shown, branch, manual, ui, hist>>

\* abortRetry cut the delay short.
RetryCancelled(m) ==
  /\ call[m].pc = "cancelled"
  /\ CheckAfterRun(m, call[m].reply, [sess EXCEPT !.attempt = 0, !.sleeper = None])
  /\ UNCHANGED <<front, queue, shown, branch, manual, ui>>

Bug_abortRetry == IF sess.sleeper = None THEN call ELSE At(sess.sleeper, "cleared")
abortRetry == IF sess.sleeper = None THEN call ELSE At(sess.sleeper, "cancelled")

(***************************************************************************)
(* Compaction.  compaction_end makes interactive mode flush what it held   *)
(* back: one message is prompted, the rest is queued.                      *)
(***************************************************************************)
Flushed(willRetry) == IF willRetry \/ ui.held = <<>> THEN ui.held ELSE Tail(ui.held)

compaction_end(willRetry, calls) ==
  LET rest == Flushed(willRetry) IN
  /\ queue' = queue \o rest
  /\ shown' = shown \o rest
  /\ ui' = [ui EXCEPT !.held = <<>>]
  /\ call' = [x \in Users |->
                IF x \in ToSet(rest) THEN [NewCall EXCEPT !.pc = "done"]
                ELSE IF x \in ToSet(ui.held) THEN [NewCall EXCEPT !.pc = "called", !.batch = ui.held]
                ELSE calls[x]]

\* Credentials are there and prepareCompaction found something to summarise, or not.
AutoAuth(m) ==
  /\ call[m].pc = "auth"
  /\ \/ call' = At(m, NotCompacted(m, queue))
     \/ /\ Compactions < MaxCompactions
        /\ \E k \in CutPoints(branch) :
             call' = [call EXCEPT ![m].pc = "summarise", ![m].keep = k, ![m].aborted = FALSE]
  /\ UNCHANGED <<front, agent, queue, shown, branch, sess, manual, ui, hist>>

Compacted(k, why) ==
  /\ branch' = [branch EXCEPT !.compactions = Append(@, Compaction(k, why))]
  /\ agent' = [agent EXCEPT !.messages = buildSessionContext(branch')]

AutoSummarised(m) ==
  /\ call[m].pc = "summarise" /\ ~call[m].aborted
  /\ Compacted(call[m].keep, "auto")
  /\ call' = At(m, "compacted")
  /\ UNCHANGED <<front, queue, shown, sess, manual, ui, hist>>

AutoFails(m) ==
  /\ call[m].pc = "summarise"
  /\ call[m].aborted \/ hist.events < MaxEvents
  /\ hist' = [hist EXCEPT !.events = @ + IF call[m].aborted THEN 0 ELSE 1]
  /\ compaction_end(FALSE, At(m, NotCompacted(m, queue \o Flushed(FALSE))))
  /\ UNCHANGED <<front, agent, branch, sess, manual>>

AutoDone(m) ==
  LET retry == call[m].willRetry
      more == retry \/ queue \o Flushed(retry) # <<>>
  IN
  /\ call[m].pc = "compacted"
  /\ compaction_end(retry, At(m, IF more THEN "continue" ELSE NotCompacted(m, <<>>)))
  /\ agent' = [agent EXCEPT !.messages = IF retry /\ EndsWithReply(@) /\ Failed(Last(@)) THEN Front(@) ELSE @]
  /\ UNCHANGED <<front, branch, sess, manual, hist>>

\* compact(): disconnected from the agent until the end, and every run aborted first.
Compact ==
  /\ manual.pc = "none" /\ hist.events < MaxEvents
  /\ sess' = [sess EXCEPT !.connected = FALSE]
  /\ call' = abortRetry
  /\ agent' = [agent EXCEPT !.aborted = isStreaming]
  /\ manual' = [pc |-> IF isStreaming THEN "wait" ELSE "prepare", run |-> agent.run, keep |-> 0, aborted |-> FALSE]
  /\ hist' = [hist EXCEPT !.events = @ + 1, !.clean = @ /\ Others(None) = {}]
  /\ UNCHANGED <<front, queue, shown, branch, ui>>

CompactReady ==
  /\ Waited
  /\ manual' = [manual EXCEPT !.pc = "prepare"]
  /\ UNCHANGED <<front, agent, queue, shown, branch, sess, call, ui, hist>>

CompactPrepared ==
  /\ manual.pc = "prepare" /\ Compactions < MaxCompactions
  /\ \E k \in CutPoints(branch) : manual' = [manual EXCEPT !.pc = "summarise", !.keep = k]
  /\ UNCHANGED <<front, agent, queue, shown, branch, sess, call, ui, hist>>

CompactSummarised ==
  /\ manual.pc = "summarise" /\ ~manual.aborted
  /\ Compacted(manual.keep, "manual")
  /\ manual' = [manual EXCEPT !.pc = "compacted"]
  /\ UNCHANGED <<front, queue, shown, sess, call, ui, hist>>

\* Done, cancelled, failed, or there was nothing to compact.
CompactEnds ==
  /\ (manual.pc \in {"prepare", "compacted"}) \/ (manual.pc = "summarise" /\ manual.aborted)
  /\ manual' = [manual EXCEPT !.pc = "none", !.run = 0, !.keep = 0, !.aborted = FALSE]
  /\ compaction_end(FALSE, call)
  /\ sess' = [sess EXCEPT !.connected = TRUE]
  /\ UNCHANGED <<front, agent, branch, hist>>

(***************************************************************************)
(* Bash results, and what the user cancels.                                *)
(***************************************************************************)
recordBashResult(b) ==
  /\ b \notin hist.bash /\ hist.events < MaxEvents
  /\ hist' = [hist EXCEPT !.bash = @ \cup {b}, !.events = @ + 1]
  /\ IF isStreaming
     THEN /\ sess' = [sess EXCEPT !.bash = Append(@, Bash(b))]
          /\ UNCHANGED <<agent, branch>>
     ELSE /\ agent' = [agent EXCEPT !.messages = Append(@, Bash(b))]
          /\ branch' = [branch EXCEPT !.messages = Append(@, Bash(b))]
          /\ UNCHANGED sess
  /\ UNCHANGED <<front, queue, shown, call, manual, ui>>

\* Waiting messages go back to the editor, and Escape also aborts the run.
restoreQueuedMessagesToEditor(abort) ==
  /\ front = "interactive" /\ (abort => isStreaming /\ ~isCompacting)
  /\ queue' = <<>> /\ shown' = <<>> /\ ui' = [ui EXCEPT !.held = <<>>]
  /\ agent' = [agent EXCEPT !.aborted = @ \/ abort]
  /\ call' = [m \in Users |-> IF m \in ToSet(shown \o ui.held) THEN [NewCall EXCEPT !.pc = "editor"] ELSE call[m]]
  /\ UNCHANGED <<front, branch, sess, manual>>

\* Escape during the delay of a retry; abort() of RPC mode ends that and the run.
CancelRetry ==
  /\ front = "rpc" \/ sess.sleeper # None
  /\ call' = abortRetry
  /\ agent' = [agent EXCEPT !.aborted = IF front = "rpc" THEN isStreaming ELSE @]
  /\ UNCHANGED <<front, queue, shown, branch, sess, manual, ui>>

abortCompaction ==
  /\ front = "interactive" /\ isCompacting
  /\ call' = [m \in Users |-> [call[m] EXCEPT !.aborted = @ \/ call[m].pc = "summarise"]]
  /\ manual' = [manual EXCEPT !.aborted = @ \/ manual.pc \in {"prepare", "summarise"}]
  /\ UNCHANGED <<front, agent, queue, shown, branch, sess, ui>>

Cancel ==
  /\ hist.events < MaxEvents
  /\ hist' = [hist EXCEPT !.events = @ + 1]
  /\ CancelRetry \/ abortCompaction \/ \E abort \in BOOLEAN : restoreQueuedMessagesToEditor(abort)

-----------------------------------------------------------------------------
Settle(m) == PostRun(m) \/ Continue(m) \/ Finish(m)
PromptStep(m) == BeforeStart(m) \/ Wake(m) \/ RetryCancelled(m) \/ AutoAuth(m) \/ AutoSummarised(m) \/ AutoDone(m)
CompactStep == CompactPrepared \/ CompactSummarised \/ CompactEnds
UserStep == Compact \/ Cancel \/ (\E m \in Users : Submit(m)) \/ (\E b \in Bashes : recordBashResult(b))

\* What awaits nothing comes first; hooks that return at once may come between.
Next ==
  \/ \E m \in Users : Call(m)
  \/ Calls({"called"}) = {} /\ (Poll \/ CompactReady \/ \E m \in Users : Settle(m) \/ (~Calm /\ BeforeStart(m)))
  \/ Calm /\ (AgentStep \/ NextInput \/ CompactStep \/ UserStep \/ \E m \in Users : PromptStep(m) \/ AutoFails(m))

Spec == Init /\ [][Next]_vars

\* Providers, tools, hooks and summaries answer; delays end; the main loop goes on.
FairSpec ==
  /\ Spec
  /\ WF_vars(Next /\ UNCHANGED hist.events)

(***************************************************************************)
(* Properties.  hist.clean says that calls of prompt() and compact() did   *)
(* not overlap and that no continue() was refused; README 6 shows what     *)
(* becomes of the others without it.                                       *)
(***************************************************************************)
AtRest ==
  /\ ~isStreaming /\ manual.pc = "none" /\ ui.inputs = <<>>
  /\ \A m \in Users : call[m].pc \in {"new", "done", "held", "rejected", "editor"}

\* A message reaches the agent once, and waits in no queue after that, however retries,
\* compactions and the flushes of what was held back interleave.
EachOnce == hist.clean =>
  /\ IsInjective(hist.delivered)
  /\ ToSet(hist.delivered) \cap (ToSet(queue) \cup ToSet(ui.held) \cup ToSet(ui.inputs)) = {}

\* A tool result follows its call at once, and a call its result: a deferred bash message or a
\* compaction never comes between them, neither for the provider nor in the session file.
Paired(ms) == \A i \in DOMAIN ms :
  /\ ms[i].role = "toolResult" => i > 1 /\ ms[i - 1].role = "assistant" /\ ms[i - 1].id = ms[i].id
  /\ (ms[i].role = "assistant" /\ ms[i].kind = "tool" /\ i < Len(ms)) => ms[i + 1] = Result(ms[i].id)
CallsMeetResults == hist.clean =>
  Paired(agent.messages) /\ Paired(branch.messages)

\* At rest the agent's messages are those the session file would restore, apart from the
\* failed replies that retries and overflow recovery took out; and the file has every message
\* the agent ever saw, also those that a compaction has summarised.
Fruitless(r) == Failed(r) \/ Overflowed(r)
Lasting(ms) ==
  LET kept[i \in 0..Len(ms)] ==
        IF i = 0 THEN <<>>
        ELSE IF ms[i].role = "assistant" /\ Fruitless(ms[i]) THEN kept[i - 1] ELSE Append(kept[i - 1], ms[i])
  IN kept[Len(ms)]
ContextIsSession == (AtRest /\ hist.clean) =>
  /\ Lasting(agent.messages) = Lasting(buildSessionContext(branch))
  /\ \A m \in ToSet(hist.delivered) : Contains(branch.messages, User(m))

\* Usage from before a compaction never sets off another one.
NoStaleCompaction == hist.clean => \A i, j \in DOMAIN branch.compactions :
  (i < j /\ branch.compactions[j].reason = "auto") =>
    \E k \in branch.compactions[i].at + 1 .. branch.compactions[j].at :
      branch.messages[k].role = "assistant" /\ branch.messages[k].epoch >= i

\* No message is left in the queue when the prompt that kept the agent busy returns, even one
\* that came after the last poll, during a retry's delay or during a compaction; and none is
\* shown as waiting.
NothingLeft == (AtRest /\ hist.clean) => (queue = <<>> /\ shown = <<>>)

\* The provider fails at most 1 + maxRetries times in a row before prompt() gives up, and a
\* context overflow is recovered from once, until a reply succeeds or a message comes: the
\* next one is reported.
RetriesBounded ==
  /\ [](hist.errors <= MaxRetries + 1)
  /\ [][\A m \in Users : call'[m].willRetry /\ ~call[m].willRetry => ~hist.recovered]_vars

\* prompt() returns: retries, compactions and queued messages come to an end.
PromptReturns == \A m \in Users :
  call[m].pc = "called" ~> call[m].pc \in {"done", "rejected", "held", "editor"}

\* A prompt that throws has not delivered its message, so that the user may send it again: sdk.md says that
\* "Failures after acceptance are reported through the normal event and message stream", and rpc.md that
\* after an overflow "the agent will automatically retry the prompt".
RejectedIsUndelivered == \A m \in ToSet(hist.delivered) : call[m].pc # "rejected"
=============================================================================
