# A verification project for FinancePi

FinancePi is a monorepo of TypeScript packages: a coding and finance agent
(`packages/coding-agent`) on an agent core (`packages/agent`), a layer over model
providers (`packages/ai`), market-data clients (`packages/finance`,
`packages/crypto`) and a terminal UI (`packages/tui`). This directory holds TLA+
modules that model its core logic, TLC configurations that check them on small
instances, and proofs checked by TLAPS. Every definition is translated from the
source; `PROJECT.json` names, for each one, the file and the lines it stands for.

Everything here runs in one JavaScript thread per process. Code runs without
interruption from one `await` to the next, so **an action is the code between two
awaits** and a program counter names the await a call is parked at. Interleaving,
where the hazards are, happens at awaits: of listeners, hooks, tools, the provider,
the file system, other processes' locks.

## 1. Inventory

| Component | State it keeps | Operations | Interacts with |
|---|---|---|---|
| `Agent` (`agent/src/agent.ts`) | transcript, streaming message, pending tool calls, steering and follow-up queues with drain modes, the active run and its AbortController | prompt, continue, steer, followUp, clear, abort, reset, processEvents | calls the loop; awaits subscribed listeners on each event |
| Agent loop (`agent/src/agent-loop.ts`) | one run's context copy, pending messages, tool batch | turns: request, stream, tool batch, polls | provider, tools, hooks, Agent's queues through callbacks |
| `AgentHarness` (`agent/src/harness/agent-harness.ts`) | phase, three queues, pending session writes, abort controller, run promise | prompt/skill/template, steer/followUp/nextTurn, setters, compact, navigateTree, abort | loop, `Session`, hooks and subscribers |
| `Session` and storages (`agent/src/harness/session`) | entry tree, leaf, labels; a JSONL file | append*, moveTo, setLeafId, open, fork | file system |
| `AgentSession` (`coding-agent/src/core/agent-session.ts`) | queue mirrors, retry and compaction state, deferred bash messages | prompt, queue*, retry, compact, recordBashResult, abort | Agent, SessionManager, extensions |
| `SessionManager` | entry tree, leaf, whether the file was flushed | append, branch, fork, open, migrate | file system (synchronous) |
| Compaction, branch summaries | none (pure) | cut point, kept entries, entries to summarise | harness and AgentSession |
| `EventStream` (`ai/src/utils/event-stream.ts`) | queue, waiting consumers, done, result | push, end, iterate, result | providers, loop |
| `AuthStorage`, `SettingsManager` | in-memory copy, modified fields, write queue | get/set/refresh, flush, reload | lock files shared by processes |
| Memory store | memory files | read, write (batch), compact | file system, tools running in parallel |
| File mutation queue | chain of promises per file | withFileMutationQueue | edit and write tools |
| RPC client and mode | pending requests | send, handleLine, timeouts, exit | child process |
| Providers, clients, tools, extensions, UI | | | external to the models: they answer in any way their types allow |

Hard behaviours: callbacks awaited in the middle of a state change; failures of
listeners and hooks at any await; parallel tools that outlive the run that started
them; abort at any time; messages queued while a run ends; two processes on one
file; a crash in the middle of a write. `PROJECT.json` lists each hazard at its line
with the properties that cover it.

What makes each component correct:

- **Agent**: the model sees the transcript the user sees; every call a model makes
  is answered, in order, before it is asked again; each message sent is delivered
  once and in order; a run always settles, and announces its end last and once.
- **AgentHarness**: one structural operation at a time; no session write lost,
  repeated or reordered; queues roll back when a notification fails; settled means
  settled.
- **Session storage**: entries are never changed or lost; the active branch holds
  what was appended to it; after a crash the file opens to what was acknowledged.
- **AgentSession**: bounded retries, one overflow recovery per failure, no deferred
  message inside a tool exchange, nothing queued left behind while idle.
- **Settings, auth, memory**: an instance knows what it has not saved, and writes over
  another's only what its own user gave it; one refresh per expired token as long as its
  lock is not taken; no memory file is torn or over its limit.
- **EventStream, file queue, RPC**: each event once and in order; consumers end;
  mutual exclusion; every request settles.

## 2. The project and its order

| Module | What it models | Checked by | Proved in |
|---|---|---|---|
| `Agent` | the agent and its loop, await by await | `MCAgent`: `agent_faults`, `agent_live` | `AgentProofs` |
| `AgentMailbox` | what `Agent` promises about messages (abstract) | `MailboxKept` in `agent_faults` | `AgentProofs` |
| `SessionTree` | the harness's session over its JSONL file | `MCSessionTree`: `session_serial`, `session_shared`, `session_overlap` | `SessionTreeProofs` |
| `SessionLog` | the log such a session is (abstract) | `FileIsLog` in `session_serial` | `SessionTreeProofs` |
| `AgentHarness` | the harness over an abstract loop and an atomic session | `MCAgentHarness`: `harness`; `MCComponents`: `waits` | `AgentHarnessProofs` |
| `AgentSession` | the coding agent's session over an abstract agent | `MCAgentSession`: `session_prompts`, `session_retries`, `session_recover` | `AgentSessionProofs`, `AgentSessionContextProofs` |
| `Compaction` | cut points, summaries, the context and the request | `files`, `compaction_forgets` | `CodingSessionProofs` |
| `SessionManager` | the coding agent's session files | `files` | `CodingSessionProofs` |
| `SettingsManager`, `AuthStorage`, `MemoryStore` | files that several processes or tools share | `files` | `SharedFilesProofs` |
| `EventStream`, `RpcClient` | what hands over, waits and answers | `waits` | `ChannelProofs` |
| `FileMutationQueue` | edits of one file, one after another | `waits` | `SharedFilesProofs` |

The layers are composed by what one sees of the other: `AgentHarness` and
`AgentSession` contain the loop as the events and awaits they observe (`Agent` has the
awaits inside), their sessions as sequences of entries (`SessionTree`,
`SessionManager` and `Compaction` have what becomes of them).

What would come next: the listing and migration of session files.

## 3. `Agent`

`Agent.tla` models `agent.ts` and `agent-loop.ts` as one state machine. `pc` is the
await the run is parked at: the listeners of an event (`agent_start`, `msg_start`,
`msg_end`, `turn_start`, `tool_start`, ...), the transform and key look-up before a
request (`request`), the provider (`stream`, `streaming`), the parallel tools
(`tools_running`), or a queue poll. The other variables are the fields of `Agent`
and the locals of `runLoop` and of the batch executors, under their names.
`outbox` is the array a `for` loop is emitting messages from (prompts, polled
messages, tool results); `results` the tool results already emitted; `task` how far
each call of a batch is.

The user's actions (`Prompt`, `Enqueue`, `ClearQueue`, `SetQueueMode`, `Abort`,
`Reset`, `ContinueFromQueue`, `ContinueFromTranscript`, `DropFailedReply`) happen at
any await. `ToolStep` and `ToolUpdates` are tools running in parallel. `RunRejects`,
`ToolRejects`, `UpdateRejected` and `FailureRejects` are listeners and hooks that
reject; they unwind the run to `handleRunFailure`.

Bookkeeping that the code does not have: `turn`, `base` (which calls belong to the
run), `ended`, `late` (events after `agent_end`), `dirty` (reset during the run), and
the counters the bounds apply to.

Abstractions. A message is its role and identity. `message_update` events are not
steps. Hooks that replace content or arguments are left out, since no property tells
contents apart; hooks that block a call, fail, or ask to terminate are there.
`handleRunFailure` is reached from `RunRejects` and `ToolRejects` in the step of the
rejection, since nothing is awaited in between.

### Runs

| Run | Question | Bounds |
|---|---|---|
| `agent_faults` | do transcript, context, results and pending calls agree when any listener or hook rejects, with aborts and a reset, does every run announce its end, and does `Agent` keep `AgentMailbox`'s promise? | two messages, prompts of up to two, two calls per parallel batch, two runs, both drain modes, one fault and one rejection of the report of it, one reset |
| `agent_live` | is `agent_end` final while nothing rejects, and does every run settle? | two messages, prompts of up to two, batches in both execution modes, two runs, one fault and one rejection of its report |

The bounds are the smallest at which the cases meet: two calls give a batch an order
to get wrong and a call to leave behind; two runs let a tool of one report into the
other and let a message queued during one be delivered by the next; the rejection of
the report of a failure is the second one that matters. In `agent_faults` the queues
are in either drain mode for the first run and in the default one for the second
(`ModesFirst`, an action constraint), which keeps the run short; user messages are symmetric there. Deadlock
is not checked: with every bound used up the user has nothing left to do and the agent
is idle for good.

`MailboxKept` is the refinement: the end of `Agent.tla` maps the two queues to the lanes of
`AgentMailbox`, what the run has picked up to its `hand`, and the faults to its `failures`.
A message leaves its lane in three ways only: from the front into the hand of a run; by
`Withdraw`, which is `clearSteeringQueue` or `clearFollowUpQueue` and is told from any other
loss by `takenBack`, a variable that only these calls and `reset()` change; by `Clear`, which
is `reset()`. A message in hand leaves it into the transcript, or in the one step (`Fail`)
in which a listener or a hook rejects and the fault is counted. So a model that lost messages
at any other step, or that lost queued ones with a rejection, would not refine it.

### Fairness

`FairSpec` assumes that listeners, hooks, the provider and tools return or reject
(`WF` of the loop's steps together, since they are one thread of control, and of each
tool's). JavaScript's job queue runs every continuation that is ready. Nothing is
assumed of the user, and no fault is required.

### What the properties are conditional on

- `AgentEndIsFinal` is about behaviours in which nothing rejects. `agent.ts:231`
  documents `agent_end` as the final event of a run, but `Promise.all` at
  `agent-loop.ts:502` rejects on the first call that fails, the run reports its failure
  and ends, and the other calls of the batch report after it, possibly into the state of
  the next run. Without the condition TLC shows it.
- After a reply that failed or was aborted, `agent-loop.ts:196` returns without polling
  the queues, so `agent_end` is emitted while messages wait; a comment at
  `agent-session.ts:1214` says both queues are drained before it. They stay queued and a
  later run delivers them, which is what `MailboxKept` promises.
- `RunsEndWithAgentEnd` excepts the step in which a listener rejects one of the events with
  which that very run reports its failure. Rejections in runs before it excuse nothing.
- `RequestSeesTranscript` excepts a run during which `reset` was called.

### Proofs

`AgentProofs.tla` proves, for all values of the constants:

- `TypeCorrect`: `Spec => []TypeOK`. `TypeOK` is not inductive: that the head of the
  outbox exists, that the call at hand is one of the reply's, that a request was made
  before a reply arrives, are facts about where the run is parked. `Parked` states
  them, and `TypeInv == TypeOK /\ Parked` is inductive (`TypeStep`, one step per
  action and one sub-step per group of variables).
- `CopiesAlwaysAgree` and `RequestsSeeTranscript`: the loop's context and Agent's
  transcript are updated by different code at different awaits. `CopiesAgree` says, for
  every await, which messages are in one and not yet in the other, and is inductive
  relative to `TypeInv` (`CopiesStep`); at `request` it says they are equal. The
  sequence identities it needs are `SeqAlgebra`.

- `RequestsArePaired`, `OrderOfResults`, `NoCallLeftPending`, `NothingAfterAgentEnd` and
  `RunsEndTold`: what a batch leaves behind. Their common invariant says, for each await,
  what became of each call of the reply: how far it is (`TasksFollow`), whether it is in
  `pendingToolCalls` (`PendingFollows`) and how many events may still come for it
  (`Counted`); that nothing is in hand between turns (`Quiet`); that a run which is over
  told its end (`EndTold`); that messages of earlier runs
  and turns have lower numbers (`Ages`); and that the transcript consists of replies each
  followed by its results in order (`ResultsFollow`), complete but for the batch at hand
  (`ContextAnswered`, `ResultFits`).

The proof of `OrderOfResults` failed at first where a batch is launched: `Launch` started
tasks of an earlier reply too when that reply's batch had been cut short, which the code,
whose tasks are a local array, does not do. The model has the condition now.

The same module proves `KeepsMailbox == Spec => MailboxKept`: the initial states
and every step of `Agent` map to those of `AgentMailbox`. Beyond the invariants above
it needs `Picked`: what a run holds outside of the queues is of one lane, and it holds
something only at the events of messages. Then a step either takes from one end of a lane,
adds at the other, or leaves both (`DrainStays`, `DropsHand`, `HandDelivered`, `QueueLane`).

Only `BoundsAssumption` is assumed. `CopiesAgree` is not a property of a run: the proof
covers it. Liveness (`RunSettles`) stays with TLC.

## 4. `SessionTree`

`SessionTree.tla` models `session.ts` over `jsonl-storage.ts`. A call of an `append*`
method or of `moveTo` goes through the awaits of the code: it takes an id
(`CreateEntryId`; the ids of `moveTo`'s leaf entry and summary in `MoveTo` and
`SummaryId`), reads the leaf for its parent (`ReadLeaf`), writes its line
(`LineWritten` or `WriteFails`), and only then enters memory (`Commit`). `draft` is
the entry a call has in hand. `file` is the lines after the header with how each
ends; `entries` and `leaf` are what the storage keeps in memory. `Crash` forgets
memory and the calls, `Open` is `JsonlSessionStorage.open`.

Ids are modelled by what `generateEntryId` makes of a uuidv7: its first eight digits
are the upper half of a timestamp and the same for 65 seconds (`Short(window)`;
`Tick` moves to the next window), so a second entry within a window takes the whole
uuid (`Full`), which never comes twice.

An entry is its id, parent, kind and target. The nine `append*` methods differ in
payload only. `Leftover` is what an `appendFile` that does not complete may leave:
nothing, part of the line (`cut`), or the line without its newline (`open`); a later
line then continues it, and `Readable` says when a file still loads.

Not modelled: the label cache and `appendLabel`'s look-up, `memory-storage.ts` (the
same steps without a file), `buildSessionContext`, and the repositories.

### Runs

| Run | Question | Bounds |
|---|---|---|
| `session_serial` | calls one after another: is memory the file, and the file the log of `SessionLog`, in which every entry continues the branch under a new id? | three calls, two windows, two crashes, one failing write |
| `session_shared` | calls that overlap and writes cut off: do all ids resolve, is every answered entry kept? | three calls in flight, one crash, one failing write, both ways to cut |
| `session_overlap` | finding: overlapping appends | two calls |

Three calls are enough for a branch off a branch: an append, a move with a summary,
an append after it. Two crashes let a reopened session crash again. Calls are
symmetric. Deadlock is not checked: when all calls have been made nothing is left to
do.

### Finding

`session-format.md` says that entries form a tree via `id` and `parentId`. With two
calls in flight `generateEntryId` gives both the same short id, because it looks only
among the entries already written; `byId` then keeps one of them, and a call whose
leaf is read after the other's commit makes itself its own parent, on which
`getPathToRoot` does not terminate. `session_overlap` shows it. `AgentHarness` awaits
its appends within an operation, but setters called while it is idle do not exclude
one another.

That a file whose last line is cut does not open at all is intended
(`test/harness/storage.test.ts` asks for it) and no property says otherwise; the
model shows one more way to get there than a crash: after an append that failed
half-way, the next one is written onto the same line and is answered as usual.

### Proofs

`SessionTreeProofs.tla` proves, for any calls, any number of them in flight, crashes
and faults:

- `TypeCorrect`, whose `TypeOK` is in no run. The part about calls is `CallTypeOK`.
- `PathsAlwaysResolve`, by the invariant `Resolvable`: what is in memory is in the
  file, and lines, entries and entries in hand refer only to what is already known
  there. `FileGrows` and `CallRooted` are the two ways a step can matter to it.
- `AnswersAreKept`, by `Kept`, which adds the calls whose line is written and that
  have not answered yet; `LinesStay` says the file only grows.
- `SerialCallsKeepLog` and `SerialMemoryIsFile`, for `MaxInFlight <= 1` and
  `Cuts = {}`: the session implements `SessionLog`. The invariant `Serial` says that
  memory lags the file by the line just written and no more, that the entry in hand
  has a new id and continues the active branch, and that no uuid comes twice. Both
  assumptions are needed: `session_overlap` shows the first, and a cut line the
  second.

Only `SessionAssumption` is assumed.

## 5. `AgentHarness`

`AgentHarness.tla` models `agent-harness.ts`. The calls of its public methods are the
constants: `Runs` (`prompt`, `skill`, `promptFromTemplate`), `Structs` (`compact`,
`navigateTree`), `Writes` (the setters and `appendMessage`), `Msgs` (`steer`,
`followUp`, `nextTurn`) and `Aborts`. Each is made at most once, at any await of the
others that its code allows.

The loop is what the harness sees of it: the messages it appends and announces
(`Appended`, `Notified`), the reply and the tools (`Replied`, `ToolsDone`), the queue
polls, and the events at which the harness does something (`TurnEnd`, `SavePoint`,
`AgentEnd`, `Settled`). The session is the sequence of its entries; an append is one
await, after which the entry is there (`SessionTree` has the awaits inside).
`flushPendingSessionWrites` is called from four places; `FlushNext` and `Flushed` are
its loop and `run[r].then` says where it returns to (`FlushDone`). `run[r].stage` is
which handlers a rejection meets, and `Throw` what they do: before the loop the phase
is reset, in the loop `emitRunFailure` begins, there or in the last flush the call
rejects.

`arrays` stands for the identity of the two arrays that `abort` replaces: a drain
remembers which it took from, as `drainQueuedMessages` does by its parameter.
`deferred`, `sent`, `announced`, `cleared` and `hit` are bookkeeping of the properties.

`Overlap = FALSE` is an application that awaits each run and structural operation,
and each write it makes while idle, before it starts the next. The harness itself does
not ask for it: its phase is idle before `agent_end` is announced. Steering, aborts and
writes during a run are made at any await in both cases.

### Runs

| Run | Question | Bounds |
|---|---|---|
| `harness` | are session writes kept and in order, snapshots the session, calls next to their results, queues first in first out, does abort reach the run and wait for it, and does the harness end idle, whatever rejects? | two runs with two writes and two rejections, with a structural operation, a write and one rejection, or with two messages, an abort and one rejection |
| `waits` (with others, section 7) | does every run, structural operation and abort end? | one of each, a write, two rejections |

Two rejections are what it takes to fail a run and then the report of its failure; two
runs let the second meet what the first left; a run with a tool turn has a save point
in its middle; the second message arrives while the first is drained. `EitherSpec`
splits the instance: writes and structural operations touch the session and `pending`,
messages and aborts the queues and the controller, and a behaviour with all of them at
once is out of reach. Both halves have the whole run. Runs, writes and messages are
symmetric. Deadlock is not checked: once each call was made nothing is left to do.

`FairSpec` assumes that what a run, a structural operation, a write or an abort awaits
answers or rejects. Callers of `abort` are not listeners of the run they abort: such a
listener would wait for itself, which `agent-harness.md` says it may not do.

### What the properties are conditional on

- `agent-harness.md:88` says pending writes are flushed "at operation settlement".
  `compact`, `navigateTree` and a prompt refused before its loop set the phase to idle
  without a flush (`agent-harness.ts:760`), and a write made while idle then overtakes
  the queued one. This is why `WritesKept` is about the order of the writes that are
  queued, and about runs that tell their end.
- `QueuesAreFifo` speaks of all that was sent and is not `cleared`. Cleared is what `abort`
  found in steer and followUp, and the messages of a drain whose announcement fails after
  `abort` has replaced the array they came from: `drainQueuedMessages` puts them back into the
  old array, so they are in no queue, and abort does not report them (`Replaced`; `Rejects`
  counts them in the step that loses them). Nothing else is excepted: the order holds of the
  rest through every abort and rejection. That what was announced is in the session once, or
  about to be appended, is said of behaviours without a rejection, since a run that fails
  takes what it had in hand with it.
- A write that waits for ever satisfies `WritesKept`: that nothing flushes it is the first
  item above, and no property catches it.
- `Overlap = FALSE`. The phase is idle from `agent_end` on, so a run may start while the
  one before it is returning. With `Overlap = TRUE` TLC violates `AbortEndsRun` (the
  older run's `finally` clears the controller and the promise of the newer one) and `WritesKept` (two
  flushes append the same first write and both shift). `agent-harness.md` lists "Audit
  whether `settled` can fire too early" as open.

### Proofs

`AgentHarnessProofs.tla` proves six theorems, one for each property of the run `harness`,
for any number of runs, structural operations, writes, messages, aborts and rejections, and
loops of any number of turns. They assume `~Overlap`, an application that awaits each call
before the next one, for the reason given above: without it two of the properties do not
hold of the code. The argument, from the inside out:

- `Types`, and what the control of a run implies: where each call is (`Places`), what the
  phase, the controller and the promise are then (`Control`), and what a drain or a flush
  has in hand (`InHand`, `Mail`).
- `OneAtATime` and `AbortsEndRuns`: calls that take turns leave nothing set behind
  (`Signalled`: a run that was in its loop when abort was called has seen the signal).
- `SnapshotsAreSession`: what a run knows is the session, but for the message it is about to
  append (`Synced`, `Outgoing`).
- `WritesAreKept`: a write is in the session, at the head of a flush or in `pending`,
  once (`Sent`), in the order of the calls (`Fifo`), and a run tells its end flushed
  (`EndFlushed`).
- `QueuesStayFifo`: the same for messages, three queues and a drain that may be rolled back,
  by what `Remains` of the messages sent when those that are cleared are left out (`Delivered`,
  for whatever was aborted and rejected).
- `CallsAreAnswered`: the entries after the last answered reply are the results that the
  current batch has so far (`LastAnswered`, `Placed`).

A step disturbs few variables, so the frame comes first: `Aside`, `RunFrame` and
`OtherFrame` say what a part of the invariant depends on, and each action is then checked for
what it changes. The proof showed that `TypeOK` once claimed more than the code keeps (a
failed drain's messages, from the third rejection on), and that the constants' sets of calls
must be disjoint, which `HarnessAssumption` now says.

## 6. `AgentSession`

`AgentSession.tla` models `agent-session.ts` with the two front ends that decide when
its methods are called: interactive mode (a main loop that takes one input at a time,
messages held back during a compaction, Escape) and RPC mode (commands at any time).
The agent below is what the session sees of it: messages are pushed, `message_end`
handlers run at an await (`save`), a reply arrives, tools answer, the queue is polled,
the run ends. `call[m].pc` is the await at which `prompt()` of message `m` is parked,
from `called` over the checks before the prompt (`hooks`, `auth`, `summarise`) and the
run to `_handlePostAgentRun` (`ran`, `sleeping`, `continue`, `finish`). `stage` says
whether a run is its own or one that the check before it started.

What awaits nothing but settled promises is not interleaved with the rest (`Calm`);
that makes the difference between a queue that is polled and one that is missed.
A reply is a kind (stop, tool call, retryable error, error of a provider's limit, which is not
retried, overflow error, a reply cut off at its length that counts as an overflow, aborted),
whether its usage is above the threshold (an aborted reply may say so too, which the check
before a prompt looks at), and the number of compactions when its request began,
which stands for its time stamp. `branch` is the path to the leaf, its messages and its
compactions each in order; a compaction says how many messages precede it. A compaction keeps from any entry `CutPoints` allows;
which one depends on sizes. More than two held messages are flushed in one step.

| Run | Question | Bounds |
|---|---|---|
| `session_prompts` | is each message delivered once and shown as queued until then, does the context agree with the session file, do calls keep their results, is no compaction set off by stale usage, is nothing left in a queue? | two messages and one event more (`compact()`, bash, cancelling, a failure), one retry, two compactions, both front ends |
| `session_retries` | are retries and overflow recovery bounded, does `prompt()` return? | two messages, three replies that may fail, one retry, one compaction, two events |
| `session_recover` | finding | one message, three replies, one compaction |

`FairSpec` is `WF` of the steps that are not the user's: providers, tools, hooks and
summaries answer, delays end, the main loop goes on. The user need not do anything.

### Finding

`session_recover`: the recovery from an overflow rebuilds the context from the session file,
where the reply that overflowed still is, and removes it only if it is an error
(`agent-session.ts:2271`). So the context ends in a reply in two cases, and TLC shows the
shorter one: the reply was cut off at its length, with the input filling the window
(`utils/overflow.ts:147`), which `_checkCompaction` treats as an overflow to retry; or a retry
had dropped a failed reply from the agent's messages before, the file has two failed replies
at its end, and one is removed. `agent.continue()` then throws, and `prompt()` rejects although
its message was delivered. `docs/sdk.md:203` says that failures after acceptance are reported
through the event stream, `docs/rpc.md:938` that the agent retries the prompt, and the comment at
`agent-session.ts:2093` that the reply is not wanted in the context of the retry.

### What `hist.clean` excludes

`EachOnce`, `ContextIsSession`, `CallsMeetResults`, `NoStaleCompaction` and `NothingLeft` are about
behaviours in which no call of `prompt()` found the agent idle while another, or a `compact()`, was
under way, no `compact()` was called while a prompt was under way (be it running, retrying,
compacting or at its checks), and no `continue()` was refused. That is all `hist.clean` is; a
behaviour is excepted from the step on at which it becomes false. `RetriesBounded` and
`PromptReturns` need none of it. With the condition on `compact()` alone dropped, TLC violates
`ContextIsSession`, `CallsMeetResults`, `NoStaleCompaction` and `NothingLeft`; with all of them
dropped, `EachOnce` too. What happens then, all from calls
the front ends make:

- two messages held back during an automatic compaction: the flush prompts the first
  and queues the second. The prompt is refused, since the agent goes on by itself, and
  `restoreQueue` puts back both, though one has been delivered.
- RPC: a second prompt while the first has passed its check, or during the delay of a
  retry. It is rejected after the client was told that it succeeded, and the `finally`
  of its rejection flushes deferred bash messages between a call and its result.
- `compact()` during a run for which a message is queued: it is delivered while the
  session does not listen, so it is never persisted, leaves the context with the next
  rebuild, and is still shown as queued; what is not delivered stays queued when the
  compaction ends. A run aborted by `compact()` that ends in an error is retried while
  the compaction goes on.
- RPC: a prompt during an automatic compaction, which starts a second one.
- messages held back meanwhile are overwritten when `restoreQueue` puts others back.

### Proofs

`AgentSessionProofs.tla` and `AgentSessionContextProofs.tla` prove six theorems, one for each
safety property of the runs, for any number of messages, retries, compactions and events, from
`SessionBounds` alone. TLC checked each invariant on instances of two and three messages (up
to four million states) before it was proved.

**`MessagesReachTheAgentOnce == Spec => []EachOnce`.** `EachOnce` is not inductive: that a message which waits in the queue was not delivered says
nothing of the one the agent is about to be given, nor of the one whose `prompt()` is still
compacting. The invariant `Good` follows each message `x` (`Followed(x)`):

- `Once` and `Placed`: it is in a place (the queue, what is held back, what is typed ahead,
  the agent's hand) at most once, and only while its call is parked where that place belongs;
- `Undelivered`: what waits, is in hand, or has a call `Ahead` of its own run was not delivered;
- `Owned`: the agent's run belongs to a call that is parked at it, the delay of a retry to
  one that sleeps;
- `Flushing`: a flush of what was held back that is being prompted has the rest of it in the
  queue, so that `restoreQueue`, which empties the queue, puts nothing back twice;
- `Alone`: one call at a time is past its checks (`Engaged`) and one is between `prompt()`'s
  entry and its first await. This is where `hist.clean` is needed: without it a second call
  may find the agent busy after its hooks, and a flush that is refused then may put back
  what was delivered.

`Inv` is `hist.clean => Good` and the fields of `hist`. Each action keeps `Good` by a lemma of its own; those in which no
message moves share `NothingMoves`, `CallKeeps` and `AgentKeeps`, those that queue, hand over,
flush or restore use what `Append`, `Tail`, `\o` and `RemoveFirst` do to the elements of a
sequence (`ElementsOfTail` to `ElementsOfRemoveFirst`).

**`QueuesAreEmptied == Spec => []NothingLeft`.** That the queue is empty at rest follows
from `Minded`, which is about every moment: while the queue is not empty some call
is under way, or flushes what was held back, and will look at the queue again. The step that
matters is `prompt()`'s last one: it finishes only when `hasQueuedMessages` is false or the
run it would continue was refused, and `hist.clean` excludes the latter. `FullInv` adds to
`Inv`, under the same condition, what this needs:

- `Shown`: what is shown as waiting is queued or in the agent's hand, so that whatever the
  agent hands over is struck off as long as the session hears it;
- `Listens`: the session is connected unless `compact()` runs, and then no call is under way;
- `Told`: a run that ends had a reply and the session knows it. Otherwise
  `_handlePostAgentRun` would return at its first test and leave the queue as it is;
- `NoneHalted`: the compaction check before a prompt is followed by the hooks and a run.

**`RetriesAreBounded == Spec => RetriesBounded`.** This one needs no `hist.clean`: it holds
however calls overlap and whatever is cancelled. `hist.errors` counts the failed replies in
a row for which `prompt()` has not given up. It starts again when a message is delivered,
a reply succeeds, a run ends without a reply to look at, or `prompt()` ends its handling of a
run without a retry, because the next run is then another attempt of the user's and not of
`_prepareRetry`. The same goes for a retry that is cancelled during its delay: `_prepareRetry`
sets its counter back there.
`RetryInv`:

- `Steady`: `Aside` says what the messages that wait stand for when calls do overlap (one
  held back has a call at `held`, one set aside by a flush belongs to one flush), `Owned` that a
  run and a delay have one owner. Without it two calls might handle the end of one run, and
  count one failure's retry twice or not at all;
- `Retried`: every failure in a row but the last was followed by a retry that was counted,
  and the last too unless it is still being handled (`Failing`);
- `Recovered`: while a recovery is remembered (`hist.recovered`), so is it in
  `_overflowRecoveryAttempted`.

The same induction gives the action property (`OnceRecovered`).

**`CallsAndResultsMeet == Spec => []CallsMeetResults`**, **`ContextIsTheSession`** and
**`NoCompactionIsStale`** share the invariant `ContextInv`, which is `FullInv` and, under
`hist.clean`, `Shape`. None of the three holds up by itself. A retry takes a reply out of the
agent's messages and leaves it in the file; a compaction replaces all of them by what the file
gives; and between two awaits a message is in one and not yet in the other. `Shape` says, for
every moment:

- `Match`: the agent's messages without the one that is being handled (`Handled`) are, but for
  failed replies, what `buildSessionContext` makes of the branch; each reply among them is on
  the branch; calls meet their results in both;
- `Joined`: neither ends in a call that is not answered (`Shut`), except while tools run or their
  result is being handled, and then both end in the same one (`Open`). This is what lets
  `FlushBash`, a queued message or a summary be appended, and it is why `recordBashResult`
  defers while the agent streams;
- `Recorded`: each compaction keeps from a message that is there and is no result (`Cut`), a
  reply comes after the compactions it was requested after (`Dated`), and an automatic
  compaction has a reply between it and the one before (`Grounded`);
- `Latest`: when a run is over, the reply that the session looks at, if it failed, is the
  last message, so that `_prepareRetry` and the overflow recovery drop that one and no other;
- `Sound` for each call: one that is compacting was set off by a reply `Fresh` enough, and one
  that has not begun the run of its message has no bash messages deferred (`Apart` adds what
  a call that is over has). `prompt()` flushes them at its entry (`Call`) and when it is
  over (`Finish`), and nowhere between; without this a message deferred during one call
  could be flushed between a call and its result in the next;
- `Persisted`: what was delivered is on the branch, or is the message being handled.

Where the agent's messages are cut, dropped from or compacted, equality of whole sequences has
to be shown: `Lasting`, a filter written as a recursive function, is shown to agree on prefixes
and to distribute over `\o` (`FilterIs` to `LastingOfConcat`). These are inductions over a
sequence's length, made from the well-foundedness of `<` on the naturals: of the lengths at
which the claim fails there is a least one (`LeastOf`). That `branch` keeps
messages and compactions apart makes what an append and a compaction do to the context
two separate lemmas, `ContextGrows` and `RecordedCompacts`.

## 7. Small components: `MCComponents`

The remaining components do not act on one another, so `MCComponents` runs them in two
instances: a behaviour picks a component (`part`) and takes only its steps. Fairness is
that of the component picked; the stream's (`StreamProgress`) goes through
`Only("stream")`, since the stream's producer has steps from its first state on.

| Run | Components | Bounds |
|---|---|---|
| `waits` | `AgentHarness` (liveness), `EventStream`, `FileMutationQueue`, `RpcClient` | two consumers and three events, pushed before or after the end; four mutations of two files, one of them new and one reached through a link too; three requests, two of them prompts, and a process started twice |
| `files` | `SettingsManager`, `AuthStorage`, `MemoryStore`, `Compaction`, `SessionManager` | two processes that set three fields in two files; three calls in two processes with two tokens, and a login, a crash or locks taken from their holders (`OneMishap`); four memory calls on two targets; paths of six entries, one of them recorded while a summary is generated (`OneMeanwhile`); sessions of four entries in two files with one failing write or move of the leaf, or a label taken back and a branch summary |

Two of each are what a race needs; a third reads what the first two left. Six entries
hold two compactions around a turn with a tool call. Four entries hold a reply, a label
within the path, a compaction that keeps from there, and something after it; two files
are a session and its fork.

- **`EventStream`**: `push`, `end`, iteration and `result()`, with the three producers.
  A waiter that `push` calls resumes only later: `hand` is what it was given.
  A producer may push again when the stream is done (`streamProxy` does after its final
  event, and again when it has aborted); `Accepts` is the early return that ignores it, and `EachEventOnce`
  says that nothing comes after the final event. `ReadersFinish` names two cases in which a consumer
  waits for ever: `streamProxy` calls `stream.end()` without a final event when the
  server's body ends early, so `result()` never resolves, against the contract of
  `StreamFn` (`agent/src/types.ts:18-23`); and `agentLoop` does not end its stream when
  its run rejects.
- **`FileMutationQueue`**: registration in the order of the calls (`InTurn`), though the
  key of a file needs `realpath`. `Straight` is the condition: a link to a file that does
  not exist yet has its own key, and then two mutations of one file overlap.
- **`RpcClient`**: requests, responses, time-outs, exit and `stop`. `StrayAnswers`: only
  a response to a request that was given up reaches the event listeners.
  `RequestsSettle` needs the time-outs: `stop` drops requests without rejecting them.
- **`SettingsManager`**: field-wise merges under a lock. Any process sets any field, as the
  setters of the code do; loading fails for a file that is not JSON or whose lock another
  process has for long. `UnsavedIsMarked` says of a process with nothing left to write that what
  it has in memory was in the file or is marked. It excepts `dropped`: a write that
  succeeds clears all marks of its file, also those set after its snapshot, and if the write
  of such a field then fails, its value is neither saved nor marked. It does not say that the
  value is in the file still: fields belong to nobody, and the mark a failed write leaves, or
  the snapshot of a queued one, may overwrite what another process has saved since, as may the
  creation of a missing file, which does not read it again under the lock. What can be said of
  that is in `TrustedWrites`: a process writes over a field only a value it was given by its own
  user, never one it had merely loaded. A reload clears marks even if it fails, and a `set`
  during a reload is overwritten in memory; both are in the model.
- **`AuthStorage`**: `RefreshOnce`. The lock of a refresh is held across a request. To the
  synchronous lock of a login, logout or reload it is stale after ten seconds
  (`proper-lockfile`'s default, `auth-storage.ts:84`), while its holder touches it every fifteen,
  half of its own `stale` (`:147`). So `LockGoesStale` takes it from a live holder at any moment,
  `NoticeCompromise` is the holder's next touch, `Discard` what `throwIfCompromised` does with the
  answer, `Store` what happens when the holder was not told in time, and `AfterRelease` that its
  release then removes the lock of whoever has it. `disturbed` are the calls this happened to and
  `excused` the tokens they were sending, together with those whose answer was lost, thrown away
  or never written: these may be sent again, and such a call may write back a credential of
  another provider that was replaced. Without these exceptions TLC shows both. Of every other
  token and call the property says they do not. Not covered by it, and what the code does: a
  login during an own refresh is lost from memory; a reload that fails for the lock leaves
  `loadError` set, after which logins are silently not persisted.
- **`MemoryStore`**: `MemoryIsWhole`. Overlapping writes lose entries and every read
  error makes the next write start from nothing; `memory_compact` compares counts only,
  so it overwrites entries that were replaced, although its guideline
  (`memory-tools.ts:766`) speaks of "stale compactions"; two writes in one millisecond share a
  temporary file (`clashed`).
- **`Compaction`**: every path is built by the operations that build it, the context and
  the request are computed from it. A compaction is prepared (`PrepareCompaction`), and appended
  or given up after the hook and the summary; settings, bash messages and whole runs may be recorded
  meanwhile, and the entry keeps them (`at` is where the path ended when it was prepared). A
  retried reply may fail again. One compaction is under way at a time, and the leaf is not moved
  meanwhile, which the code does not enforce: `navigateTree` during a summary would append
  the compaction to another branch. `TrailRequestIsPaired`, `SummaryMeetsKept`. The
  finding `compaction_forgets`: a second compaction that cuts the turn at which the first
  one began to keep has nothing to summarise but a prefix of that turn, and drops the
  previous summary, although `docs/compaction.md:43` and `:106` say it is passed on.
  Also seen: an entry of a setting right before a user message makes `isSplitTurn` true
  at the border of a turn, which leads to the same loss; where a tool result exceeds the
  budget and no cut point follows, nothing is compacted.
- **`SessionManager`**: entries in memory, lines on disk, the deferred first write, and
  writes cut off anywhere. `SessionSurvives` says that opening a file gives what was in
  memory unless a write failed, that what a file holds stays, and that a fork has the
  context and the labels of its path. What it excepts: after a failed first write the
  file exists, so every later write fails (`"wx"`) and the session is never saved; text
  after half a line joins it and both are lost; an append that failed without a trace
  orphans the entries after it when the file is opened again; and the fork of a path
  whose last compaction keeps from a label entry on loses all kept messages, because
  `createBranchedSession` drops the label that `firstKeptEntryId` names (`findCutPoint`
  goes back over labels; an earlier compaction that does so changes nothing, since the context
  begins at the last one), though `README.md:258` of the coding agent says the active path
  is copied. The fork of a session without a reply throws: there is no file to copy.
  `OpenFails` is a file without a header that cannot be written over when it is opened. Import
  (`agent-session-runtime.ts:354-373`) is left out: it copies a file over one of the same name
  in the directory of the sessions, of which `Grown` would not hold.

### Proofs

`ChannelProofs.tla`:

- `EventsReachOneReader` (`StreamSpec => []EachEventOnce`). Every step is one of four moves
  of events (`Queues`, `Gives`, `Takes`, `Rests`): a push queues an event or gives it to
  the first waiting reader, which had nothing in hand, a reader takes the first one,
  or nothing moves (`StreamMoves`). The invariant `StreamInv` says who has which event, that
  what a reader holds is below what is queued, and that each reader waits in line once.
- `StraysWereGivenUp` (`RpcSpec => []StrayAnswers`). `AtOnePlace`: a request is on its way
  down, in its handler or on its way up, once. `Expected`: as long as the client listens,
  one on its way is still pending or was rejected. A prompt that fails after its answer is
  the case that matters: it has left all three places.

`SharedFilesProofs.tla`, for any number of processes and calls, from the modules' assumptions:

- `TokensAreRefreshedOnce`, whoever takes whose lock. `Exclusive` says that a call which has
  read the file holds the lock, and that the file is still as it read it, or else it is `disturbed`,
  and then the token it sends is excused. `Unspent`: the refresh token in the file is spent only
  between the server's answer and the write of an undisturbed holder, unless it is excused.
  `Fresh`: the answer a call is about to write is in no other hand and not spent, so that a write
  that comes too late still stores a token that can be used. `EndKeeps` is the common end of all
  four ways out of the lock.
- `UnsavedStaysMarked` and `WritesAreTrusted`, with every process setting every field. `Known`: a
  value in memory was saved, is marked, or is in a write that is still queued, whatever the queue
  is doing. `Queued`: a write that clears marks has a write at or behind it that holds each marked
  field as it is in memory, so a value whose mark goes is written, or fails and is `dropped`; and what
  a write holds was given to its own process. `Drafted`: a file about to be created is the first write
  over no settings.
- `MemoryStaysWhole`: `FilesFit` bounds what is written by the limit it was checked against,
  `OwnTemps` gives each call a temporary file of its own unless stamps clashed, and
  `Accounted` follows the entry of a report through writes and rollbacks. It assumes that
  limits are natural numbers (`MemoryAssumption`).
- `MutationsInTurn` (`MutationSpec => []InTurn`) and `QueuesNeverLeak`, for any calls, paths
  and links. `MutationInv` says what the chains of `fileMutationQueues` stand for: a call
  waits for the last call of its key ahead of it that was not over when it registered
  (`Chained`), so that, the chain being followed backwards, all calls ahead of a running one
  are done (`Turns`). `NothingLeaks` is proved and needs no run.

`CodingSessionProofs.tla`, for paths and files of any length, any sizes and budgets:

- The invariant `TrailInv` says of each entry that it fitted the path when it was added
  (`Sounds`), which a later entry or a branch cannot undo (`AppendSounds`, `PrefixSounds`). A
  result is the next one of a reply, with nothing shown between them but other results
  (`FollowsCall`); the guard `Owing` makes it so (`AskingIs`). A compaction keeps from a cut
  point on, or from entries before one that are no messages, and what it covers lies before
  (`Compacts`). The same is said of the compaction that is `planned`: whatever is recorded while its
  summary is generated fits behind what it keeps (`CompactsStays`), and what the context will be
  when it is appended is `KeptContext`.
- `SummariesMeetWhatIsKept` (`TrailSpec => []SummaryMeetsKept`). The weight is in
  `CompactionIsSound`: what `prepareCompaction` collects is all that is shown between the boundary
  and the cut (`PreparationIs`), the cut is not before the last message at which the budget is
  full (`BudgetCutIs`), and where something is summarised a cut point was there to be found:
  every result after the boundary has one before it (`BoundaryIs`).
- `RequestsArePaired` (`TrailSpec => []TrailRequestIsPaired`). `Pending` and `Tracks` are the
  invariant of the pass of `transformMessages` over the context: replies but the last one have all
  results (`AllAnswered`), the last one has those in `answered`, once, and ends what was sent;
  and a reply that nothing but its results follow is the last one, so that the next result is
  one it lacks (`PassResult`). At any other message, and at the end, what is missing is added
  (`MissedAre`, `ClosedIs`). A context never begins among results, since the reply of a result in
  it is in it too (`ReplyInContext`).
- `SessionsSurvive` (`SessionSpec => SessionSurvives`), for any number of files, entries and
  failing writes. `SessionInv` adds to `Restorable` that ids rise, in memory (`Entered`) and in
  every file but for its malformed lines (`Orderly`), and that a file no write of which failed has
  a header and ends with a newline (`Intact`). Whatever a write leaves, cut anywhere, is a prefix
  of the lines with one of them garbled, so it stays orderly (`CutOrderly`, `WriteIs`). A fork is
  chained from its first entry to its last, so the path to its leaf is all of it (`ForkIsEntered`,
  `BranchOfChain`); it is its path without the labels and with labels at the end (`ForkIsSame`,
  `SameButLabels`), and such a path has the same context, as long as its last compaction does not keep
  from a label on (`SameContext`): the exception the property makes is where the proof needs
  it. The invariant needs the ids of a fork whose write failed to be taken as used, since lines
  with them may be in its file: `Fork` counts them so, as random ids are never used twice.

The recursive functions of the models (`SizeFrom`, `Unanswered`, `Request`, `Chosen`, `getBranch`)
are shown to exist, and what is said of them is shown for each value, by a least counterexample
(`LeastOf`).

## 8. What is proved and what is only checked

Proved for every value of the constants: the theorems of sections 3 to 7, from the
assumptions on constants, and from `~Overlap` in section 5, `hist.clean` in section 6 and the
conditions of serial calls in section 4. Model-checked on the instances above only: the
three findings, and every liveness property (`RunSettles`, `Settles`, `ReadersFinish`,
`MutationEnds`, `RequestsSettle`, `PromptReturns`): fairness and `ENABLED` are outside of the
proof system. The induction theorems of its library take an operator as a parameter, which
the back ends here cannot instantiate; sections 6 and 7 go round them with a least
counterexample for each recursive function.

## 9. Not modelled

Most of the implementation keeps no state that outlives a call, or keeps
state that only one synchronous caller touches: the tables of models and their generator
(19,000 lines of data), the terminal UI and interactive mode's rendering, HTML export and
its templates, the bundled skills and finance, crypto and web clients (requests and
arithmetic on their answers), the adapters of the providers' wire formats, argument
parsing, discovery of resources and installation of packages. A model of these would
restate them line by line and have nothing to check, which is why the map covers a small
part of all lines; it covers most of the code in which steps of several actors meet.
`PROJECT.json` lists each of these components with its reason. Of the modelled components
the notes there say what is left out; the largest parts are the extension hooks that
replace contents, trees of labels and session names, migration of old session files,
UI requests of extensions over RPC, and the memory's index and search.
