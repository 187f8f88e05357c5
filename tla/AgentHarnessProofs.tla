--------------------------- MODULE AgentHarnessProofs ---------------------------
(***************************************************************************)
(* Theorems about AgentHarness, for any calls, faults and bounds, where    *)
(* the application awaits its operations (~Overlap).                       *)
(***************************************************************************)
EXTENDS AgentHarness, SequenceTheorems, FiniteSetTheorems, TLAPS

(***************************************************************************)
(* The invariants.                                                         *)
(***************************************************************************)
Working == Runs \cup Structs

\* Where a run may be, by the handlers a rejection would meet, and where it goes from there.
RunPlace(r) == LET l == run[r] IN
  /\ l.stage = "start" => pc[r] \in {"new", "creating", "queue_update", "before_start", "returned"}
  /\ l.stage = "loop" =>
       pc[r] \in {"append", "notify", "poll", "poll_follow", "queue_update", "request", "tools",
                  "turn_end", "flush", "flushing", "save_point", "snapshot", "agent_end", "settled"}
  /\ l.stage = "failing" =>
       /\ pc[r] \in {"append", "notify", "turn_end", "flush", "flushing", "save_point",
                     "agent_end", "settled"}
       /\ l.reply = "failed"
  /\ l.stage = "final" => pc[r] \in {"flush", "flushing", "returned"}
  /\ pc[r] \in {"append", "notify"} =>
       /\ l.then \in {"request", "poll", "tools", "turn_end"}
       /\ l.stage = "failing" => l.then = "turn_end"
  /\ pc[r] \in {"flush", "flushing"} =>
       /\ l.then \in {"save_point", "snapshot", "agent_end", "final"}
       /\ l.then = "final" <=> l.stage = "final"
       /\ l.then = "snapshot" => l.stage = "loop"

Places ==
  /\ \A s \in Structs : pc[s] \in {"new", "preparing", "append", "notify", "returned"}
  /\ \A w \in Writes : pc[w] \in {"new", "append", "returned", "rejected"}
  /\ \A m \in Msgs : pc[m] \in {"new", "returned"}
  /\ \A a \in Aborts : pc[a] \in {"new", "queue_update", "waiting", "returned"}
  /\ \A r \in Runs : RunPlace(r)

\* The run has not told its listeners yet that it has ended, nor begun to report a failure.
Early(r) == run[r].stage = "start" \/ (run[r].stage = "loop" /\ pc[r] \notin {"agent_end", "settled"})

\* What phase, runAbortController and runPromise say about the one operation that is open.
Control ==
  /\ \A x, y \in Working : Open(x) /\ Open(y) => x = y
  /\ phase # "idle" => /\ \E x \in Working : Open(x)
                       /\ \A w \in Writes : ~Open(w)
  /\ \A s \in Structs : Open(s) => phase = "structural"
  /\ \A r \in Runs : Open(r) =>
       /\ phase # "structural" /\ runPromise = r
       /\ Early(r) => phase = "turn"
       /\ Over(r) => phase = "idle"
       /\ controller = IF run[r].stage = "start" THEN None ELSE r
  /\ controller # None => Open(controller)
  /\ runPromise # None => Open(runPromise)
  /\ resolved = {r \in Runs : pc[r] = "returned"}

\* What abort() has signalled is what it waits for, unless it was over before.
Signalled == \A a \in Aborts :
  /\ pc[a] = "new" => hit[a] = None
  /\ hit[a] # None =>
       /\ pc[hit[a]] # "new"
       /\ pc[a] = "waiting" => waits[a] = hit[a] \/ pc[hit[a]] = "returned"
       /\ pc[a] = "returned" => pc[hit[a]] = "returned"

\* From its snapshot to the first write after it, an operation knows the session.
Synced ==
  /\ \A r \in Runs :
       /\ run[r].stage \in {"start", "loop"}
       /\ pc[r] \in {"creating", "queue_update", "before_start", "append", "notify", "poll",
                     "poll_follow", "request", "tools", "snapshot"}
       => context[r] = session
  /\ \A s \in Structs : pc[s] \in {"preparing", "append"} => context[s] = session

\* What a run has to append or announce: calls come alone.
OutFine(r) == \A i \in DOMAIN run[r].out : LET kind == run[r].out[i].kind IN
  /\ kind \in {"prompt", "message", "calls", "reply", "result", "failure"}
  /\ run[r].stage = "start" => kind = "message"
  /\ pc[r] \in {"append", "notify"} /\ kind = "calls" =>
       run[r].out = <<Item("calls", r)>> /\ run[r].then = "tools"

Outgoing == \A r \in Runs : OutFine(r)

\* A message with calls that is the last entry belongs to a run that is about to answer them.
Answering(r) ==
  /\ Open(r) /\ phase = "turn"
  /\ \/ pc[r] = "notify" /\ run[r].out = <<Item("calls", r)>> /\ run[r].then = "tools"
     \/ pc[r] = "tools"
     \/ pc[r] = "append" /\ run[r].out \in {<<Item("result", r)>>, <<Item("failure", r)>>}

LastAnswered ==
  session # <<>> /\ session[Len(session)].kind = "calls" =>
    LET r == session[Len(session)].of IN run[r].failed \/ Answering(r)

\* Nothing waits to be written when a run tells its end.
EndFlushed == \A r \in Runs : pc[r] \in {"agent_end", "settled"} => pending = <<>>

\* x is in s at most once.
Once(s, x) == \A i, j \in DOMAIN s : s[i] = x /\ s[j] = x => i = j

\* A write is nowhere before its call has returned, and then in one place, once.
Placed ==
  /\ \A w \in Writes :
       /\ Once(session, Item("write", w)) /\ Once(pending, w) /\ Once(deferred, w)
       /\ pc[w] # "returned" => /\ Item("write", w) \notin Range(session)
                                /\ w \notin Range(deferred)
       /\ w \in Range(pending) => Item("write", w) \notin Range(session)
       /\ pc[w] = "returned" => Item("write", w) \in Range(session) \/ w \in Range(pending)
  /\ \E n \in 0..Len(deferred) : pending = SubSeq(deferred, n + 1, Len(deferred))
  /\ \A i, j \in DOMAIN deferred, k, l \in DOMAIN session :
       i < j /\ session[k] = Item("write", deferred[i]) /\ session[l] = Item("write", deferred[j]) => k < l

\* The messages runs have in hand of a queue, and those of it not cleared, in order.
OneOf(S) == CHOOSE r \in S : TRUE
HeldOf(places, runs, q) ==
  LET held == {r \in Runs : places[r] = "queue_update" /\ runs[r].from = q} IN
  IF held = {} THEN <<>> ELSE runs[OneOf(held)].drained
Carried(q) == HeldOf(pc, run, q)
Live(q)    == announced[q] \o Carried(q) \o queue[q]

\* A message is sent once, to one queue, and is nowhere before.
Sent ==
  /\ \A q \in Queues : \A m \in Msgs :
       /\ Once(sent[q], m)
       /\ m \in Range(sent[q]) => pc[m] = "returned" /\ \A p \in Queues \ {q} : m \notin Range(sent[p])
  /\ \A q \in Queues : Range(queue[q]) \subseteq Range(sent[q])
  /\ \A r \in Runs :
       /\ run[r].array <= arrays
       /\ pc[r] = "queue_update" => Range(run[r].drained) \subseteq Range(sent[run[r].from])
  /\ cleared \subseteq UNION {Range(sent[q]) : q \in Queues}

Fifo == \A q \in Queues : Remains(Live(q), sent[q], cleared)

\* Where an announced message is, as long as nothing has failed.
DueOf(r, m) == Open(r) /\ Item("message", m) \in Range(Ahead(r))
Due(m)      == \E r \in Runs : DueOf(r, m)

OnItsWay(r) ==
  /\ ~run[r].raised
  /\ pc[r] \notin {"append", "notify", "before_start", "returned"} => run[r].out = <<>>
  /\ \A m \in Msgs : Once(run[r].out, Item("message", m))

DeliveredOnce(m) == LET e == Item("message", m) IN
  /\ Once(session, e)
  /\ (\E q \in Queues : m \in Range(announced[q])) <=> (e \in Range(session) \/ Due(m))
  /\ ~(e \in Range(session) /\ Due(m))

Delivered == faults = 0 =>
  (\A r \in Runs : OnItsWay(r)) /\ (\A m \in Msgs : DeliveredOnce(m))

(***************************************************************************)
(* Types.                                                                  *)
(***************************************************************************)
PCs == {"new", "returned", "rejected", "preparing", "waiting", "poll", "poll_follow", "turn_end",
        "flush"} \cup Awaiting

CtlType   == /\ phase \in {"idle", "turn", "structural"} /\ {controller, runPromise} \subseteq Runs \cup {None}
             /\ resolved \subseteq Runs
QueueType == /\ queue \in [Queues -> Seq(Msgs)] /\ arrays \in Nat /\ cleared \subseteq Msgs
             /\ {sent, announced} \subseteq [Queues -> Seq(Msgs)]
StoreType == /\ session \in Seq(Entries) /\ pending \in Seq(Writes) /\ deferred \in Seq(Writes)
             /\ context \in [Working -> Seq(Entries)]
PlaceType == pc \in [Ops -> PCs]
RunType   == run \in [Runs -> RunRecord]
AbortType == /\ aborted \subseteq Runs /\ faults \in 0..MaxFaults
             /\ waits \in [Aborts -> Runs \cup {None}] /\ hit \in [Aborts -> Runs \cup {None}]
Hand(r)   == /\ pc[r] \in {"append", "notify"} => run[r].out # <<>>
             /\ pc[r] = "flushing" => pending # <<>> /\ run[r].drained = <<Head(pending)>>
             /\ pc[r] = "queue_update" => run[r].drained \in Seq(Msgs) \ {<<>>}
InHand    == \A r \in Runs : Hand(r)

Types == CtlType /\ QueueType /\ StoreType /\ PlaceType /\ RunType /\ AbortType

LEMMA TypeParts == TypeOK <=> Types /\ InHand
  BY DEF TypeOK, Types, CtlType, QueueType, StoreType, PlaceType, RunType, AbortType, InHand, Hand, PCs, Working

LEMMA SeqWiden ==
  ASSUME NEW S, NEW T, S \subseteq T, NEW s \in Seq(S)
  PROVE  s \in Seq(T)
  OBVIOUS

LEMMA EntryTypes ==
  /\ \A r \in Runs : {Item(k, r) : k \in {"prompt", "calls", "reply", "result", "failure"}} \subseteq Entries
  /\ \A m \in Msgs : Item("message", m) \in Entries
  /\ \A w \in Writes : Item("write", w) \in Entries
  /\ \A s \in Structs : Item("structural", s) \in Entries
  BY DEF Item, Entries

LEMMA MessagesType ==
  ASSUME NEW ms \in Seq(Msgs)
  PROVE  Messages(ms) \in Seq(Entries)
<1>1. \A i \in 1..Len(ms) : Item("message", ms[i]) \in Entries  BY EntryTypes
<1> QED BY <1>1 DEF Messages

LEMMA InitTypes == Init => Types /\ InHand
<1> SUFFICES ASSUME Init PROVE Types /\ InHand  OBVIOUS
<1>1. CtlType /\ QueueType /\ StoreType /\ PlaceType /\ AbortType
  BY HarnessAssumption DEF Init, CtlType, QueueType, StoreType, PlaceType, AbortType, PCs, Queues, Working
<1>2. RunType
  <2>1. NoRun \in RunRecord
    BY HarnessAssumption DEF NoRun, RunRecord, Queues
  <2> QED BY <2>1 DEF Init, RunType
<1>3. InHand
  BY DEF Init, InHand, Hand, Ops
<1> QED BY <1>1, <1>2, <1>3 DEF Types

(***************************************************************************)
(* Sequences.                                                              *)
(***************************************************************************)
LEMMA NotEmpty ==
  ASSUME NEW S, NEW s \in Seq(S)
  PROVE  s # <<>> <=> Len(s) # 0
  OBVIOUS

LEMMA FrontPart ==
  ASSUME NEW S, NEW s \in Seq(S), s # <<>>, NEW n \in {1, Len(s)}
  PROVE  /\ n \in 1..Len(s)
         /\ SubSeq(s, 1, n) \in Seq(S) \ {<<>>}
<1>1. n \in 1..Len(s)  BY NotEmpty
<1>2. SubSeq(s, 1, n) \in Seq(S)  BY <1>1
<1>3. Len(SubSeq(s, 1, n)) = n  BY <1>1
<1>4. SubSeq(s, 1, n) # <<>>  BY <1>1, <1>2, <1>3, NotEmpty
<1> QED BY <1>1, <1>2, <1>4

LEMMA AppendFacts ==
  ASSUME NEW S, NEW s \in Seq(S), NEW e \in S
  PROVE  /\ Append(s, e) \in Seq(S) /\ Append(s, e) # <<>>
         /\ s # <<>> => Head(Append(s, e)) = Head(s)
<1>1. Append(s, e) \in Seq(S) /\ Len(Append(s, e)) = Len(s) + 1  OBVIOUS
<1>2. Len(s) \in Nat  OBVIOUS
<1>4. Append(s, e) # <<>>
  <2> DEFINE t == Append(s, e)
  <2>1. t \in Seq(S) /\ Len(t) # 0  BY <1>1, <1>2
  <2> HIDE DEF t
  <2>2. t # <<>>  BY <2>1, NotEmpty
  <2> QED BY <2>2 DEF t
<1>3. ASSUME s # <<>> PROVE Head(Append(s, e)) = Head(s)
  <2>1. Len(s) > 0  BY <1>3, NotEmpty
  <2> QED BY <2>1
<1> QED BY <1>1, <1>3, <1>4

LEMMA OneElement ==
  ASSUME NEW e
  PROVE  <<e>> # <<>>
  OBVIOUS

LEMMA TailEmpty ==
  ASSUME NEW S, NEW s \in Seq(S), Len(s) # 1, s # <<>>
  PROVE  Tail(s) # <<>>
<1>3. Len(s) # 0  BY NotEmpty
<1>1. Tail(s) \in Seq(S) /\ Len(Tail(s)) = Len(s) - 1 /\ Len(s) \in Nat /\ Len(s) > 1
  <2>1. Len(s) \in Nat  OBVIOUS
  <2>2. Len(s) > 1  BY <1>3, <2>1
  <2> QED BY <1>3, <2>1, <2>2
<1>2. Len(Tail(s)) # 0  BY <1>1
<1> QED BY <1>1, <1>2, NotEmpty

LEMMA AppendAt ==
  ASSUME NEW S, NEW s \in Seq(S), NEW e \in S
  PROVE  /\ Len(Append(s, e)) = Len(s) + 1 /\ Len(s) \in Nat
         /\ Append(s, e)[Len(s) + 1] = e
         /\ \A i \in 1..Len(s) : Append(s, e)[i] = s[i]
         /\ DOMAIN Append(s, e) = 1..(Len(s) + 1) /\ DOMAIN s = 1..Len(s)
  OBVIOUS

\* What a rejection leaves behind, by the handlers it meets (Throw).
LEMMA ThrowMeans ==
  ASSUME NEW r \in Runs, Throw(r)
  PROVE  /\ run[r].stage = "start" => phase' = "idle" /\ Finish(r) /\ UNCHANGED <<controller, run>>
         /\ run[r].stage = "loop" =>
              /\ run' = [run EXCEPT ![r] = [run[r] EXCEPT !.stage = "failing",
                   !.out = <<Item("failure", r)>>, !.then = "turn_end", !.reply = "failed",
                   !.raised = FALSE, !.drained = <<>>]]
              /\ Go(r, "append") /\ UNCHANGED ctl
         /\ run[r].stage = "failing" =>
              /\ run' = [run EXCEPT ![r] = [run[r] EXCEPT !.stage = "final", !.then = "final",
                   !.failed = TRUE, !.drained = <<>>]]
              /\ Go(r, "flush") /\ UNCHANGED ctl
         /\ run[r].stage = "final" => phase' = "idle" /\ controller' = None /\ Finish(r) /\ UNCHANGED run
<1>1. CASE run[r].stage = "start"  BY <1>1 DEF Throw
<1>2. CASE run[r].stage = "loop"  BY <1>2 DEF Throw
<1>3. CASE run[r].stage = "failing"  BY <1>3 DEF Throw
<1>4. CASE run[r].stage = "final"  BY <1>4 DEF Throw
<1> QED BY <1>1, <1>2, <1>3, <1>4

LEMMA ThrowTypes ==
  ASSUME Types, NEW r \in Runs, Throw(r)
  PROVE  CtlType' /\ PlaceType' /\ RunType'
<1>1. run[r].stage \in {"start", "loop", "failing", "final"}  BY DEF Types, RunType, RunRecord
<1>2. RunType'
  <2> DEFINE out == <<Item("failure", r)>>
             none == <<>>
  <2>1. out \in Seq(Entries) /\ none \in Seq(Msgs \cup Writes)  BY EntryTypes
  <2> HIDE DEF out, none
  <2>2. \A l \in RunRecord : [l EXCEPT !.stage = "failing", !.out = out, !.then = "turn_end", !.reply = "failed",
           !.raised = FALSE, !.drained = none] \in RunRecord
    BY <2>1 DEF RunRecord
  <2>3. \A l \in RunRecord : [l EXCEPT !.stage = "final", !.then = "final", !.failed = TRUE, !.drained = none] \in RunRecord
    BY <2>1 DEF RunRecord
  <2>4. CASE run[r].stage = "loop"
    <3>1. run' = [run EXCEPT ![r] = [run[r] EXCEPT !.stage = "failing", !.out = out, !.then = "turn_end",
                    !.reply = "failed", !.raised = FALSE, !.drained = none]]
      BY <2>4, ThrowMeans DEF out, none
    <3> QED BY <2>2, <3>1 DEF Types, RunType
  <2>5. CASE run[r].stage = "failing"
    <3>1. run' = [run EXCEPT ![r] = [run[r] EXCEPT !.stage = "final", !.then = "final", !.failed = TRUE,
                    !.drained = none]]
      BY <2>5, ThrowMeans DEF none
    <3> QED BY <2>3, <3>1 DEF Types, RunType
  <2>6. CASE run[r].stage \in {"start", "final"}
    BY <2>6, ThrowMeans DEF Types, RunType
  <2> QED BY <1>1, <2>4, <2>5, <2>6
<1>3. CtlType'
  BY <1>1, ThrowMeans DEF Types, CtlType, Finish, ctl
<1>4. PlaceType'
  BY <1>1, ThrowMeans DEF Types, PlaceType, Go, Finish, PCs, Awaiting, Ops
<1> QED BY <1>2, <1>3, <1>4

\* Taking n messages from a queue.
LEMMA DrainTypes ==
  ASSUME Types, NEW r \in Runs, NEW q \in Queues, NEW n \in 1..Len(queue[q]), Drain(r, q, n),
         UNCHANGED <<ctl, arrays, store, context, abt, hist>>
  PROVE  Types'
<1>1. /\ SubSeq(queue[q], 1, n) \in Seq(Msgs)
      /\ SubSeq(queue[q], n + 1, Len(queue[q])) \in Seq(Msgs)
  BY DEF Types, QueueType
<1>2. RunType'
  <2>1. SubSeq(queue[q], 1, n) \in Seq(Msgs \cup Writes)  BY <1>1, SeqWiden
  <2>2. \A l \in RunRecord : [l EXCEPT !.drained = SubSeq(queue[q], 1, n), !.from = q, !.array = arrays] \in RunRecord
    BY <2>1 DEF RunRecord, Types, QueueType
  <2>3. run' = [run EXCEPT ![r] = [run[r] EXCEPT !.drained = SubSeq(queue[q], 1, n), !.from = q,
                  !.array = arrays]]
    BY DEF Drain
  <2> QED BY <2>2, <2>3 DEF Types, RunType
<1>3. QueueType'  BY <1>1 DEF Drain, Types, QueueType, abt, hist
<1>4. CtlType' /\ StoreType' /\ AbortType'
  BY DEF Types, CtlType, StoreType, AbortType, ctl, store, abt, hist
<1>5. PlaceType'  BY DEF Drain, Go, Types, PlaceType, PCs, Awaiting, Ops
<1> QED BY <1>2, <1>3, <1>4, <1>5 DEF Types

LEMMA PollTypes ==
  ASSUME Types, NEW r \in Runs, NEW q \in Queues, Poll(r, q),
         UNCHANGED <<ctl, arrays, store, context, abt, hist>>
  PROVE  Types'
<1>1. PICK n \in {1, Len(queue[q])} : queue[q] # <<>> /\ Drain(r, q, n)  BY DEF Poll
<1>2. n \in 1..Len(queue[q])  BY <1>1 DEF Types, QueueType
<1> QED BY <1>1, <1>2, DrainTypes

LEMMA PlainMove ==
  ASSUME Types, NEW o \in Ops, NEW l \in PCs, Go(o, l),
         UNCHANGED <<run, queue, ctl, arrays, store, context, abt, hist>>
  PROVE  Types'
  BY DEF Go, Types, CtlType, QueueType, StoreType, PlaceType, RunType, AbortType, ctl, store, abt, hist

LEMMA TypesStep == Types /\ Places /\ InHand /\ [Next]_vars => Types'
<1> SUFFICES ASSUME Types, Places, InHand, [Next]_vars PROVE Types'  OBVIOUS
<1>1. ASSUME NEW r \in Runs, StartRun(r) PROVE Types'
  BY <1>1 DEF StartRun, Go, MayStart, Open, queues, store, abt, hist, Types, CtlType, QueueType,
     Queues, StoreType, Working, PlaceType, PCs, Awaiting, Ops, RunType, AbortType
<1>2. ASSUME NEW r \in Runs, StateCreated(r) PROVE Types'
  <2>1. CASE queue["nextTurn"] # <<>>
    <3>1. Drain(r, "nextTurn", Len(queue["nextTurn"]))  BY <1>2, <2>1 DEF StateCreated
    <3>2. Len(queue["nextTurn"]) \in 1..Len(queue["nextTurn"])  BY <2>1 DEF Types, QueueType, Queues
    <3>3. UNCHANGED <<ctl, arrays, store, context, abt, hist>>  BY <1>2 DEF StateCreated
    <3> QED BY <3>1, <3>2, <3>3, DrainTypes DEF Queues
  <2>2. CASE queue["nextTurn"] = <<>>
    <3>1. Go(r, "before_start") /\ UNCHANGED <<run, queue, ctl, arrays, store, context, abt, hist>>
      BY <1>2, <2>2 DEF StateCreated
    <3> QED BY <3>1, PlainMove DEF PCs, Awaiting, Ops
  <2> QED BY <2>1, <2>2
<1>3. ASSUME NEW r \in Runs, Unknown(r) PROVE Types'
  <2>1. Throw(r) /\ UNCHANGED <<queues, store, context, abt, hist>>  BY <1>3 DEF Unknown
  <2> QED BY <2>1, ThrowTypes DEF Types, QueueType, StoreType, AbortType, queues, store, abt, hist
<1>4. ASSUME NEW r \in Runs, BeforeStart(r) PROVE Types'
  <2>1. CtlType' /\ QueueType' /\ StoreType' /\ PlaceType' /\ AbortType'
    BY <1>4 DEF BeforeStart, Go, FirstMessages, queues, store, abt, hist, Types, CtlType,
       QueueType, Queues, StoreType, Working, PlaceType, PCs, Awaiting, Ops, AbortType
  <2>2. RunType'
    <3>1. FirstMessages(r) \in Seq(Entries)  BY EntryTypes DEF Types, RunType, RunRecord, FirstMessages
    <3>2. \A l \in RunRecord : [l EXCEPT !.stage = "loop", !.then = "poll", !.more = TRUE, !.out = FirstMessages(r)] \in RunRecord
      BY <3>1 DEF RunRecord
    <3>3. run' = [run EXCEPT ![r] = [run[r] EXCEPT !.stage = "loop", !.then = "poll", !.more = TRUE, !.out = FirstMessages(r)]]
      BY <1>4 DEF BeforeStart
    <3> QED BY <3>2, <3>3 DEF Types, RunType
  <2> QED BY <2>1, <2>2 DEF Types
<1>5. ASSUME NEW r \in Runs, Appended(r) PROVE Types'
  <2>1. CtlType' /\ QueueType' /\ PlaceType' /\ RunType' /\ AbortType'
    BY <1>5 DEF Appended, Go, queues, ctl, abt, hist, Types, CtlType, QueueType, Queues, PlaceType,
       PCs, Awaiting, Ops, RunType, AbortType
  <2>2. StoreType'
    <3>1. Head(run[r].out) \in Entries
      BY <1>5 DEF Appended, InHand, Hand, Types, RunType, RunRecord
    <3> QED BY <1>5, <3>1 DEF Appended, Types, StoreType, hist, Working
  <2> QED BY <2>1, <2>2 DEF Types
<1>6. ASSUME NEW r \in Runs, Notified(r) PROVE Types'
  <2>1. CtlType' /\ QueueType' /\ StoreType' /\ AbortType'
    BY <1>6 DEF Notified, Go, queues, store, ctl, abt, hist, Types, CtlType, QueueType, Queues,
       StoreType, Working, AbortType
  <2>2. PlaceType'
    <3>1. run[r].then \in PCs  BY <1>6 DEF Notified, Places, RunPlace, PCs, Awaiting
    <3> QED BY <1>6, <3>1 DEF Notified, Go, Types, PlaceType, PCs, Awaiting, Ops
  <2>3. RunType'
    <3> DEFINE rest == Tail(run[r].out)
    <3>1. rest \in Seq(Entries)  BY <1>6 DEF Types, RunType, RunRecord, InHand, Hand, Notified
    <3>3. run' = [run EXCEPT ![r] = [run[r] EXCEPT !.out = rest]]
      BY <1>6 DEF Notified
    <3> HIDE DEF rest
    <3>2. \A l \in RunRecord : [l EXCEPT !.out = rest] \in RunRecord
      BY <3>1 DEF RunRecord
    <3> QED BY <3>2, <3>3 DEF Types, RunType
  <2> QED BY <2>1, <2>2, <2>3 DEF Types
<1>7. ASSUME NEW r \in Runs, PollSteering(r) PROVE Types'
  <2>1. ASSUME Poll(r, "steer") PROVE Types'
    BY <1>7, <2>1, PollTypes DEF PollSteering, Queues
  <2>2. CASE queue["steer"] = <<>>
    <3>1. PICK l \in {"request", "poll_follow"} : Go(r, l)
      BY <1>7, <2>2 DEF PollSteering, Poll
    <3>2. UNCHANGED <<run, queue, ctl, arrays, store, context, abt, hist>>
      BY <1>7, <2>2 DEF PollSteering, Poll
    <3> QED BY <3>1, <3>2, PlainMove DEF PCs, Awaiting, Ops
  <2> QED BY <1>7, <2>1, <2>2 DEF PollSteering
<1>8. ASSUME NEW r \in Runs, PollFollowUp(r) PROVE Types'
  <2>1. ASSUME Poll(r, "followUp") PROVE Types'
    BY <1>8, <2>1, PollTypes DEF PollFollowUp, Queues
  <2>2. ASSUME ~Poll(r, "followUp") PROVE Types'
    <3>1. CtlType' /\ QueueType' /\ StoreType' /\ PlaceType' /\ AbortType'
      BY <1>8, <2>2 DEF PollFollowUp, Go, ctl, store, abt, hist, Types, CtlType, QueueType, StoreType,
         PlaceType, AbortType, PCs, Awaiting, Ops
    <3>2. \A l \in RunRecord : [l EXCEPT !.then = "agent_end"] \in RunRecord  BY DEF RunRecord
    <3>3. run' = [run EXCEPT ![r] = [run[r] EXCEPT !.then = "agent_end"]]
      BY <1>8, <2>2 DEF PollFollowUp
    <3> QED BY <3>1, <3>2, <3>3 DEF Types, RunType
  <2> QED BY <2>1, <2>2
<1>9. ASSUME NEW r \in Runs, DrainAnnounced(r) PROVE Types'
  <2>1. CtlType' /\ StoreType' /\ PlaceType' /\ AbortType'
    BY <1>9 DEF DrainAnnounced, Go, queues, store, ctl, abt, Types, CtlType, StoreType, Working,
       PlaceType, PCs, Awaiting, Ops, AbortType
  <2>2. QueueType'
    <3>1. run[r].drained \in Seq(Msgs) /\ run[r].from \in Queues
      BY <1>9 DEF DrainAnnounced, InHand, Hand, Types, RunType, RunRecord
    <3>2. announced[run[r].from] \o run[r].drained \in Seq(Msgs)
      BY <3>1 DEF Types, QueueType
    <3> QED BY <1>9, <3>1, <3>2 DEF DrainAnnounced, Types, QueueType, queues, abt
  <2>3. RunType'
    <3> DEFINE none == <<>>
               out == Messages(run[r].drained)
    <3>1. out \in Seq(Entries) /\ none \in Seq(Msgs \cup Writes)
      BY <1>9, MessagesType DEF DrainAnnounced, InHand, Hand
    <3>2. run' = [run EXCEPT ![r] = [run[r] EXCEPT !.out = out, !.drained = none, !.then = "request"]]
      BY <1>9 DEF DrainAnnounced
    <3> HIDE DEF none, out
    <3>3. \A l \in RunRecord : [l EXCEPT !.out = out, !.drained = none, !.then = "request"] \in RunRecord
      BY <3>1 DEF RunRecord
    <3> QED BY <3>2, <3>3 DEF Types, RunType
  <2> QED BY <2>1, <2>2, <2>3 DEF Types
<1>10. ASSUME NEW r \in Runs, Replied(r) PROVE Types'
  <2>1. CtlType' /\ AbortType'
    BY <1>10 DEF Replied, ctl, abt, hist, Types, CtlType, AbortType
  <2>3. QueueType'  BY <1>10 DEF Replied, queues, abt, hist, Types, QueueType
  <2>4. StoreType'  BY <1>10 DEF Replied, store, hist, Types, StoreType
  <2>5. PlaceType'
    BY <1>10 DEF Replied, Go, Types, PlaceType, PCs, Awaiting, Ops
  <2>2. RunType'
    <3>1. PICK reply \in {"stop", "calls", "failed"} :
            /\ reply = "calls" => run[r].turns < MaxTurns
            /\ run' = [run EXCEPT ![r].reply = reply, ![r].more = (reply = "calls"),
                 ![r].turns = IF reply = "calls" THEN @ + 1 ELSE @,
                 ![r].out = <<Item(IF reply = "calls" THEN "calls" ELSE "reply", r)>>,
                 ![r].then = IF reply = "calls" THEN "tools" ELSE "turn_end"]
      BY <1>10 DEF Replied
    <3> DEFINE turns == IF reply = "calls" THEN run[r].turns + 1 ELSE run[r].turns
               out == <<Item(IF reply = "calls" THEN "calls" ELSE "reply", r)>>
               then == IF reply = "calls" THEN "tools" ELSE "turn_end"
               more == reply = "calls"
    <3>5. run' = [run EXCEPT ![r] = [run[r] EXCEPT !.reply = reply, !.more = more, !.turns = turns,
                    !.out = out, !.then = then]]
      BY <3>1
    <3>6. then \in {"tools", "turn_end"} /\ more \in BOOLEAN  OBVIOUS
    <3>2. turns \in 0..MaxTurns  BY <3>1, HarnessAssumption DEF Types, RunType, RunRecord
    <3>3. out \in Seq(Entries)  BY EntryTypes
    <3> HIDE DEF turns, out, then, more
    <3>4. \A l \in RunRecord : [l EXCEPT !.reply = reply, !.more = more, !.turns = turns, !.out = out, !.then = then] \in RunRecord
      BY <3>2, <3>3, <3>6 DEF RunRecord
    <3> QED BY <3>4, <3>5 DEF Types, RunType
  <2> QED BY <2>1, <2>2, <2>3, <2>4, <2>5 DEF Types
<1>11. ASSUME NEW r \in Runs, ToolsDone(r) PROVE Types'
  <2>1. CtlType' /\ AbortType'
    BY <1>11 DEF ToolsDone, ctl, abt, hist, Types, CtlType, AbortType
  <2>3. QueueType'  BY <1>11 DEF ToolsDone, queues, abt, hist, Types, QueueType
  <2>5. StoreType'  BY <1>11 DEF ToolsDone, store, hist, Types, StoreType
  <2>4. PlaceType'
    BY <1>11 DEF ToolsDone, Go, Types, PlaceType, PCs, Awaiting, Ops
  <2>2. RunType'
    <3>1. PICK more \in BOOLEAN : run' = [run EXCEPT ![r] = [run[r] EXCEPT
            !.out = <<Item("result", r)>>, !.then = "turn_end", !.more = more]]
      BY <1>11 DEF ToolsDone
    <3> DEFINE out == <<Item("result", r)>>
    <3>2. out \in Seq(Entries)  BY EntryTypes
    <3> HIDE DEF out
    <3>3. \A l \in RunRecord : [l EXCEPT !.out = out, !.then = "turn_end", !.more = more] \in RunRecord
      BY <3>2 DEF RunRecord
    <3> QED BY <3>1, <3>3 DEF Types, RunType, out
  <2> QED BY <2>1, <2>2, <2>3, <2>4, <2>5 DEF Types
<1>12. ASSUME NEW r \in Runs, TurnEnd(r) PROVE Types'
  <2>1. CtlType' /\ QueueType' /\ StoreType' /\ PlaceType'
    BY <1>12 DEF TurnEnd, Go, AnyFault, queues, store, ctl, abt, Types, CtlType, QueueType, Queues,
       StoreType, Working, PlaceType, PCs, Awaiting, Ops
  <2>2. RunType'
    <3>1. \A l \in RunRecord : [l EXCEPT !.then = "save_point"] \in RunRecord  BY DEF RunRecord
    <3>3. \A l \in RunRecord : [l EXCEPT !.then = "save_point", !.raised = TRUE] \in RunRecord  BY DEF RunRecord
    <3>2. \/ run' = [run EXCEPT ![r] = [run[r] EXCEPT !.then = "save_point"]]
         \/ run' = [run EXCEPT ![r] = [run[r] EXCEPT !.then = "save_point", !.raised = TRUE]]
      BY <1>12 DEF TurnEnd
    <3> QED BY <3>1, <3>2, <3>3 DEF Types, RunType
  <2>3. AbortType'
    BY <1>12, HarnessAssumption DEF TurnEnd, AnyFault, Types, AbortType, abt
  <2> QED BY <2>1, <2>2, <2>3 DEF Types
<1>13. ASSUME NEW r \in Runs, SavePoint(r) PROVE Types'
  <2>1. CtlType' /\ QueueType' /\ StoreType' /\ PlaceType' /\ AbortType'
    BY <1>13 DEF SavePoint, Go, FlushThen, queues, store, ctl, abt, hist, Types, CtlType,
       QueueType, Queues, StoreType, Working, PlaceType, PCs, Awaiting, Ops, AbortType
  <2>2. RunType'
    <3>1. \A l \in RunRecord : [l EXCEPT !.then = "agent_end"] \in RunRecord  BY DEF RunRecord
    <3>3. \A l \in RunRecord : [l EXCEPT !.then = "snapshot"] \in RunRecord  BY DEF RunRecord
    <3>2. \/ run' = [run EXCEPT ![r] = [run[r] EXCEPT !.then = "agent_end"]]
         \/ run' = [run EXCEPT ![r] = [run[r] EXCEPT !.then = "snapshot"]]
      BY <1>13 DEF SavePoint, FlushThen
    <3> QED BY <3>1, <3>2, <3>3 DEF Types, RunType
  <2> QED BY <2>1, <2>2 DEF Types
<1>14. ASSUME NEW r \in Runs, Snapshot(r) PROVE Types'
  BY <1>14 DEF Snapshot, Go, queues, store, ctl, abt, hist, Types, CtlType, QueueType, Queues,
     StoreType, Working, PlaceType, PCs, Awaiting, Ops, RunType, AbortType
<1>15. ASSUME NEW r \in Runs, AgentEnd(r) PROVE Types'
  BY <1>15 DEF AgentEnd, Go, queues, store, ctl, abt, hist, Types, CtlType, QueueType, Queues,
     StoreType, Working, PlaceType, PCs, Awaiting, Ops, RunType, AbortType
<1>16. ASSUME NEW r \in Runs, Settled(r) PROVE Types'
  <2>1. CtlType' /\ QueueType' /\ StoreType' /\ PlaceType' /\ AbortType'
    BY <1>16 DEF Settled, Go, queues, store, ctl, abt, hist, Types, CtlType, QueueType, Queues,
       StoreType, Working, PlaceType, PCs, Awaiting, Ops, AbortType
  <2>2. RunType'
    <3>1. \A l \in RunRecord : [l EXCEPT !.stage = "final", !.then = "final"] \in RunRecord
      BY DEF RunRecord
    <3>2. run' = [run EXCEPT ![r] = [run[r] EXCEPT !.stage = "final", !.then = "final"]]
      BY <1>16 DEF Settled
    <3> QED BY <3>1, <3>2 DEF Types, RunType
  <2> QED BY <2>1, <2>2 DEF Types
<1>17. ASSUME NEW r \in Runs, FlushNext(r) PROVE Types'
  <2>1. CtlType' /\ QueueType' /\ StoreType' /\ PlaceType' /\ AbortType'
    BY <1>17 DEF FlushNext, Go, queues, store, ctl, abt, hist, Types, CtlType, QueueType, Queues,
       StoreType, Working, PlaceType, PCs, Awaiting, Ops, AbortType
  <2>2. RunType'
    <3>1. <<Head(pending)>> \in Seq(Msgs \cup Writes)  BY <1>17 DEF FlushNext, Types, StoreType
    <3>2. \A l \in RunRecord : [l EXCEPT !.drained = <<Head(pending)>>] \in RunRecord
      BY <3>1 DEF RunRecord
    <3>3. run' = [run EXCEPT ![r] = [run[r] EXCEPT !.drained = <<Head(pending)>>]]
      BY <1>17 DEF FlushNext
    <3> QED BY <3>2, <3>3 DEF Types, RunType
  <2> QED BY <2>1, <2>2 DEF Types
<1>18. ASSUME NEW r \in Runs, Flushed(r) PROVE Types'
  <2>1. CtlType' /\ QueueType' /\ PlaceType' /\ AbortType'
    BY <1>18 DEF Flushed, Go, Shifted, queues, ctl, abt, hist, Types, CtlType, QueueType, Queues,
       PlaceType, PCs, Awaiting, Ops, AbortType
  <2>2. StoreType'
    <3>1. Item("write", run[r].drained[1]) \in Entries /\ Shifted(pending) \in Seq(Writes)
      BY <1>18, EntryTypes DEF Flushed, InHand, Hand, Types, StoreType, Shifted
    <3> QED BY <1>18, <3>1 DEF Flushed, Types, StoreType, hist
  <2>3. RunType'
    <3> DEFINE none == <<>>
    <3>1. none \in Seq(Msgs \cup Writes)  OBVIOUS
    <3> HIDE DEF none
    <3>2. \A l \in RunRecord : [l EXCEPT !.drained = none] \in RunRecord  BY <3>1 DEF RunRecord
    <3>3. run' = [run EXCEPT ![r] = [run[r] EXCEPT !.drained = none]]
      BY <1>18 DEF Flushed, none
    <3> QED BY <3>2, <3>3 DEF Types, RunType
  <2> QED BY <2>1, <2>2, <2>3 DEF Types
<1>19. ASSUME NEW r \in Runs, FlushDone(r) PROVE Types'
  <2>1. UNCHANGED <<queues, store, abt, hist>>  BY <1>19 DEF FlushDone
  <2>2. QueueType' /\ AbortType'  BY <2>1 DEF Types, QueueType, AbortType, queues, abt, hist
  <2>3. StoreType'
    BY <1>19, <2>1 DEF FlushDone, NextContext, Types, StoreType, Working, store, hist
  <2>4. CASE run[r].then = "save_point" /\ run[r].raised
    <3>1. Throw(r)  BY <1>19, <2>4 DEF FlushDone
    <3> QED BY <2>2, <2>3, <3>1, ThrowTypes DEF Types
  <2>5. CASE ~(run[r].then = "save_point" /\ run[r].raised)
    <3>1. RunType'  BY <1>19, <2>5 DEF FlushDone, Types, RunType
    <3>2. CtlType'
      BY <1>19, <2>5 DEF FlushDone, PhaseAfter, Finish, ctl, Types, CtlType
    <3>3. PlaceType'
      BY <1>19, <2>5 DEF FlushDone, Finish, Go, Types, PlaceType, PCs, Awaiting, Ops
    <3> QED BY <2>2, <2>3, <3>1, <3>2, <3>3 DEF Types
  <2> QED BY <2>4, <2>5
<1>20. ASSUME NEW r \in Runs, Rejects(r) PROVE Types'
  <2>1. Throw(r) /\ AnyFault /\ UNCHANGED <<arrays, store, context, aborted, waits, hit, deferred, sent, announced>>
    BY <1>20 DEF Rejects
  <2>2. CtlType' /\ PlaceType' /\ RunType'  BY <2>1, ThrowTypes
  <2>3. StoreType'  BY <2>1 DEF Types, StoreType, store
  <2>4. AbortType'  BY <2>1, HarnessAssumption DEF Types, AbortType, AnyFault
  <2>5. QueueType'
    <3>1. pc[r] = "queue_update" => RolledBack(r) \in [Queues -> Seq(Msgs)]
      <4>1. ASSUME pc[r] = "queue_update" PROVE run[r].drained \o queue[run[r].from] \in Seq(Msgs)
        BY <4>1 DEF InHand, Hand, Types, RunType, RunRecord, QueueType
      <4> QED BY <4>1 DEF RolledBack, Types, QueueType
    <3>2. pc[r] = "queue_update" => Range(run[r].drained) \subseteq Msgs
      <4>1. pc[r] = "queue_update" => run[r].drained \in Seq(Msgs)  BY DEF InHand, Hand
      <4> QED BY <4>1 DEF Range
    <3>3. cleared' \subseteq Msgs  BY <1>20, <3>2 DEF Rejects, Types, QueueType
    <3> QED BY <1>20, <2>1, <3>1, <3>3 DEF Rejects, Types, QueueType
  <2> QED BY <2>2, <2>3, <2>4, <2>5 DEF Types
<1>21. ASSUME NEW s \in Structs, StartStruct(s) PROVE Types'
  BY <1>21 DEF StartStruct, Go, MayStart, Open, queues, store, abt, hist, Types, CtlType,
     QueueType, Queues, StoreType, Working, PlaceType, PCs, Awaiting, Ops, RunType, AbortType
<1>22. ASSUME NEW s \in Structs, Prepared(s) PROVE Types'
  BY <1>22 DEF Prepared, Go, queues, store, ctl, abt, hist, Types, CtlType, QueueType, Queues,
     StoreType, Working, PlaceType, PCs, Awaiting, Ops, RunType, AbortType
<1>23. ASSUME NEW s \in Structs, StructAppended(s) PROVE Types'
  <2>1. CtlType' /\ QueueType' /\ PlaceType' /\ RunType' /\ AbortType'
    BY <1>23 DEF StructAppended, Go, queues, ctl, abt, hist, Types, CtlType, QueueType, Queues,
       PlaceType, PCs, Awaiting, Ops, RunType, AbortType
  <2>2. StoreType'
    <3>1. Item("structural", s) \in Entries  BY EntryTypes
    <3> QED BY <1>23, <3>1 DEF StructAppended, Types, StoreType, hist
  <2> QED BY <2>1, <2>2 DEF Types
<1>24. ASSUME NEW s \in Structs, StructEnds(s) PROVE Types'
  <2>1. CtlType' /\ QueueType' /\ StoreType' /\ PlaceType' /\ RunType'
    BY <1>24 DEF StructEnds, Go, AnyFault, queues, store, abt, Types, CtlType, QueueType, Queues,
       StoreType, Working, PlaceType, PCs, Awaiting, Ops, RunType
  <2>2. AbortType'
    BY <1>24, HarnessAssumption DEF StructEnds, AnyFault, Types, AbortType, abt
  <2> QED BY <2>1, <2>2 DEF Types
<1>25. ASSUME NEW w \in Writes, WriteWhenIdle(w) PROVE Types'
  BY <1>25 DEF WriteWhenIdle, Go, Open, queues, store, ctl, abt, hist, Types, CtlType, QueueType,
     Queues, StoreType, Working, PlaceType, PCs, Awaiting, Ops, RunType, AbortType
<1>26. ASSUME NEW w \in Writes, WriteWhenBusy(w) PROVE Types'
  <2>1. CtlType' /\ AbortType'  BY <1>26 DEF WriteWhenBusy, ctl, abt, Types, CtlType, AbortType
  <2>2. QueueType' /\ RunType'
    BY <1>26 DEF WriteWhenBusy, queues, abt, Types, QueueType, RunType
  <2>3. StoreType'  BY <1>26 DEF WriteWhenBusy, Types, StoreType
  <2>4. PlaceType'
    BY <1>26 DEF WriteWhenBusy, Go, Types, PlaceType, PCs, Awaiting, Ops
  <2> QED BY <2>1, <2>2, <2>3, <2>4 DEF Types
<1>27. ASSUME NEW w \in Writes, WriteAppended(w) PROVE Types'
  <2>1. CtlType' /\ QueueType' /\ PlaceType' /\ RunType'
    BY <1>27 DEF WriteAppended, Go, AnyFault, queues, ctl, abt, Types, CtlType, QueueType, Queues,
       PlaceType, PCs, Awaiting, Ops, RunType
  <2>2. StoreType'
    <3>1. Append(session, Item("write", w)) \in Seq(Entries)  BY EntryTypes DEF Types, StoreType
    <3>2. UNCHANGED <<pending, deferred, context>>  BY <1>27 DEF WriteAppended
    <3>3. session' \in {session, Append(session, Item("write", w))}  BY <1>27 DEF WriteAppended
    <3> QED BY <3>1, <3>2, <3>3 DEF Types, StoreType
  <2>3. AbortType'
    BY <1>27, HarnessAssumption DEF WriteAppended, AnyFault, Types, AbortType, abt
  <2> QED BY <2>1, <2>2, <2>3 DEF Types
<1>28. ASSUME NEW m \in Msgs, Send(m) PROVE Types'
  <2>1. CtlType' /\ StoreType' /\ PlaceType' /\ RunType' /\ AbortType'
    BY <1>28 DEF Send, Go, store, ctl, abt, Types, CtlType, StoreType, Working, PlaceType, PCs,
       Awaiting, Ops, RunType, AbortType
  <2>2. QueueType'
    <3>1. PICK q \in Queues : /\ queue' = [queue EXCEPT ![q] = Append(@, m)]
                               /\ sent' = [sent EXCEPT ![q] = Append(@, m)]
                               /\ UNCHANGED <<arrays, cleared, announced>>
      BY <1>28 DEF Send, abt
    <3>2. Append(queue[q], m) \in Seq(Msgs) /\ Append(sent[q], m) \in Seq(Msgs)
      BY DEF Types, QueueType
    <3> QED BY <3>1, <3>2 DEF Types, QueueType
  <2> QED BY <2>1, <2>2 DEF Types
<1>29. ASSUME NEW a \in Aborts, Abort(a) PROVE Types'
  <2>1. CtlType' /\ StoreType' /\ PlaceType' /\ RunType' /\ AbortType'
    BY <1>29 DEF Abort, Go, store, ctl, hist, Types, CtlType, StoreType, Working, PlaceType, PCs,
       Awaiting, Ops, RunType, AbortType, CtlType
  <2>2. QueueType'
    <3>1. Range(queue["steer"]) \cup Range(queue["followUp"]) \subseteq Msgs
      BY DEF Types, QueueType, Queues, Range
    <3>2. cleared' \subseteq Msgs  BY <1>29, <3>1 DEF Abort, Types, QueueType
    <3>3. /\ queue' = [queue EXCEPT !["steer"] = <<>>, !["followUp"] = <<>>]
          /\ arrays' = arrays + 1 /\ UNCHANGED <<sent, announced>>
      BY <1>29 DEF Abort, hist
    <3> DEFINE none == <<>>
    <3>4. queue' = [queue EXCEPT !["steer"] = none, !["followUp"] = none] /\ none \in Seq(Msgs)
      BY <3>3
    <3> HIDE DEF none
    <3>5. queue' \in [Queues -> Seq(Msgs)]
      BY <3>4 DEF Types, QueueType
    <3>6. arrays' \in Nat /\ {sent', announced'} \subseteq [Queues -> Seq(Msgs)]
      BY <3>3 DEF Types, QueueType
    <3> QED BY <3>2, <3>5, <3>6 DEF QueueType
  <2> QED BY <2>1, <2>2 DEF Types
<1>30. ASSUME NEW a \in Aborts, AbortAnnounced(a) PROVE Types'
  BY <1>30 DEF AbortAnnounced, Go, queues, store, ctl, hist, Types, CtlType, QueueType, Queues,
     StoreType, Working, PlaceType, PCs, Awaiting, Ops, RunType, AbortType, CtlType
<1>31. ASSUME NEW a \in Aborts, AbortReturns(a) PROVE Types'
  BY <1>31 DEF AbortReturns, Go, queues, store, ctl, abt, hist, Types, CtlType, QueueType, Queues,
     StoreType, Working, PlaceType, PCs, Awaiting, Ops, RunType, AbortType
<1>32. CASE UNCHANGED vars
  BY <1>32 DEF vars, ctl, queues, store, abt, hist, Types, CtlType, QueueType, StoreType,
     PlaceType, RunType, AbortType
<1> QED
  BY <1>1, <1>2, <1>3, <1>4, <1>5, <1>6, <1>7, <1>8, <1>9, <1>10, <1>11, <1>12, <1>13, <1>14,
     <1>15, <1>16, <1>17, <1>18, <1>19, <1>20, <1>21, <1>22, <1>23, <1>24, <1>25, <1>26, <1>27,
     <1>28, <1>29, <1>30, <1>31, <1>32 DEF Next, RunStep, StructStep, AbortStep

LEMMA RunFields ==
  ASSUME Types, NEW r \in Runs
  PROVE  DOMAIN run[r] = {"stage", "out", "then", "drained", "from", "array", "reply", "more", "raised",
                          "failed", "turns"}
  BY DEF Types, RunType, RunRecord

\* A step of a run leaves the other operations where they are.
LEMMA RunMoves ==
  ASSUME Types, Places, NEW r \in Runs, NEW l, Go(r, l), RunPlace(r)',
         \A x \in Runs \ {r} : run'[x] = run[x]
  PROVE  Places'
<1>1. \A o \in Ops \ {r} : pc'[o] = pc[o]  BY DEF Go, Types, PlaceType
<1>2. \A x \in Runs \ {r} : RunPlace(x)'  BY <1>1 DEF Places, RunPlace, Ops
<1> QED BY <1>1, <1>2, HarnessAssumption DEF Places, Ops

\* So does a step of another operation.
LEMMA OtherMoves ==
  ASSUME Types, Places, NEW o \in Ops \ Runs, NEW l, Go(o, l), UNCHANGED run,
         o \in Structs => l \in {"new", "preparing", "append", "notify", "returned"},
         o \in Writes => l \in {"new", "append", "returned", "rejected"},
         o \in Msgs => l \in {"new", "returned"},
         o \in Aborts => l \in {"new", "queue_update", "waiting", "returned"}
  PROVE  Places'
<1>1. pc'[o] = l /\ \A x \in Ops \ {o} : pc'[x] = pc[x]  BY DEF Go, Types, PlaceType
<1>2. \A x \in Runs : RunPlace(x)'  BY <1>1 DEF Places, RunPlace, Ops
<1> QED BY <1>1, <1>2, HarnessAssumption DEF Places, Ops


\* ThrowMeans, field by field.
LEMMA ThrowEffect ==
  ASSUME Types, NEW r \in Runs, Throw(r)
  PROVE  /\ \A x \in Runs \ {r} : run'[x] = run[x]
         /\ \E l : Go(r, l)
         /\ run[r].stage \in {"start", "loop", "failing", "final"}
         /\ run[r].stage \in {"start", "final"} =>
              /\ phase' = "idle" /\ runPromise' = None /\ resolved' = resolved \cup {r}
              /\ controller' = IF run[r].stage = "start" THEN controller ELSE None
              /\ pc'[r] = "returned" /\ run' = run
         /\ run[r].stage = "loop" =>
              /\ UNCHANGED ctl /\ pc'[r] = "append" /\ run'[r].stage = "failing"
              /\ run'[r].out = <<Item("failure", r)>> /\ run'[r].then = "turn_end"
              /\ run'[r].reply = "failed" /\ run'[r].drained = <<>> /\ run'[r].failed = run[r].failed
         /\ run[r].stage = "failing" =>
              /\ UNCHANGED ctl /\ pc'[r] = "flush" /\ run'[r].stage = "final"
              /\ run'[r].then = "final" /\ run'[r].failed /\ run'[r].drained = <<>>
<1>1. r \in Ops  BY DEF Ops
<1>2. run[r].stage \in {"start", "loop", "failing", "final"}  BY DEF Types, RunType, RunRecord
<1>3. CASE run[r].stage \in {"start", "final"}
  BY <1>1, <1>2, <1>3, ThrowMeans DEF Go, Finish, Types, PlaceType, RunType
<1>4. CASE run[r].stage = "loop"
  <2> DEFINE out == <<Item("failure", r)>>
             none == <<>>
  <2>1. run' = [run EXCEPT ![r] = [run[r] EXCEPT !.stage = "failing", !.out = out, !.then = "turn_end",
                  !.reply = "failed", !.raised = FALSE, !.drained = none]]
    BY <1>4, ThrowMeans
  <2>2. Go(r, "append") /\ UNCHANGED ctl  BY <1>4, ThrowMeans
  <2> HIDE DEF out, none
  <2>3. /\ run'[r] = [run[r] EXCEPT !.stage = "failing", !.out = out, !.then = "turn_end",
                      !.reply = "failed", !.raised = FALSE, !.drained = none]
        /\ \A x \in Runs \ {r} : run'[x] = run[x]
    BY <2>1 DEF Types, RunType
  <2>4. /\ run'[r].stage = "failing" /\ run'[r].out = out /\ run'[r].then = "turn_end"
        /\ run'[r].reply = "failed" /\ run'[r].drained = none /\ run'[r].failed = run[r].failed
    BY <2>3, RunFields
  <2>5. pc'[r] = "append"  BY <1>1, <2>2 DEF Go, Types, PlaceType
  <2> QED BY <1>2, <1>4, <2>2, <2>3, <2>4, <2>5 DEF out, none
<1>5. CASE run[r].stage = "failing"
  <2> DEFINE none == <<>>
  <2>1. run' = [run EXCEPT ![r] = [run[r] EXCEPT !.stage = "final", !.then = "final", !.failed = TRUE,
                  !.drained = none]]
    BY <1>5, ThrowMeans
  <2>2. Go(r, "flush") /\ UNCHANGED ctl  BY <1>5, ThrowMeans
  <2> HIDE DEF none
  <2>3. /\ run'[r] = [run[r] EXCEPT !.stage = "final", !.then = "final", !.failed = TRUE, !.drained = none]
        /\ \A x \in Runs \ {r} : run'[x] = run[x]
    BY <2>1 DEF Types, RunType
  <2>4. run'[r].stage = "final" /\ run'[r].then = "final" /\ run'[r].failed /\ run'[r].drained = none
    BY <2>3, RunFields
  <2>5. pc'[r] = "flush"  BY <1>1, <2>2 DEF Go, Types, PlaceType
  <2> QED BY <1>2, <1>5, <2>2, <2>3, <2>4, <2>5 DEF none
<1> QED BY <1>2, <1>3, <1>4, <1>5

LEMMA ThrowPlace ==
  ASSUME Types, Places, NEW r \in Runs, Throw(r)
  PROVE  Places'
<1>1. RunPlace(r)'  BY ThrowEffect DEF RunPlace
<1> QED BY <1>1, ThrowEffect, RunMoves

\* Announcing a drain.
LEMMA DrainPlace ==
  ASSUME Types, Places, NEW r \in Runs, NEW q, NEW n, Drain(r, q, n),
         run[r].stage \in {"start", "loop"}
  PROVE  Places'
<1>1. run' = [run EXCEPT ![r] = [run[r] EXCEPT !.drained = SubSeq(queue[q], 1, n), !.from = q,
                !.array = arrays]]
  BY DEF Drain
<1>2. RunPlace(r)'
  BY <1>1, RunFields DEF Drain, Go, RunPlace, Types, PlaceType, RunType, Ops
<1>3. \A x \in Runs \ {r} : run'[x] = run[x]  BY <1>1 DEF Types, RunType
<1> QED BY <1>2, <1>3, RunMoves DEF Drain

LEMMA PlacesStep == Types /\ Places /\ [Next]_vars => Places'
<1> SUFFICES ASSUME Types, Places, [Next]_vars PROVE Places'  OBVIOUS
<1>1. ASSUME NEW r \in Runs, StartRun(r) PROVE Places'
  <2>1. RunPlace(r)' BY <1>1, RunFields DEF StartRun, Go, MayStart, Open, RunPlace, Places, Types,
     PlaceType, RunType, Ops
  <2>2. \A x \in Runs \ {r} : run'[x] = run[x] BY <1>1, RunFields DEF StartRun, Go, MayStart, Open,
     Types, RunType
  <2>3. PICK l : Go(r, l) BY <1>1 DEF StartRun, MayStart, Open
  <2> QED BY <2>1, <2>2, <2>3, RunMoves
<1>2. ASSUME NEW r \in Runs, StateCreated(r) PROVE Places'
  <2>1. CASE queue["nextTurn"] # <<>>
    BY <1>2, <2>1, DrainPlace, RunFields DEF StateCreated, Places, RunPlace, Types, RunType, RunRecord
  <2>2. CASE queue["nextTurn"] = <<>>
    <3>1. Go(r, "before_start") /\ UNCHANGED run  BY <1>2, <2>2 DEF StateCreated
    <3>2. RunPlace(r)'  BY <1>2, <3>1 DEF StateCreated, Go, Places, RunPlace, Types, PlaceType, Ops
    <3> QED BY <3>1, <3>2, RunMoves
  <2> QED BY <2>1, <2>2
<1>3. ASSUME NEW r \in Runs, Unknown(r) PROVE Places'
  BY <1>3, ThrowPlace DEF Unknown
<1>4. ASSUME NEW r \in Runs, BeforeStart(r) PROVE Places'
  <2>1. RunPlace(r)' BY <1>4, RunFields DEF BeforeStart, Go, FirstMessages, RunPlace, Places,
     Types, PlaceType, RunType, Ops
  <2>2. \A x \in Runs \ {r} : run'[x] = run[x] BY <1>4, RunFields DEF BeforeStart, Go,
     FirstMessages, Types, RunType
  <2>3. PICK l : Go(r, l) BY <1>4 DEF BeforeStart, FirstMessages
  <2> QED BY <2>1, <2>2, <2>3, RunMoves
<1>5. ASSUME NEW r \in Runs, Appended(r) PROVE Places'
  <2>1. RunPlace(r)' BY <1>5, RunFields DEF Appended, Go, RunPlace, Places, Types, PlaceType,
     RunType, Ops
  <2>2. \A x \in Runs \ {r} : run'[x] = run[x] BY <1>5, RunFields DEF Appended, Go, Types, RunType
  <2>3. PICK l : Go(r, l) BY <1>5 DEF Appended
  <2> QED BY <2>1, <2>2, <2>3, RunMoves
<1>6. ASSUME NEW r \in Runs, Notified(r) PROVE Places'
  <2>1. RunPlace(r)' BY <1>6, RunFields DEF Notified, Go, RunPlace, Places, Types, PlaceType,
     RunType, Ops
  <2>2. \A x \in Runs \ {r} : run'[x] = run[x] BY <1>6, RunFields DEF Notified, Go, Types, RunType
  <2>3. PICK l : Go(r, l) BY <1>6 DEF Notified
  <2> QED BY <2>1, <2>2, <2>3, RunMoves
<1>7. ASSUME NEW r \in Runs, PollSteering(r) PROVE Places'
  <2>1. pc[r] = "poll" /\ run[r].stage = "loop"
    BY <1>7 DEF PollSteering, Places, RunPlace, Types, RunType, RunRecord
  <2>2. ASSUME Poll(r, "steer") PROVE Places'  BY <2>1, <2>2, DrainPlace DEF Poll
  <2>3. ASSUME ~Poll(r, "steer") PROVE Places'
    <3>1. PICK l \in {"request", "poll_follow"} : Go(r, l)  BY <1>7, <2>3 DEF PollSteering
    <3>2. UNCHANGED run  BY <1>7, <2>3 DEF PollSteering
    <3>3. RunPlace(r)'  BY <2>1, <3>1, <3>2 DEF Go, Places, RunPlace, Types, PlaceType, Ops
    <3> QED BY <3>1, <3>2, <3>3, RunMoves
  <2> QED BY <2>2, <2>3
<1>8. ASSUME NEW r \in Runs, PollFollowUp(r) PROVE Places'
  <2>1. pc[r] = "poll_follow" /\ run[r].stage = "loop"
    BY <1>8 DEF PollFollowUp, Places, RunPlace, Types, RunType, RunRecord
  <2>2. ASSUME Poll(r, "followUp") PROVE Places'  BY <2>1, <2>2, DrainPlace DEF Poll
  <2>3. ASSUME ~Poll(r, "followUp") PROVE Places'
    <3>1. run' = [run EXCEPT ![r].then = "agent_end"] /\ Go(r, "flush")  BY <1>8, <2>3 DEF PollFollowUp
    <3>2. RunPlace(r)'
      BY <2>1, <3>1, RunFields DEF Go, Places, RunPlace, Types, PlaceType, RunType, Ops
    <3>3. \A x \in Runs \ {r} : run'[x] = run[x]  BY <3>1 DEF Types, RunType
    <3> QED BY <3>1, <3>2, <3>3, RunMoves
  <2> QED BY <2>2, <2>3
<1>9. ASSUME NEW r \in Runs, DrainAnnounced(r) PROVE Places'
  <2>1. RunPlace(r)' BY <1>9, RunFields DEF DrainAnnounced, Go, RunPlace, Places, Types, PlaceType,
     RunType, Ops
  <2>2. \A x \in Runs \ {r} : run'[x] = run[x] BY <1>9, RunFields DEF DrainAnnounced, Go, Types,
     RunType
  <2>3. PICK l : Go(r, l) BY <1>9 DEF DrainAnnounced
  <2> QED BY <2>1, <2>2, <2>3, RunMoves
<1>10. ASSUME NEW r \in Runs, Replied(r) PROVE Places'
  <2>1. RunPlace(r)' BY <1>10, RunFields DEF Replied, Go, RunPlace, Places, Types, PlaceType,
     RunType, Ops
  <2>2. \A x \in Runs \ {r} : run'[x] = run[x] BY <1>10, RunFields DEF Replied, Go, Types, RunType
  <2>3. PICK l : Go(r, l) BY <1>10 DEF Replied
  <2> QED BY <2>1, <2>2, <2>3, RunMoves
<1>11. ASSUME NEW r \in Runs, ToolsDone(r) PROVE Places'
  <2>1. RunPlace(r)' BY <1>11, RunFields DEF ToolsDone, Go, RunPlace, Places, Types, PlaceType,
     RunType, Ops
  <2>2. \A x \in Runs \ {r} : run'[x] = run[x] BY <1>11, RunFields DEF ToolsDone, Go, Types,
     RunType
  <2>3. PICK l : Go(r, l) BY <1>11 DEF ToolsDone
  <2> QED BY <2>1, <2>2, <2>3, RunMoves
<1>12. ASSUME NEW r \in Runs, TurnEnd(r) PROVE Places'
  <2>1. RunPlace(r)' BY <1>12, RunFields DEF TurnEnd, Go, AnyFault, RunPlace, Places, Types,
     PlaceType, RunType, Ops
  <2>2. \A x \in Runs \ {r} : run'[x] = run[x] BY <1>12, RunFields DEF TurnEnd, Go, AnyFault,
     Types, RunType
  <2>3. PICK l : Go(r, l) BY <1>12 DEF TurnEnd, AnyFault
  <2> QED BY <2>1, <2>2, <2>3, RunMoves
<1>13. ASSUME NEW r \in Runs, SavePoint(r) PROVE Places'
  <2>1. PICK l \in {"agent_end", "snapshot"} :
          /\ l = "agent_end" <=> run[r].reply = "failed"
          /\ run' = [run EXCEPT ![r].then = l] /\ Go(r, "flush")
    BY <1>13 DEF SavePoint, FlushThen
  <2>2. run'[r].then = l /\ run'[r].stage = run[r].stage /\ run'[r].reply = run[r].reply
    BY <2>1, RunFields DEF Types, RunType
  <2>3. pc[r] = "save_point" /\ pc'[r] = "flush" BY <1>13, <2>1 DEF SavePoint, Go, Types, PlaceType, Ops
  <2>4. RunPlace(r)' BY <2>1, <2>2, <2>3 DEF RunPlace, Places, Types, RunType, RunRecord
  <2>5. \A x \in Runs \ {r} : run'[x] = run[x]  BY <2>1 DEF Types, RunType
  <2> QED BY <2>1, <2>4, <2>5, RunMoves
<1>14. ASSUME NEW r \in Runs, Snapshot(r) PROVE Places'
  <2>1. RunPlace(r)' BY <1>14, RunFields DEF Snapshot, Go, RunPlace, Places, Types, PlaceType,
     RunType, Ops
  <2>2. \A x \in Runs \ {r} : run'[x] = run[x] BY <1>14, RunFields DEF Snapshot, Go, Types, RunType
  <2>3. PICK l : Go(r, l) BY <1>14 DEF Snapshot
  <2> QED BY <2>1, <2>2, <2>3, RunMoves
<1>15. ASSUME NEW r \in Runs, AgentEnd(r) PROVE Places'
  <2>1. RunPlace(r)' BY <1>15, RunFields DEF AgentEnd, Go, RunPlace, Places, Types, PlaceType,
     RunType, Ops
  <2>2. \A x \in Runs \ {r} : run'[x] = run[x] BY <1>15, RunFields DEF AgentEnd, Go, Types, RunType
  <2>3. PICK l : Go(r, l) BY <1>15 DEF AgentEnd
  <2> QED BY <2>1, <2>2, <2>3, RunMoves
<1>16. ASSUME NEW r \in Runs, Settled(r) PROVE Places'
  <2>1. RunPlace(r)' BY <1>16, RunFields DEF Settled, Go, RunPlace, Places, Types, PlaceType,
     RunType, Ops
  <2>2. \A x \in Runs \ {r} : run'[x] = run[x] BY <1>16, RunFields DEF Settled, Go, Types, RunType
  <2>3. PICK l : Go(r, l) BY <1>16 DEF Settled
  <2> QED BY <2>1, <2>2, <2>3, RunMoves
<1>17. ASSUME NEW r \in Runs, FlushNext(r) PROVE Places'
  <2>1. RunPlace(r)' BY <1>17, RunFields DEF FlushNext, Go, RunPlace, Places, Types, PlaceType,
     RunType, Ops
  <2>2. \A x \in Runs \ {r} : run'[x] = run[x] BY <1>17, RunFields DEF FlushNext, Go, Types,
     RunType
  <2>3. PICK l : Go(r, l) BY <1>17 DEF FlushNext
  <2> QED BY <2>1, <2>2, <2>3, RunMoves
<1>18. ASSUME NEW r \in Runs, Flushed(r) PROVE Places'
  <2>1. RunPlace(r)' BY <1>18, RunFields DEF Flushed, Go, Shifted, RunPlace, Places, Types,
     PlaceType, RunType, Ops
  <2>2. \A x \in Runs \ {r} : run'[x] = run[x] BY <1>18, RunFields DEF Flushed, Go, Shifted, Types,
     RunType
  <2>3. PICK l : Go(r, l) BY <1>18 DEF Flushed, Shifted
  <2> QED BY <2>1, <2>2, <2>3, RunMoves
<1>19. ASSUME NEW r \in Runs, FlushDone(r) PROVE Places'
  <2>1. CASE run[r].then = "save_point" /\ run[r].raised
    BY <1>19, <2>1, ThrowPlace DEF FlushDone
  <2>2. CASE ~(run[r].then = "save_point" /\ run[r].raised)
    <3>1. UNCHANGED run  BY <1>19, <2>2 DEF FlushDone
    <3>2. Go(r, IF run[r].then = "final" THEN "returned" ELSE run[r].then)
      BY <1>19, <2>2 DEF FlushDone, Finish
    <3>3. RunPlace(r)'
      BY <1>19, <3>1, <3>2 DEF FlushDone, Go, Places, RunPlace, Types, PlaceType, RunType, RunRecord, Ops
    <3> QED BY <3>1, <3>2, <3>3, RunMoves
  <2> QED BY <2>1, <2>2
<1>20. ASSUME NEW r \in Runs, Rejects(r) PROVE Places'
  BY <1>20, ThrowPlace DEF Rejects
<1>21. ASSUME NEW s \in Structs, StartStruct(s) PROVE Places'
  BY <1>21, OtherMoves, HarnessAssumption DEF StartStruct, MayStart, Open, Ops
<1>22. ASSUME NEW s \in Structs, Prepared(s) PROVE Places'
  BY <1>22, OtherMoves, HarnessAssumption DEF Prepared, Ops
<1>23. ASSUME NEW s \in Structs, StructAppended(s) PROVE Places'
  BY <1>23, OtherMoves, HarnessAssumption DEF StructAppended, Ops
<1>24. ASSUME NEW s \in Structs, StructEnds(s) PROVE Places'
  BY <1>24, OtherMoves, HarnessAssumption DEF StructEnds, AnyFault, Ops
<1>25. ASSUME NEW w \in Writes, WriteWhenIdle(w) PROVE Places'
  BY <1>25, OtherMoves, HarnessAssumption DEF WriteWhenIdle, Open, Ops
<1>26. ASSUME NEW w \in Writes, WriteWhenBusy(w) PROVE Places'
  BY <1>26, OtherMoves, HarnessAssumption DEF WriteWhenBusy, Ops
<1>27. ASSUME NEW w \in Writes, WriteAppended(w) PROVE Places'
  BY <1>27, OtherMoves, HarnessAssumption DEF WriteAppended, AnyFault, Ops
<1>28. ASSUME NEW m \in Msgs, Send(m) PROVE Places'
  BY <1>28, OtherMoves, HarnessAssumption DEF Send, Ops
<1>29. ASSUME NEW a \in Aborts, Abort(a) PROVE Places'
  BY <1>29, OtherMoves, HarnessAssumption DEF Abort, Ops
<1>30. ASSUME NEW a \in Aborts, AbortAnnounced(a) PROVE Places'
  BY <1>30, OtherMoves, HarnessAssumption DEF AbortAnnounced, Ops
<1>31. ASSUME NEW a \in Aborts, AbortReturns(a) PROVE Places'
  BY <1>31, OtherMoves, HarnessAssumption DEF AbortReturns, Ops
<1>32. CASE UNCHANGED vars BY <1>32 DEF vars, Places, RunPlace
<1> QED
  BY <1>1, <1>2, <1>3, <1>4, <1>5, <1>6, <1>7, <1>8, <1>9, <1>10, <1>11, <1>12, <1>13, <1>14,
     <1>15, <1>16, <1>17, <1>18, <1>19, <1>20, <1>21, <1>22, <1>23, <1>24, <1>25, <1>26, <1>27,
     <1>28, <1>29, <1>30, <1>31, <1>32 DEF Next, RunStep, StructStep, AbortStep

(***************************************************************************)
(* One operation at a time.                                                *)
(***************************************************************************)

\* A step within a run.
LEMMA ControlKept ==
  ASSUME Types, Control, NEW r \in Runs, NEW l, Go(r, l), Open(r), l \notin {"new", "returned", "rejected"},
         UNCHANGED ctl, \A x \in Runs \ {r} : run'[x] = run[x],
         Early(r)' => Early(r), Over(r)' => Over(r),
         run'[r].stage = "start" <=> run[r].stage = "start"
  PROVE  Control'
<1>1. pc'[r] = l /\ \A o \in Ops \ {r} : pc'[o] = pc[o]  BY DEF Go, Types, PlaceType, Ops
<1>2. \A o \in Ops : Open(o)' <=> Open(o)  BY <1>1 DEF Open
<1>3. \A x \in Runs \ {r} : (Early(x)' <=> Early(x)) /\ (Over(x)' <=> Over(x))
  BY <1>1 DEF Early, Over, Ops
<1>4. resolved' = {x \in Runs : pc'[x] = "returned"}
  BY <1>1 DEF Control, ctl, Open, Ops
<1>5. \A x, y \in Working : Open(x)' /\ Open(y)' => x = y
  BY <1>2 DEF Control, Working, Ops
<1>6. phase' # "idle" => (\E x \in Working : Open(x)') /\ \A w \in Writes : ~Open(w)'
  BY <1>2 DEF Control, ctl, Working, Ops
<1>7. \A s \in Structs : Open(s)' => phase' = "structural"
  BY <1>2 DEF Control, ctl, Ops
<1>8. \A x \in Runs : Open(x)' =>
        /\ phase' # "structural" /\ runPromise' = x
        /\ Early(x)' => phase' = "turn"
        /\ Over(x)' => phase' = "idle"
        /\ controller' = IF run'[x].stage = "start" THEN None ELSE x
  BY <1>2, <1>3 DEF Control, ctl, Ops
<1>9. (controller' # None => Open(controller)') /\ (runPromise' # None => Open(runPromise)')
  BY <1>2 DEF Control, ctl, Types, CtlType, Ops
<1> QED BY <1>4, <1>5, <1>6, <1>7, <1>8, <1>9 DEF Control

\* The end of a run.
LEMMA RunEnds ==
  ASSUME Types, Control, NEW r \in Runs, Go(r, "returned"), Open(r), UNCHANGED run,
         phase' = "idle", controller' = None, runPromise' = None, resolved' = resolved \cup {r}
  PROVE  Control'
<1>1. pc'[r] = "returned" /\ \A o \in Ops \ {r} : pc'[o] = pc[o]  BY DEF Go, Types, PlaceType, Ops
<1>2. \A o \in Ops : Open(o)' <=> Open(o) /\ o # r  BY <1>1 DEF Open
<1>3. \A x \in Working : ~Open(x)'  BY <1>2 DEF Control, Working, Ops
<1>4. resolved' = {x \in Runs : pc'[x] = "returned"}  BY <1>1 DEF Control, Ops
<1> QED BY <1>3, <1>4 DEF Control, Working

\* A step of a write, a message or an abort.
LEMMA ControlAside ==
  ASSUME Types, Control, NEW o \in Writes \cup Msgs \cup Aborts, NEW l, Go(o, l),
         UNCHANGED <<ctl, run>>, o \in Writes /\ phase # "idle" => l = "returned"
  PROVE  Control'
<1>1. pc'[o] = l /\ \A x \in Ops \ {o} : pc'[x] = pc[x]  BY DEF Go, Types, PlaceType, Ops
<1>2. o \notin Working  BY HarnessAssumption DEF Working
<1>3. \A x \in Working : (Open(x)' <=> Open(x)) /\ pc'[x] = pc[x]
  BY <1>1, <1>2 DEF Open, Working, Ops
<1>4. \A x \in Runs : (Early(x)' <=> Early(x)) /\ (Over(x)' <=> Over(x))
  BY <1>3 DEF Early, Over, Working
<1>5. resolved' = {x \in Runs : pc'[x] = "returned"}  BY <1>3 DEF Control, ctl, Working
<1>6. phase' # "idle" => (\E x \in Working : Open(x)') /\ \A w \in Writes : ~Open(w)'
  BY <1>1, <1>3 DEF Control, ctl, Open, Ops
<1>7. (controller' # None => Open(controller)') /\ (runPromise' # None => Open(runPromise)')
  BY <1>3 DEF Control, ctl, Types, CtlType, Working
<1>8. \A x \in Runs : Open(x)' =>
        /\ phase' # "structural" /\ runPromise' = x
        /\ Early(x)' => phase' = "turn"
        /\ Over(x)' => phase' = "idle"
        /\ controller' = IF run'[x].stage = "start" THEN None ELSE x
  BY <1>3, <1>4 DEF Control, ctl, Working
<1>9. /\ \A x, y \in Working : Open(x)' /\ Open(y)' => x = y
      /\ \A s \in Structs : Open(s)' => phase' = "structural"
  BY <1>3 DEF Control, ctl, Working
<1> QED BY <1>5, <1>6, <1>7, <1>8, <1>9 DEF Control

\* The start of an operation, and what a run, promise and controller are then.
LEMMA NoneOpen ==
  ASSUME Types, Control, \A x \in Working : ~Open(x)
  PROVE  phase = "idle" /\ controller = None /\ runPromise = None
  BY DEF Control, Types, CtlType, Working

LEMMA ThrowControl ==
  ASSUME Types, Places, Control, NEW r \in Runs, Throw(r), Open(r)
  PROVE  Control'
<1>1. run[r].stage \in {"start", "loop", "failing", "final"}  BY ThrowEffect
<1>2. CASE run[r].stage \in {"start", "final"}
  <2>1. Go(r, "returned") /\ UNCHANGED run  BY <1>2, ThrowMeans DEF Finish
  <2>2. controller' = None  BY <1>2, ThrowEffect DEF Control
  <2> QED BY <1>2, <2>1, <2>2, ThrowEffect, RunEnds
<1>3. CASE run[r].stage \in {"loop", "failing"}
  <2>1. PICK l \in {"append", "flush"} : Go(r, l)  BY <1>3, ThrowMeans
  <2>2. ~Early(r)' /\ ~Over(r)' /\ run'[r].stage # "start" /\ UNCHANGED ctl
    BY <1>3, ThrowEffect DEF Early, Over
  <2> QED BY <1>3, <2>1, <2>2, ThrowEffect, ControlKept
<1> QED BY <1>1, <1>2, <1>3


\* A step that may take messages from a queue, and is otherwise a step within a run.
LEMMA PollControl ==
  ASSUME Types, Control, NEW r \in Runs, Open(r), UNCHANGED ctl,
         \/ \E q \in Queues, n \in Nat : Drain(r, q, n)
         \/ /\ UNCHANGED run \/ run' = [run EXCEPT ![r].then = "agent_end"]
            /\ \E l \in {"before_start", "request", "poll_follow", "flush"} : Go(r, l),
         pc[r] \notin {"agent_end", "settled"}
  PROVE  Control'
<1>1. PICK l \in {"queue_update", "before_start", "request", "poll_follow", "flush"} : Go(r, l)
  BY DEF Drain
<1>2. \A x \in Runs \ {r} : run'[x] = run[x]
  BY DEF Drain, Types, RunType
<1>3. run'[r].stage = run[r].stage /\ run'[r].failed = run[r].failed
  <2>1. CASE UNCHANGED run  BY <2>1
  <2>2. CASE run' = [run EXCEPT ![r].then = "agent_end"]  BY <2>2, RunFields DEF Types, RunType
  <2>3. ASSUME NEW q, NEW n, Drain(r, q, n) PROVE <1>3!:
    <3>1. run' = [run EXCEPT ![r] = [run[r] EXCEPT !.drained = SubSeq(queue[q], 1, n), !.from = q,
                    !.array = arrays]]
      BY <2>3 DEF Drain
    <3> QED BY <3>1, RunFields DEF Types, RunType
  <2> QED BY <2>1, <2>2, <2>3
<1>4. pc'[r] = l  BY <1>1 DEF Go, Types, PlaceType, Ops
<1>5. (Early(r)' => Early(r)) /\ (Over(r)' => Over(r))  BY <1>3, <1>4 DEF Early, Over
<1> QED BY <1>1, <1>2, <1>3, <1>5, ControlKept

LEMMA StructControl ==
  ASSUME Types, Control, NEW s \in Structs, NEW l \in {"append", "notify"}, Go(s, l), Open(s),
         UNCHANGED <<ctl, run>>
  PROVE  Control'
<1>1. pc'[s] = l /\ \A o \in Ops \ {s} : pc'[o] = pc[o]  BY DEF Go, Types, PlaceType, Ops
<1>2. \A o \in Ops : Open(o)' <=> Open(o)  BY <1>1 DEF Open
<1>3. s \notin Runs /\ s \in Working  BY HarnessAssumption DEF Working
<1>4. \A x \in Runs : ~Open(x)  BY <1>3 DEF Control, Working
<1>5. resolved' = {x \in Runs : pc'[x] = "returned"}  BY <1>1, <1>3 DEF Control, ctl, Ops
<1>6. (controller' # None => Open(controller)') /\ (runPromise' # None => Open(runPromise)')
  BY <1>2 DEF Control, ctl, Types, CtlType, Ops
<1>7. phase' # "idle" => (\E x \in Working : Open(x)') /\ \A w \in Writes : ~Open(w)'
  BY <1>2 DEF Control, ctl, Working, Ops
<1>8. /\ \A x, y \in Working : Open(x)' /\ Open(y)' => x = y
      /\ \A x \in Structs : Open(x)' => phase' = "structural"
      /\ \A x \in Runs : ~Open(x)'
  BY <1>2, <1>4 DEF Control, ctl, Working, Ops
<1> QED BY <1>5, <1>6, <1>7, <1>8 DEF Control

LEMMA ControlStep == ~Overlap /\ Types /\ Places /\ Control /\ [Next]_vars => Control'
<1> SUFFICES ASSUME ~Overlap, Types, Places, Control, [Next]_vars PROVE Control'  OBVIOUS
<1>1. ASSUME NEW r \in Runs, StartRun(r) PROVE Control'
  <2>1. \A x \in Working : ~Open(x)  BY <1>1 DEF StartRun, MayStart, Working
  <2>2. controller = None /\ pc[r] = "new" /\ \A w \in Writes : ~Open(w)
    BY <1>1, <2>1, NoneOpen DEF StartRun, MayStart
  <2>3. pc'[r] = "creating" /\ \A o \in Ops \ {r} : pc'[o] = pc[o]
    BY <1>1 DEF StartRun, Go, Types, PlaceType, Ops
  <2>4. run[r].stage = "start"  BY <2>2 DEF Places, RunPlace, Types, RunType, RunRecord
  <2>5. \A x \in Working : Open(x)' <=> x = r  BY <2>1, <2>3 DEF Open, Working, Ops
  <2>6. \A w \in Writes : ~Open(w)'  BY <2>2, <2>3, HarnessAssumption DEF Open, Ops
  <2>7. phase' = "turn" /\ runPromise' = r /\ UNCHANGED <<controller, resolved, run>>
    BY <1>1 DEF StartRun
  <2>8. resolved' = {x \in Runs : pc'[x] = "returned"}
    BY <2>2, <2>3, <2>7 DEF Control, Ops
  <2>9. r \in Working /\ r \notin Structs  BY HarnessAssumption DEF Working
  <2>10. ~Over(r)'  BY <2>3, <2>4, <2>7 DEF Over
  <2> QED BY <2>2, <2>4, <2>5, <2>6, <2>7, <2>8, <2>9, <2>10 DEF Control, Working
<1>2. ASSUME NEW r \in Runs, StateCreated(r) PROVE Control'
  <2>1. Open(r) /\ UNCHANGED ctl /\ pc[r] \notin {"agent_end", "settled"}  BY <1>2 DEF StateCreated, Open
  <2>2. \/ Drain(r, "nextTurn", Len(queue["nextTurn"]))
        \/ UNCHANGED run /\ Go(r, "before_start")
    BY <1>2 DEF StateCreated
  <2>3. "nextTurn" \in Queues /\ Len(queue["nextTurn"]) \in Nat  BY DEF Types, QueueType, Queues
  <2> QED BY <2>1, <2>2, <2>3, PollControl
<1>3. ASSUME NEW r \in Runs, Unknown(r) PROVE Control'
  BY <1>3, ThrowControl DEF Unknown, Open
<1>4. ASSUME NEW r \in Runs, BeforeStart(r) PROVE Control'
  <2>1. Open(r) /\ run[r].stage = "start"
    BY <1>4 DEF BeforeStart, Open, Places, RunPlace, Types, RunType, RunRecord
  <2>2. run'[r].stage = "loop" /\ \A x \in Runs \ {r} : run'[x] = run[x]
    BY <1>4, RunFields DEF BeforeStart, Types, RunType
  <2>3. pc'[r] = "append" /\ \A o \in Ops \ {r} : pc'[o] = pc[o]
    BY <1>4 DEF BeforeStart, Go, Types, PlaceType, Ops
  <2>4. \A o \in Ops : Open(o)' <=> Open(o)  BY <2>1, <2>3 DEF Open
  <2>5. \A x \in Working : Open(x) => x = r  BY <2>1 DEF Control, Working
  <2>6. controller' = r /\ UNCHANGED <<phase, runPromise, resolved>>  BY <1>4 DEF BeforeStart
  <2>7. phase = "turn" /\ runPromise = r  BY <2>1 DEF Control, Early
  <2>8. resolved' = {x \in Runs : pc'[x] = "returned"}
    BY <2>1, <2>3, <2>6 DEF Control, Open, Ops
  <2>9. ~Over(r)' /\ Open(r)' /\ r \in Ops /\ r \in Working /\ r \notin Structs
    BY <2>1, <2>2, <2>3, <2>4, HarnessAssumption DEF Over, Ops, Working
  <2>10. \A w \in Writes : ~Open(w)'  BY <2>4, <2>7 DEF Control, Ops
  <2>11. \A x \in Working : Open(x)' <=> x = r  BY <2>4, <2>5, <2>9 DEF Working, Ops
  <2> QED BY <2>2, <2>6, <2>7, <2>8, <2>9, <2>10, <2>11 DEF Control, Working
<1>5. ASSUME NEW r \in Runs, Appended(r) PROVE Control'
  <2>1. Open(r) /\ UNCHANGED ctl BY <1>5 DEF Appended, Open
  <2>2. PICK l : Go(r, l) /\ l \notin {"new", "returned", "rejected"} BY <1>5 DEF Appended
  <2>3. (\A x \in Runs \ {r} : run'[x] = run[x]) /\ (run'[r].stage = "start" <=> run[r].stage =
     "start") BY <1>5, RunFields DEF Appended, Go, Types, RunType
  <2>4. (Early(r)' => Early(r)) /\ (Over(r)' => Over(r)) BY <1>5, RunFields DEF Appended, Go,
     Early, Over, Types, RunType, PlaceType, Ops, Places, RunPlace
  <2> QED BY <2>1, <2>2, <2>3, <2>4, ControlKept
<1>6. ASSUME NEW r \in Runs, Notified(r) PROVE Control'
  <2>1. Open(r) /\ UNCHANGED ctl BY <1>6 DEF Notified, Open
  <2>2. PICK l : Go(r, l) /\ l \notin {"new", "returned", "rejected"} BY <1>6 DEF Notified, Places,
     RunPlace
  <2>3. (\A x \in Runs \ {r} : run'[x] = run[x]) /\ (run'[r].stage = "start" <=> run[r].stage =
     "start") BY <1>6, RunFields DEF Notified, Go, Types, RunType
  <2>4. (Early(r)' => Early(r)) /\ (Over(r)' => Over(r)) BY <1>6, RunFields DEF Notified, Go,
     Early, Over, Types, RunType, PlaceType, Ops, Places, RunPlace
  <2> QED BY <2>1, <2>2, <2>3, <2>4, ControlKept
<1>7. ASSUME NEW r \in Runs, PollSteering(r) PROVE Control'
  <2>1. Open(r) /\ UNCHANGED ctl /\ pc[r] \notin {"agent_end", "settled"}  BY <1>7 DEF PollSteering, Open
  <2>2. \/ Poll(r, "steer")
        \/ UNCHANGED run /\ \E l \in {"request", "poll_follow"} : Go(r, l)
    BY <1>7 DEF PollSteering
  <2>3. "steer" \in Queues /\ {1, Len(queue["steer"])} \subseteq Nat  BY DEF Types, QueueType, Queues
  <2> QED BY <2>1, <2>2, <2>3, PollControl DEF Poll
<1>8. ASSUME NEW r \in Runs, PollFollowUp(r) PROVE Control'
  <2>1. Open(r) /\ UNCHANGED ctl /\ pc[r] \notin {"agent_end", "settled"}  BY <1>8 DEF PollFollowUp, Open
  <2>2. \/ Poll(r, "followUp")
        \/ run' = [run EXCEPT ![r].then = "agent_end"] /\ Go(r, "flush")
    BY <1>8 DEF PollFollowUp
  <2>3. "followUp" \in Queues /\ {1, Len(queue["followUp"])} \subseteq Nat
    BY DEF Types, QueueType, Queues
  <2> QED BY <2>1, <2>2, <2>3, PollControl DEF Poll
<1>9. ASSUME NEW r \in Runs, DrainAnnounced(r) PROVE Control'
  <2>1. Open(r) /\ UNCHANGED ctl BY <1>9 DEF DrainAnnounced, Open
  <2>2. PICK l : Go(r, l) /\ l \notin {"new", "returned", "rejected"} BY <1>9 DEF DrainAnnounced
  <2>3. (\A x \in Runs \ {r} : run'[x] = run[x]) /\ (run'[r].stage = "start" <=> run[r].stage =
     "start") BY <1>9, RunFields DEF DrainAnnounced, Go, Types, RunType
  <2>4. (Early(r)' => Early(r)) /\ (Over(r)' => Over(r)) BY <1>9, RunFields DEF DrainAnnounced, Go,
     Early, Over, Types, RunType, PlaceType, Ops, Places, RunPlace
  <2> QED BY <2>1, <2>2, <2>3, <2>4, ControlKept
<1>10. ASSUME NEW r \in Runs, Replied(r) PROVE Control'
  <2>1. Open(r) /\ UNCHANGED ctl BY <1>10 DEF Replied, Open
  <2>2. PICK l : Go(r, l) /\ l \notin {"new", "returned", "rejected"} BY <1>10 DEF Replied
  <2>3. (\A x \in Runs \ {r} : run'[x] = run[x]) /\ (run'[r].stage = "start" <=> run[r].stage =
     "start") BY <1>10, RunFields DEF Replied, Go, Types, RunType
  <2>4. (Early(r)' => Early(r)) /\ (Over(r)' => Over(r)) BY <1>10, RunFields DEF Replied, Go,
     Early, Over, Types, RunType, PlaceType, Ops, Places, RunPlace
  <2> QED BY <2>1, <2>2, <2>3, <2>4, ControlKept
<1>11. ASSUME NEW r \in Runs, ToolsDone(r) PROVE Control'
  <2>1. Open(r) /\ UNCHANGED ctl BY <1>11 DEF ToolsDone, Open
  <2>2. PICK l : Go(r, l) /\ l \notin {"new", "returned", "rejected"} BY <1>11 DEF ToolsDone
  <2>3. (\A x \in Runs \ {r} : run'[x] = run[x]) /\ (run'[r].stage = "start" <=> run[r].stage =
     "start") BY <1>11, RunFields DEF ToolsDone, Go, Types, RunType
  <2>4. (Early(r)' => Early(r)) /\ (Over(r)' => Over(r)) BY <1>11, RunFields DEF ToolsDone, Go,
     Early, Over, Types, RunType, PlaceType, Ops, Places, RunPlace
  <2> QED BY <2>1, <2>2, <2>3, <2>4, ControlKept
<1>12. ASSUME NEW r \in Runs, TurnEnd(r) PROVE Control'
  <2>1. Open(r) /\ UNCHANGED ctl BY <1>12 DEF TurnEnd, AnyFault, Open
  <2>2. PICK l : Go(r, l) /\ l \notin {"new", "returned", "rejected"} BY <1>12 DEF TurnEnd,
     AnyFault
  <2>3. (\A x \in Runs \ {r} : run'[x] = run[x]) /\ (run'[r].stage = "start" <=> run[r].stage =
     "start") BY <1>12, RunFields DEF TurnEnd, Go, AnyFault, Types, RunType
  <2>4. (Early(r)' => Early(r)) /\ (Over(r)' => Over(r)) BY <1>12, RunFields DEF TurnEnd, Go,
     AnyFault, Early, Over, Types, RunType, PlaceType, Ops, Places, RunPlace
  <2> QED BY <2>1, <2>2, <2>3, <2>4, ControlKept
<1>13. ASSUME NEW r \in Runs, SavePoint(r) PROVE Control'
  <2>1. Open(r) /\ UNCHANGED ctl BY <1>13 DEF SavePoint, FlushThen, Open
  <2>2. PICK l : Go(r, l) /\ l \notin {"new", "returned", "rejected"} BY <1>13 DEF SavePoint,
     FlushThen
  <2>3. (\A x \in Runs \ {r} : run'[x] = run[x]) /\ (run'[r].stage = "start" <=> run[r].stage =
     "start") BY <1>13, RunFields DEF SavePoint, Go, FlushThen, Types, RunType
  <2>4. (Early(r)' => Early(r)) /\ (Over(r)' => Over(r)) BY <1>13, RunFields DEF SavePoint, Go,
     FlushThen, Early, Over, Types, RunType, PlaceType, Ops, Places, RunPlace
  <2> QED BY <2>1, <2>2, <2>3, <2>4, ControlKept
<1>14. ASSUME NEW r \in Runs, Snapshot(r) PROVE Control'
  <2>1. Open(r) /\ UNCHANGED ctl BY <1>14 DEF Snapshot, Open
  <2>2. PICK l : Go(r, l) /\ l \notin {"new", "returned", "rejected"} BY <1>14 DEF Snapshot
  <2>3. (\A x \in Runs \ {r} : run'[x] = run[x]) /\ (run'[r].stage = "start" <=> run[r].stage =
     "start") BY <1>14, RunFields DEF Snapshot, Go, Types, RunType
  <2>4. (Early(r)' => Early(r)) /\ (Over(r)' => Over(r)) BY <1>14, RunFields DEF Snapshot, Go,
     Early, Over, Types, RunType, PlaceType, Ops, Places, RunPlace
  <2> QED BY <2>1, <2>2, <2>3, <2>4, ControlKept
<1>15. ASSUME NEW r \in Runs, AgentEnd(r) PROVE Control'
  <2>1. Open(r) /\ UNCHANGED ctl BY <1>15 DEF AgentEnd, Open
  <2>2. PICK l : Go(r, l) /\ l \notin {"new", "returned", "rejected"} BY <1>15 DEF AgentEnd
  <2>3. (\A x \in Runs \ {r} : run'[x] = run[x]) /\ (run'[r].stage = "start" <=> run[r].stage =
     "start") BY <1>15, RunFields DEF AgentEnd, Go, Types, RunType
  <2>4. (Early(r)' => Early(r)) /\ (Over(r)' => Over(r)) BY <1>15, RunFields DEF AgentEnd, Go,
     Early, Over, Types, RunType, PlaceType, Ops, Places, RunPlace
  <2> QED BY <2>1, <2>2, <2>3, <2>4, ControlKept
<1>16. ASSUME NEW r \in Runs, Settled(r) PROVE Control'
  <2>1. Open(r) /\ UNCHANGED ctl BY <1>16 DEF Settled, Open
  <2>2. PICK l : Go(r, l) /\ l \notin {"new", "returned", "rejected"} BY <1>16 DEF Settled
  <2>3. (\A x \in Runs \ {r} : run'[x] = run[x]) /\ (run'[r].stage = "start" <=> run[r].stage =
     "start") BY <1>16, RunFields DEF Settled, Go, Types, RunType, Places, RunPlace
  <2>4. (Early(r)' => Early(r)) /\ (Over(r)' => Over(r)) BY <1>16, RunFields DEF Settled, Go,
     Early, Over, Types, RunType, PlaceType, Ops, Places, RunPlace
  <2> QED BY <2>1, <2>2, <2>3, <2>4, ControlKept
<1>17. ASSUME NEW r \in Runs, FlushNext(r) PROVE Control'
  <2>1. Open(r) /\ UNCHANGED ctl BY <1>17 DEF FlushNext, Open
  <2>2. PICK l : Go(r, l) /\ l \notin {"new", "returned", "rejected"} BY <1>17 DEF FlushNext
  <2>3. (\A x \in Runs \ {r} : run'[x] = run[x]) /\ (run'[r].stage = "start" <=> run[r].stage =
     "start") BY <1>17, RunFields DEF FlushNext, Go, Types, RunType
  <2>4. (Early(r)' => Early(r)) /\ (Over(r)' => Over(r)) BY <1>17, RunFields DEF FlushNext, Go,
     Early, Over, Types, RunType, PlaceType, Ops, Places, RunPlace
  <2> QED BY <2>1, <2>2, <2>3, <2>4, ControlKept
<1>18. ASSUME NEW r \in Runs, Flushed(r) PROVE Control'
  <2>1. Open(r) /\ UNCHANGED ctl BY <1>18 DEF Flushed, Shifted, Open
  <2>2. PICK l : Go(r, l) /\ l \notin {"new", "returned", "rejected"} BY <1>18 DEF Flushed, Shifted
  <2>3. (\A x \in Runs \ {r} : run'[x] = run[x]) /\ (run'[r].stage = "start" <=> run[r].stage =
     "start") BY <1>18, RunFields DEF Flushed, Go, Shifted, Types, RunType
  <2>4. (Early(r)' => Early(r)) /\ (Over(r)' => Over(r)) BY <1>18, RunFields DEF Flushed, Go,
     Shifted, Early, Over, Types, RunType, PlaceType, Ops, Places, RunPlace
  <2> QED BY <2>1, <2>2, <2>3, <2>4, ControlKept
<1>19. ASSUME NEW r \in Runs, FlushDone(r) PROVE Control'
  <2>1. Open(r)  BY <1>19 DEF FlushDone, Open
  <2>2. CASE run[r].then = "save_point" /\ run[r].raised
    BY <1>19, <2>1, <2>2, ThrowControl DEF FlushDone
  <2>3. CASE run[r].then \in {"save_point", "snapshot"} /\ ~(run[r].then = "save_point" /\ run[r].raised)
    <3>1. Go(r, run[r].then) /\ UNCHANGED <<ctl, run>>  BY <1>19, <2>3 DEF FlushDone
    <3>2. Early(r)' => Early(r)  BY <1>19, <3>1 DEF FlushDone, Early
    <3>3. Over(r)' => Over(r)
      BY <1>19, <2>3, <3>1 DEF FlushDone, Over, Go, Types, PlaceType, Ops
    <3> QED BY <2>1, <2>3, <3>1, <3>2, <3>3, ControlKept
  <2>4. CASE run[r].then = "final"
    <3>1. Finish(r) /\ controller' = None /\ phase' = PhaseAfter(r) /\ UNCHANGED run
      BY <1>19, <2>4 DEF FlushDone
    <3>2. run[r].stage = "final"  BY <1>19, <2>4 DEF FlushDone, Places, RunPlace
    <3>3. phase' = "idle"  BY <2>1, <3>1, <3>2 DEF PhaseAfter, Control, Over
    <3> QED BY <2>1, <3>1, <3>3, RunEnds DEF Finish
  <2>5. CASE run[r].then = "agent_end"
    <3>1. /\ phase' = "idle" /\ Go(r, "agent_end")
          /\ UNCHANGED <<controller, runPromise, resolved, run>>
      BY <1>19, <2>5 DEF FlushDone
    <3>2. pc'[r] = "agent_end" /\ \A o \in Ops \ {r} : pc'[o] = pc[o]
      BY <3>1 DEF Go, Types, PlaceType, Ops
    <3>3. \A o \in Ops : Open(o)' <=> Open(o)  BY <2>1, <3>2 DEF Open
    <3>4. \A x \in Working : Open(x) => x = r  BY <2>1 DEF Control, Working
    <3>5. run[r].stage \in {"loop", "failing"}
      BY <1>19, <2>5 DEF FlushDone, Places, RunPlace, Types, RunType, RunRecord
    <3>6. controller = r /\ runPromise = r  BY <2>1, <3>5 DEF Control
    <3>7. resolved' = {x \in Runs : pc'[x] = "returned"}
      BY <2>1, <3>1, <3>2 DEF Control, Open, Ops
    <3>8. ~Early(r)' /\ Open(r)' /\ r \in Ops /\ r \in Working /\ r \notin Structs
      BY <2>1, <3>1, <3>2, <3>3, <3>5, HarnessAssumption DEF Early, Ops, Working
    <3>9. \A x \in Working : Open(x)' <=> x = r  BY <3>3, <3>4, <3>8 DEF Working, Ops
    <3> QED BY <3>1, <3>5, <3>6, <3>7, <3>8, <3>9 DEF Control, Working
  <2> QED
    BY <1>19, <2>2, <2>3, <2>4, <2>5 DEF FlushDone, Places, RunPlace
<1>20. ASSUME NEW r \in Runs, Rejects(r) PROVE Control'
  <2>1. Open(r)  BY <1>20 DEF Rejects, Awaiting, Open
  <2> QED BY <1>20, <2>1, ThrowControl DEF Rejects
<1>21. ASSUME NEW s \in Structs, StartStruct(s) PROVE Control'
  <2>1. \A x \in Working : ~Open(x)  BY <1>21 DEF StartStruct, MayStart, Working
  <2>2. controller = None /\ runPromise = None /\ \A w \in Writes : ~Open(w)
    BY <1>21, <2>1, NoneOpen DEF StartStruct, MayStart
  <2>3. pc'[s] = "preparing" /\ \A o \in Ops \ {s} : pc'[o] = pc[o]
    BY <1>21 DEF StartStruct, Go, Types, PlaceType, Ops
  <2>5. \A x \in Working : Open(x)' <=> x = s  BY <2>1, <2>3 DEF Open, Working, Ops
  <2>6. \A w \in Writes : ~Open(w)'  BY <2>2, <2>3, HarnessAssumption DEF Open, Ops
  <2>7. phase' = "structural" /\ UNCHANGED <<controller, runPromise, resolved, run>>
    BY <1>21 DEF StartStruct
  <2>8. s \in Working /\ s \notin Runs  BY HarnessAssumption DEF Working
  <2>9. resolved' = {x \in Runs : pc'[x] = "returned"}
    BY <2>3, <2>7, <2>8 DEF Control, Ops
  <2> QED BY <2>2, <2>5, <2>6, <2>7, <2>8, <2>9 DEF Control, Working
<1>22. ASSUME NEW s \in Structs, Prepared(s) PROVE Control'
  <2>1. UNCHANGED <<ctl, run>> /\ Open(s) /\ Go(s, "append")  BY <1>22 DEF Prepared, Open
  <2> QED BY <2>1, StructControl
<1>23. ASSUME NEW s \in Structs, StructAppended(s) PROVE Control'
  <2>1. UNCHANGED <<ctl, run>> /\ Open(s) /\ Go(s, "notify")  BY <1>23 DEF StructAppended, Open
  <2> QED BY <2>1, StructControl
<1>24. ASSUME NEW s \in Structs, StructEnds(s) PROVE Control'
  <2>1. Open(s) /\ Go(s, "returned") /\ phase' = "idle"
    BY <1>24 DEF StructEnds, Open
  <2>2. UNCHANGED <<controller, runPromise, resolved, run>>  BY <1>24 DEF StructEnds
  <2>3. pc'[s] = "returned" /\ \A o \in Ops \ {s} : pc'[o] = pc[o]
    BY <2>1 DEF Go, Types, PlaceType, Ops
  <2>4. s \in Working /\ s \notin Runs  BY HarnessAssumption DEF Working
  <2>5. \A x \in Working : ~Open(x)'
    BY <2>1, <2>3, <2>4 DEF Control, Open, Working, Ops
  <2>6. controller = None /\ runPromise = None
    BY <2>1, <2>4 DEF Control, Working, Types, CtlType
  <2>7. resolved' = {x \in Runs : pc'[x] = "returned"}
    BY <2>2, <2>3, <2>4 DEF Control, Ops
  <2> QED BY <2>1, <2>2, <2>5, <2>6, <2>7 DEF Control, Working
<1>25. ASSUME NEW w \in Writes, WriteWhenIdle(w) PROVE Control'
  BY <1>25, ControlAside DEF WriteWhenIdle, Open
<1>26. ASSUME NEW w \in Writes, WriteWhenBusy(w) PROVE Control'
  BY <1>26, ControlAside DEF WriteWhenBusy
<1>27. ASSUME NEW w \in Writes, WriteAppended(w) PROVE Control'
  <2>1. UNCHANGED <<ctl, run>> /\ \E l \in {"returned", "rejected"} : Go(w, l)
    BY <1>27 DEF WriteAppended
  <2>2. Open(w)  BY <1>27 DEF WriteAppended, Open
  <2>3. phase = "idle"  BY <2>2 DEF Control
  <2> QED BY <2>1, <2>3, ControlAside
<1>28. ASSUME NEW m \in Msgs, Send(m) PROVE Control'
  BY <1>28, ControlAside DEF Send
<1>29. ASSUME NEW a \in Aborts, Abort(a) PROVE Control'
  <2>1. UNCHANGED <<ctl, run>> /\ Go(a, "queue_update")  BY <1>29 DEF Abort
  <2> QED BY <2>1, ControlAside, HarnessAssumption
<1>30. ASSUME NEW a \in Aborts, AbortAnnounced(a) PROVE Control'
  <2>1. UNCHANGED <<ctl, run>> /\ Go(a, "waiting")  BY <1>30 DEF AbortAnnounced
  <2> QED BY <2>1, ControlAside, HarnessAssumption
<1>31. ASSUME NEW a \in Aborts, AbortReturns(a) PROVE Control'
  BY <1>31, ControlAside DEF AbortReturns
<1>32. CASE UNCHANGED vars
  BY <1>32 DEF vars, ctl, Control, Open, Early, Over
<1> QED
  BY <1>1, <1>2, <1>3, <1>4, <1>5, <1>6, <1>7, <1>8, <1>9, <1>10, <1>11, <1>12, <1>13, <1>14,
     <1>15, <1>16, <1>17, <1>18, <1>19, <1>20, <1>21, <1>22, <1>23, <1>24, <1>25, <1>26, <1>27,
     <1>28, <1>29, <1>30, <1>31, <1>32 DEF Next, RunStep, StructStep, AbortStep

(***************************************************************************)
(* What a step leaves alone.                                               *)
(***************************************************************************)
LEMMA DrainEffect ==
  ASSUME Types, NEW r \in Runs, NEW q, NEW n, Drain(r, q, n)
  PROVE  /\ run'[r].drained = SubSeq(queue[q], 1, n) /\ run'[r].from = q /\ run'[r].array = arrays
         /\ run'[r].stage = run[r].stage /\ run'[r].failed = run[r].failed
         /\ run'[r].out = run[r].out /\ run'[r].raised = run[r].raised
         /\ pc'[r] = "queue_update"
<1>1. run' = [run EXCEPT ![r] = [run[r] EXCEPT !.drained = SubSeq(queue[q], 1, n), !.from = q,
                !.array = arrays]]
  BY DEF Drain
<1>2. run'[r] = [run[r] EXCEPT !.drained = SubSeq(queue[q], 1, n), !.from = q, !.array = arrays]
  BY <1>1 DEF Types, RunType
<1>3. /\ run'[r].drained = SubSeq(queue[q], 1, n) /\ run'[r].from = q /\ run'[r].array = arrays
      /\ run'[r].stage = run[r].stage /\ run'[r].failed = run[r].failed
      /\ run'[r].out = run[r].out /\ run'[r].raised = run[r].raised
  BY <1>2, RunFields
<1>4. pc'[r] = "queue_update"  BY DEF Drain, Go, Types, PlaceType, Ops
<1> QED BY <1>3, <1>4

Aside(r) ==
  /\ \A x \in Runs \ {r} : run'[x] = run[x]
  /\ \A o \in Ops \ {r} : pc'[o] = pc[o]
  /\ \A o \in Working \ {r} : context'[o] = context[o]
  /\ ~(Appended(r) \/ Flushed(r)) => session' = session
  /\ ~Flushed(r) => pending' = pending
  /\ (pc[r] = "queue_update" /\ Rejects(r)) \/ cleared' = cleared
  /\ UNCHANGED <<deferred, sent, aborted, waits, hit, arrays>>

LEMMA RunFrame ==
  ASSUME Types, NEW r \in Runs, StartRun(r) \/ RunStep(r)
  PROVE  Aside(r)
<1>1. ASSUME StartRun(r) PROVE Aside(r)
  BY <1>1 DEF StartRun, Go, MayStart, Open, queues, store, abt, hist, ctl, Types, PlaceType,
     RunType, StoreType, Working, Aside
<1>2. ASSUME StateCreated(r) PROVE Aside(r)
  BY <1>2 DEF StateCreated, Go, Drain, store, ctl, abt, hist, queues, Types, PlaceType, RunType,
     StoreType, Working, Aside
<1>3. ASSUME Unknown(r) PROVE Aside(r)
  <2>1. Throw(r) /\ UNCHANGED <<arrays, store, context, abt, deferred, sent>>
    BY <1>3 DEF Unknown, queues, hist
  <2> QED BY <2>1, ThrowEffect DEF Aside, Go, Types, PlaceType, store, abt
<1>4. ASSUME BeforeStart(r) PROVE Aside(r)
  BY <1>4 DEF BeforeStart, Go, FirstMessages, queues, store, abt, hist, ctl, Types, PlaceType,
     RunType, StoreType, Working, Aside
<1>5. ASSUME Appended(r) PROVE Aside(r)
  BY <1>5 DEF Appended, Go, queues, ctl, abt, hist, store, Types, PlaceType, RunType, StoreType,
     Working, Aside
<1>6. ASSUME Notified(r) PROVE Aside(r)
  BY <1>6 DEF Notified, Go, queues, store, ctl, abt, hist, Types, PlaceType, RunType, StoreType,
     Working, Aside
<1>7. ASSUME PollSteering(r) PROVE Aside(r)
  BY <1>7 DEF PollSteering, Go, Drain, Poll, store, ctl, abt, hist, queues, Types, PlaceType,
     RunType, StoreType, Working, Aside
<1>8. ASSUME PollFollowUp(r) PROVE Aside(r)
  BY <1>8 DEF PollFollowUp, Go, Drain, Poll, store, ctl, abt, hist, queues, Types, PlaceType,
     RunType, StoreType, Working, Aside
<1>9. ASSUME DrainAnnounced(r) PROVE Aside(r)
  BY <1>9 DEF DrainAnnounced, Go, queues, store, ctl, abt, hist, Types, PlaceType, RunType,
     StoreType, Working, Aside
<1>10. ASSUME Replied(r) PROVE Aside(r)
  BY <1>10 DEF Replied, Go, queues, store, ctl, abt, hist, Types, PlaceType, RunType, StoreType,
     Working, Aside
<1>11. ASSUME ToolsDone(r) PROVE Aside(r)
  BY <1>11 DEF ToolsDone, Go, queues, store, ctl, abt, hist, Types, PlaceType, RunType, StoreType,
     Working, Aside
<1>12. ASSUME TurnEnd(r) PROVE Aside(r)
  BY <1>12 DEF TurnEnd, Go, AnyFault, queues, store, ctl, abt, hist, Types, PlaceType, RunType,
     StoreType, Working, Aside
<1>13. ASSUME SavePoint(r) PROVE Aside(r)
  BY <1>13 DEF SavePoint, Go, FlushThen, queues, store, ctl, abt, hist, Types, PlaceType, RunType,
     StoreType, Working, Aside
<1>14. ASSUME Snapshot(r) PROVE Aside(r)
  BY <1>14 DEF Snapshot, Go, queues, store, ctl, abt, hist, Types, PlaceType, RunType, StoreType,
     Working, Aside
<1>15. ASSUME AgentEnd(r) PROVE Aside(r)
  BY <1>15 DEF AgentEnd, Go, queues, store, ctl, abt, hist, Types, PlaceType, RunType, StoreType,
     Working, Aside
<1>16. ASSUME Settled(r) PROVE Aside(r)
  BY <1>16 DEF Settled, Go, queues, store, ctl, abt, hist, Types, PlaceType, RunType, StoreType,
     Working, Aside
<1>17. ASSUME FlushNext(r) PROVE Aside(r)
  BY <1>17 DEF FlushNext, Go, queues, store, ctl, abt, hist, Types, PlaceType, RunType, StoreType,
     Working, Aside
<1>18. ASSUME Flushed(r) PROVE Aside(r)
  BY <1>18 DEF Flushed, Go, Shifted, queues, ctl, abt, hist, store, Types, PlaceType, RunType,
     StoreType, Working, Aside
<1>19. ASSUME FlushDone(r) PROVE Aside(r)
  <2>1. UNCHANGED <<queues, store, abt, hist>> /\ \A o \in Working \ {r} : context'[o] = context[o]
    BY <1>19 DEF FlushDone, Types, StoreType
  <2>2. (\A x \in Runs \ {r} : run'[x] = run[x]) /\ \E l : Go(r, l)
    BY <1>19, ThrowEffect DEF FlushDone, Finish
  <2> QED BY <2>1, <2>2 DEF Aside, Go, Types, PlaceType, queues, store, abt, hist
<1>20. ASSUME Rejects(r) PROVE Aside(r)
  <2>1. /\ Throw(r) /\ UNCHANGED <<arrays, store, context, aborted, waits, hit, deferred, sent>>
        /\ pc[r] # "queue_update" => cleared' = cleared
    BY <1>20 DEF Rejects
  <2> QED BY <1>20, <2>1, ThrowEffect DEF Aside, Go, Types, PlaceType, store
<1> QED
  BY <1>1, <1>2, <1>3, <1>4, <1>5, <1>6, <1>7, <1>8, <1>9, <1>10, <1>11, <1>12, <1>13, <1>14,
     <1>15, <1>16, <1>17, <1>18, <1>19, <1>20 DEF RunStep

\* A step of any other operation.
LEMMA OtherFrame ==
  ASSUME Types, NEW o \in Ops \ Runs,
         \/ o \in Structs /\ (StartStruct(o) \/ StructStep(o))
         \/ o \in Writes /\ (WriteWhenIdle(o) \/ WriteWhenBusy(o) \/ WriteAppended(o))
         \/ o \in Msgs /\ Send(o)
         \/ o \in Aborts /\ (Abort(o) \/ AbortStep(o))
  PROVE  /\ run' = run
         /\ \A x \in Ops \ {o} : pc'[x] = pc[x]
         /\ o \notin Structs => context' = context
         /\ \A x \in Working \ {o} : context'[x] = context[x]
         /\ o \notin Structs \cup Writes => UNCHANGED store
         /\ o \notin Writes => UNCHANGED <<pending, deferred>>
  BY HarnessAssumption DEF StartStruct, StructStep, Prepared, StructAppended, StructEnds, WriteWhenIdle,
     WriteWhenBusy, WriteAppended, Send, Abort, AbortStep, AbortAnnounced, AbortReturns, AnyFault, Go,
     Types, PlaceType, StoreType, Working, Ops, store, ctl, hist, abt, queues

(***************************************************************************)
(* What a run has in hand.                                                 *)
(***************************************************************************)
LEMMA HandAside ==
  ASSUME Types, InHand, Control, NEW r \in Runs, Aside(r), Flushed(r) => Open(r), Hand(r)'
  PROVE  InHand'
<1>1. ASSUME NEW x \in Runs \ {r}, pc[x] = "flushing" PROVE pending' = pending
  BY <1>1 DEF Aside, Control, Open, Working
<1> QED BY <1>1 DEF Aside, InHand, Hand, Ops

LEMMA DrainHand ==
  ASSUME Types, NEW r \in Runs, NEW q \in Queues, queue[q] # <<>>, NEW n \in {1, Len(queue[q])}, Drain(r, q, n)
  PROVE  Hand(r)'
<1>1. SubSeq(queue[q], 1, n) \in Seq(Msgs) \ {<<>>}
  <2>1. queue[q] \in Seq(Msgs)  BY DEF Types, QueueType
  <2> QED BY <2>1, FrontPart
<1>2. run' = [run EXCEPT ![r] = [run[r] EXCEPT !.drained = SubSeq(queue[q], 1, n), !.from = q,
                !.array = arrays]]
  BY DEF Drain
<1>3. run'[r].drained = SubSeq(queue[q], 1, n)  BY <1>2, RunFields DEF Types, RunType
<1>4. pc'[r] = "queue_update"  BY DEF Drain, Go, Types, PlaceType, Ops
<1> QED BY <1>1, <1>3, <1>4 DEF Hand

LEMMA ThrowHand ==
  ASSUME Types, NEW r \in Runs, Throw(r)
  PROVE  Hand(r)'
  BY ThrowEffect DEF Hand

\* A run's own step.
LEMMA RunHand ==
  ASSUME Types, Places, InHand, NEW r \in Runs, StartRun(r) \/ RunStep(r)
  PROVE  Hand(r)'

<1>1. ASSUME StartRun(r) PROVE Hand(r)'
  BY <1>1, RunFields DEF StartRun, Go, MayStart, Open, queues, store, abt, hist, Types, PlaceType,
     RunType, Ops, InHand, Hand
<1>2. ASSUME StateCreated(r) PROVE Hand(r)'
  <2>1. CASE queue["nextTurn"] # <<>>
    BY <1>2, <2>1, DrainHand DEF StateCreated, Queues
  <2>2. CASE queue["nextTurn"] = <<>>
    BY <1>2, <2>2 DEF StateCreated, Go, Types, PlaceType, Ops, Hand
  <2> QED BY <2>1, <2>2
<1>3. ASSUME Unknown(r) PROVE Hand(r)'
  BY <1>3, ThrowHand DEF Unknown
<1>4. ASSUME BeforeStart(r) PROVE Hand(r)'
  <2>1. run' = [run EXCEPT ![r] = [run[r] EXCEPT !.stage = "loop", !.then = "poll", !.more = TRUE,
                  !.out = FirstMessages(r)]]
    BY <1>4 DEF BeforeStart
  <2>2. run'[r].out = FirstMessages(r)  BY <2>1, RunFields DEF Types, RunType
  <2>3. run[r].out \in Seq(Entries) /\ Item("prompt", r) \in Entries  BY EntryTypes DEF Types, RunType, RunRecord
  <2>4. FirstMessages(r) # <<>>  BY <2>3, AppendFacts DEF FirstMessages
  <2> QED BY <1>4, <2>2, <2>4 DEF BeforeStart, Hand, Go, Types, PlaceType, Ops
<1>5. ASSUME Appended(r) PROVE Hand(r)'
  BY <1>5, RunFields DEF Appended, Go, queues, ctl, abt, hist, Types, PlaceType, RunType, Ops,
     InHand, Hand
<1>6. ASSUME Notified(r) PROVE Hand(r)'
  <2>1. run'[r].out = Tail(run[r].out)  BY <1>6, RunFields DEF Notified, Types, RunType
  <2>2. pc'[r] = IF Len(run[r].out) = 1 THEN run[r].then ELSE "append"
    BY <1>6 DEF Notified, Go, Types, PlaceType, Ops
  <2>3. run[r].then \in {"request", "poll", "tools", "turn_end"}  BY <1>6 DEF Notified, Places, RunPlace
  <2>4. run[r].out \in Seq(Entries) \ {<<>>}  BY <1>6 DEF Notified, InHand, Hand, Types, RunType, RunRecord
  <2>5. Len(run[r].out) # 1 => Tail(run[r].out) # <<>>  BY <2>4, TailEmpty
  <2> QED BY <2>1, <2>2, <2>3, <2>5 DEF Hand
<1>7. ASSUME PollSteering(r) PROVE Hand(r)'
  <2>1. ASSUME Poll(r, "steer") PROVE Hand(r)'  BY <2>1, DrainHand DEF Poll, Queues
  <2>2. ASSUME ~Poll(r, "steer") PROVE Hand(r)'
    BY <1>7, <2>2 DEF PollSteering, Go, Types, PlaceType, Ops, Hand
  <2> QED BY <2>1, <2>2
<1>8. ASSUME PollFollowUp(r) PROVE Hand(r)'
  <2>1. ASSUME Poll(r, "followUp") PROVE Hand(r)'  BY <2>1, DrainHand DEF Poll, Queues
  <2>2. ASSUME ~Poll(r, "followUp") PROVE Hand(r)'
    BY <1>8, <2>2 DEF PollFollowUp, Go, Types, PlaceType, Ops, Hand
  <2> QED BY <2>1, <2>2
<1>9. ASSUME DrainAnnounced(r) PROVE Hand(r)'
  <2> DEFINE none == <<>>
             out == Messages(run[r].drained)
  <2>1. run' = [run EXCEPT ![r] = [run[r] EXCEPT !.out = out, !.drained = none, !.then = "request"]]
    BY <1>9 DEF DrainAnnounced
  <2>4. run[r].drained \in Seq(Msgs) /\ run[r].drained # <<>>  BY <1>9 DEF DrainAnnounced, InHand, Hand
  <2>5. out \in Seq(Entries) /\ Len(out) = Len(run[r].drained)  BY <2>4, MessagesType DEF Messages
  <2>2. out # <<>>  BY <2>4, <2>5, NotEmpty
  <2> HIDE DEF none, out
  <2>3. run'[r].out = out  BY <2>1, RunFields DEF Types, RunType
  <2> QED BY <1>9, <2>2, <2>3 DEF DrainAnnounced, Hand, Go, Types, PlaceType, Ops
<1>10. ASSUME Replied(r) PROVE Hand(r)'
  <2>1. PICK e : run'[r].out = <<e>>  BY <1>10, RunFields DEF Replied, Types, RunType
  <2> QED BY <1>10, <2>1, OneElement DEF Replied, Hand, Go, Types, PlaceType, Ops
<1>11. ASSUME ToolsDone(r) PROVE Hand(r)'
  <2>1. PICK e : run'[r].out = <<e>>  BY <1>11, RunFields DEF ToolsDone, Types, RunType
  <2> QED BY <1>11, <2>1, OneElement DEF ToolsDone, Hand, Go, Types, PlaceType, Ops
<1>12. ASSUME TurnEnd(r) PROVE Hand(r)'
  BY <1>12, RunFields DEF TurnEnd, Go, AnyFault, queues, store, ctl, abt, Types, PlaceType,
     RunType, Ops, InHand, Hand
<1>13. ASSUME SavePoint(r) PROVE Hand(r)'
  BY <1>13, RunFields DEF SavePoint, Go, FlushThen, queues, store, ctl, abt, hist, Types,
     PlaceType, RunType, Ops, InHand, Hand
<1>14. ASSUME Snapshot(r) PROVE Hand(r)'
  BY <1>14, RunFields DEF Snapshot, Go, queues, store, ctl, abt, hist, Types, PlaceType, RunType,
     Ops, InHand, Hand
<1>15. ASSUME AgentEnd(r) PROVE Hand(r)'
  BY <1>15, RunFields DEF AgentEnd, Go, queues, store, ctl, abt, hist, Types, PlaceType, RunType,
     Ops, InHand, Hand
<1>16. ASSUME Settled(r) PROVE Hand(r)'
  BY <1>16, RunFields DEF Settled, Go, queues, store, ctl, abt, hist, Types, PlaceType, RunType,
     Ops, InHand, Hand
<1>17. ASSUME FlushNext(r) PROVE Hand(r)'
  <2>1. run'[r].drained = <<Head(pending)>>  BY <1>17, RunFields DEF FlushNext, Types, RunType
  <2> QED BY <1>17, <2>1 DEF FlushNext, store, Hand, Go, Types, PlaceType, Ops
<1>18. ASSUME Flushed(r) PROVE Hand(r)'
  BY <1>18, RunFields DEF Flushed, Go, Shifted, queues, ctl, abt, hist, Types, PlaceType, RunType,
     Ops, InHand, Hand
<1>19. ASSUME FlushDone(r) PROVE Hand(r)'
  <2>1. ASSUME Throw(r) PROVE Hand(r)'  BY <2>1, ThrowHand
  <2>2. ASSUME ~Throw(r) PROVE Hand(r)'
    <3>1. Go(r, run[r].then) \/ Go(r, "returned")  BY <1>19, <2>2 DEF FlushDone, Finish
    <3> QED BY <1>19, <2>2, <3>1 DEF FlushDone, Places, RunPlace, Go, Types, PlaceType, Ops, Hand
  <2> QED BY <2>1, <2>2
<1>20. ASSUME Rejects(r) PROVE Hand(r)'
  BY <1>20, ThrowHand DEF Rejects
<1> QED
  BY <1>1, <1>2, <1>3, <1>4, <1>5, <1>6, <1>7, <1>8, <1>9, <1>10, <1>11, <1>12, <1>13, <1>14,
     <1>15, <1>16, <1>17, <1>18, <1>19, <1>20 DEF RunStep

LEMMA HandStep == Types /\ Places /\ Control /\ InHand /\ [Next]_vars => InHand'
<1> SUFFICES ASSUME Types, Places, Control, InHand, [Next]_vars PROVE InHand'  OBVIOUS
<1>1. ASSUME NEW r \in Runs, StartRun(r) \/ RunStep(r) PROVE InHand'
  <2>1. Flushed(r) => Open(r)  BY DEF Flushed, Open
  <2> QED BY <1>1, <2>1, RunFrame, RunHand, HandAside
<1>2. ASSUME NEW o \in Ops \ Runs,
             \/ o \in Structs /\ (StartStruct(o) \/ StructStep(o))
             \/ o \in Writes /\ (WriteWhenIdle(o) \/ WriteWhenBusy(o) \/ WriteAppended(o))
             \/ o \in Msgs /\ Send(o)
             \/ o \in Aborts /\ (Abort(o) \/ AbortStep(o))
      PROVE InHand'
  <2>1. run' = run /\ \A r \in Runs : pc'[r] = pc[r]  BY <1>2, OtherFrame DEF Ops
  <2>2. CASE pending' = pending  BY <2>1, <2>2 DEF InHand, Hand
  <2>3. CASE o \in Writes /\ pending' = Append(pending, o)
    <3>1. pending # <<>> => pending' # <<>> /\ Head(pending') = Head(pending)
      BY <2>3, AppendFacts DEF Types, StoreType
    <3> QED BY <2>1, <3>1 DEF InHand, Hand
  <2>4. pending' = pending \/ (o \in Writes /\ pending' = Append(pending, o))
    BY <1>2, OtherFrame, HarnessAssumption DEF WriteWhenIdle, WriteWhenBusy, WriteAppended, store
  <2> QED BY <2>2, <2>3, <2>4
<1>3. CASE UNCHANGED vars  BY <1>3 DEF vars, store, InHand, Hand
<1> QED BY <1>1, <1>2, <1>3, HarnessAssumption DEF Next, Ops

(***************************************************************************)
(* Nothing waits when a run has told its end.                              *)
(***************************************************************************)
LEMMA RunEndFlushed ==
  ASSUME Types, Places, EndFlushed, NEW r \in Runs, StartRun(r) \/ RunStep(r)
  PROVE  pc'[r] \in {"agent_end", "settled"} => pending' = <<>>
<1>1. ASSUME StartRun(r) PROVE pc'[r] \in {"agent_end", "settled"} => pending' = <<>>
  BY <1>1, RunFields DEF StartRun, Go, MayStart, Open, queues, store, abt, hist, Types, PlaceType,
     RunType, Ops, Places, RunPlace, EndFlushed
<1>2. ASSUME StateCreated(r) PROVE pc'[r] \in {"agent_end", "settled"} => pending' = <<>>
  BY <1>2, RunFields DEF StateCreated, Go, Drain, store, ctl, abt, hist, Types, PlaceType, RunType,
     Ops, Places, RunPlace, EndFlushed
<1>3. ASSUME Unknown(r) PROVE pc'[r] \in {"agent_end", "settled"} => pending' = <<>>
  BY <1>3, ThrowEffect DEF Unknown
<1>4. ASSUME BeforeStart(r) PROVE pc'[r] \in {"agent_end", "settled"} => pending' = <<>>
  BY <1>4, RunFields DEF BeforeStart, Go, FirstMessages, queues, store, abt, hist, Types,
     PlaceType, RunType, Ops, Places, RunPlace, EndFlushed
<1>5. ASSUME Appended(r) PROVE pc'[r] \in {"agent_end", "settled"} => pending' = <<>>
  BY <1>5, RunFields DEF Appended, Go, queues, ctl, abt, hist, Types, PlaceType, RunType, Ops,
     Places, RunPlace, EndFlushed
<1>6. ASSUME Notified(r) PROVE pc'[r] \in {"agent_end", "settled"} => pending' = <<>>
  BY <1>6, RunFields DEF Notified, Go, queues, store, ctl, abt, hist, Types, PlaceType, RunType,
     Ops, Places, RunPlace, EndFlushed
<1>7. ASSUME PollSteering(r) PROVE pc'[r] \in {"agent_end", "settled"} => pending' = <<>>
  BY <1>7, RunFields DEF PollSteering, Go, Drain, Poll, store, ctl, abt, hist, Types, PlaceType,
     RunType, Ops, Places, RunPlace, EndFlushed
<1>8. ASSUME PollFollowUp(r) PROVE pc'[r] \in {"agent_end", "settled"} => pending' = <<>>
  BY <1>8, RunFields DEF PollFollowUp, Go, Drain, Poll, store, ctl, abt, hist, Types, PlaceType,
     RunType, Ops, Places, RunPlace, EndFlushed
<1>9. ASSUME DrainAnnounced(r) PROVE pc'[r] \in {"agent_end", "settled"} => pending' = <<>>
  BY <1>9, RunFields DEF DrainAnnounced, Go, queues, store, ctl, abt, Types, PlaceType, RunType,
     Ops, Places, RunPlace, EndFlushed
<1>10. ASSUME Replied(r) PROVE pc'[r] \in {"agent_end", "settled"} => pending' = <<>>
  BY <1>10, RunFields DEF Replied, Go, queues, store, ctl, abt, hist, Types, PlaceType, RunType,
     Ops, Places, RunPlace, EndFlushed
<1>11. ASSUME ToolsDone(r) PROVE pc'[r] \in {"agent_end", "settled"} => pending' = <<>>
  BY <1>11, RunFields DEF ToolsDone, Go, queues, store, ctl, abt, hist, Types, PlaceType, RunType,
     Ops, Places, RunPlace, EndFlushed
<1>12. ASSUME TurnEnd(r) PROVE pc'[r] \in {"agent_end", "settled"} => pending' = <<>>
  BY <1>12, RunFields DEF TurnEnd, Go, AnyFault, queues, store, ctl, abt, Types, PlaceType,
     RunType, Ops, Places, RunPlace, EndFlushed
<1>13. ASSUME SavePoint(r) PROVE pc'[r] \in {"agent_end", "settled"} => pending' = <<>>
  BY <1>13, RunFields DEF SavePoint, Go, FlushThen, queues, store, ctl, abt, hist, Types,
     PlaceType, RunType, Ops, Places, RunPlace, EndFlushed
<1>14. ASSUME Snapshot(r) PROVE pc'[r] \in {"agent_end", "settled"} => pending' = <<>>
  BY <1>14, RunFields DEF Snapshot, Go, queues, store, ctl, abt, hist, Types, PlaceType, RunType,
     Ops, Places, RunPlace, EndFlushed
<1>15. ASSUME AgentEnd(r) PROVE pc'[r] \in {"agent_end", "settled"} => pending' = <<>>
  BY <1>15, RunFields DEF AgentEnd, Go, queues, store, ctl, abt, hist, Types, PlaceType, RunType,
     Ops, Places, RunPlace, EndFlushed
<1>16. ASSUME Settled(r) PROVE pc'[r] \in {"agent_end", "settled"} => pending' = <<>>
  BY <1>16, RunFields DEF Settled, Go, queues, store, ctl, abt, hist, Types, PlaceType, RunType,
     Ops, Places, RunPlace, EndFlushed
<1>17. ASSUME FlushNext(r) PROVE pc'[r] \in {"agent_end", "settled"} => pending' = <<>>
  BY <1>17, RunFields DEF FlushNext, Go, queues, store, ctl, abt, hist, Types, PlaceType, RunType,
     Ops, Places, RunPlace, EndFlushed
<1>18. ASSUME Flushed(r) PROVE pc'[r] \in {"agent_end", "settled"} => pending' = <<>>
  BY <1>18, RunFields DEF Flushed, Go, Shifted, queues, ctl, abt, hist, Types, PlaceType, RunType,
     Ops, Places, RunPlace, EndFlushed
<1>19. ASSUME FlushDone(r) PROVE pc'[r] \in {"agent_end", "settled"} => pending' = <<>>
  <2>1. ASSUME Throw(r) PROVE pc'[r] \notin {"agent_end", "settled"}  BY <2>1, ThrowEffect
  <2>2. pending' = <<>>  BY <1>19 DEF FlushDone, AllFlushed, store
  <2> QED BY <2>2
<1>20. ASSUME Rejects(r) PROVE pc'[r] \in {"agent_end", "settled"} => pending' = <<>>
  BY <1>20, ThrowEffect DEF Rejects
<1> QED
  BY <1>1, <1>2, <1>3, <1>4, <1>5, <1>6, <1>7, <1>8, <1>9, <1>10, <1>11, <1>12, <1>13, <1>14,
     <1>15, <1>16, <1>17, <1>18, <1>19, <1>20 DEF RunStep

LEMMA EndFlushedStep == Types /\ Places /\ Control /\ EndFlushed /\ [Next]_vars => EndFlushed'
<1> SUFFICES ASSUME Types, Places, Control, EndFlushed, [Next]_vars PROVE EndFlushed'  OBVIOUS
<1>1. ASSUME NEW r \in Runs, StartRun(r) \/ RunStep(r) PROVE EndFlushed'
  <2>1. Aside(r)  BY <1>1, RunFrame
  <2>2. ASSUME NEW x \in Runs \ {r}, pc[x] \in {"agent_end", "settled"} PROVE ~Flushed(r)
    BY <2>2 DEF Flushed, Control, Open, Working
  <2> QED BY <1>1, <2>1, <2>2, RunEndFlushed DEF Aside, EndFlushed, Ops
<1>2. ASSUME NEW o \in Ops \ Runs,
             \/ o \in Structs /\ (StartStruct(o) \/ StructStep(o))
             \/ o \in Writes /\ (WriteWhenIdle(o) \/ WriteWhenBusy(o) \/ WriteAppended(o))
             \/ o \in Msgs /\ Send(o)
             \/ o \in Aborts /\ (Abort(o) \/ AbortStep(o))
      PROVE EndFlushed'
  <2>1. \A r \in Runs : pc'[r] = pc[r] /\ (pc[r] \in {"agent_end", "settled"} => phase = "idle")
    BY <1>2, OtherFrame DEF Control, Open, Over, Ops
  <2>2. pending' = pending \/ phase # "idle"
    BY <1>2, OtherFrame, HarnessAssumption DEF WriteWhenIdle, WriteWhenBusy, WriteAppended, store
  <2> QED BY <2>1, <2>2 DEF EndFlushed
<1>3. CASE UNCHANGED vars  BY <1>3 DEF vars, store, EndFlushed
<1> QED BY <1>1, <1>2, <1>3, HarnessAssumption DEF Next, Ops

(***************************************************************************)
(* Snapshots.                                                              *)
(***************************************************************************)
Informed(r) == /\ run[r].stage \in {"start", "loop"}
               /\ pc[r] \in {"creating", "queue_update", "before_start", "append", "notify", "poll",
                             "poll_follow", "request", "tools", "snapshot"}

LEMMA RunSynced ==
  ASSUME Types, Places, NEW r \in Runs, StartRun(r) \/ RunStep(r),
         Informed(r) => context[r] = session
  PROVE  Informed(r)' => context'[r] = session'
<1>1. ASSUME StartRun(r) PROVE Informed(r)' => context'[r] = session'
  BY <1>1, RunFields DEF StartRun, Go, MayStart, Open, queues, store, abt, hist, Types, PlaceType,
     RunType, Ops, Places, RunPlace, Informed, StoreType, Working
<1>2. ASSUME StateCreated(r) PROVE Informed(r)' => context'[r] = session'
  <2>1. Informed(r)  BY <1>2 DEF StateCreated, Places, RunPlace, Informed, Types, RunType, RunRecord
  <2>2. UNCHANGED <<context, session>>  BY <1>2 DEF StateCreated, store
  <2> QED BY <2>1, <2>2
<1>3. ASSUME Unknown(r) PROVE Informed(r)' => context'[r] = session'
  BY <1>3, ThrowEffect DEF Unknown, Informed
<1>4. ASSUME BeforeStart(r) PROVE Informed(r)' => context'[r] = session'
  <2>1. Informed(r)  BY <1>4 DEF BeforeStart, Places, RunPlace, Informed, Types, RunType, RunRecord
  <2>2. UNCHANGED <<context, session>>  BY <1>4 DEF BeforeStart, store
  <2> QED BY <2>1, <2>2
<1>5. ASSUME Appended(r) PROVE Informed(r)' => context'[r] = session'
  BY <1>5, RunFields DEF Appended, Go, queues, ctl, abt, hist, Types, PlaceType, RunType, Ops,
     Places, RunPlace, Informed, StoreType, Working
<1>6. ASSUME Notified(r) PROVE Informed(r)' => context'[r] = session'
  BY <1>6, RunFields DEF Notified, Go, queues, store, ctl, abt, hist, Types, PlaceType, RunType,
     Ops, Places, RunPlace, Informed, StoreType, Working
<1>7. ASSUME PollSteering(r) PROVE Informed(r)' => context'[r] = session'
  <2>1. Informed(r)  BY <1>7 DEF PollSteering, Places, RunPlace, Informed, Types, RunType, RunRecord
  <2>2. UNCHANGED <<context, session>>  BY <1>7 DEF PollSteering, store
  <2> QED BY <2>1, <2>2
<1>8. ASSUME PollFollowUp(r) PROVE Informed(r)' => context'[r] = session'
  <2>1. Informed(r)  BY <1>8 DEF PollFollowUp, Places, RunPlace, Informed, Types, RunType, RunRecord
  <2>2. UNCHANGED <<context, session>>  BY <1>8 DEF PollFollowUp, store
  <2> QED BY <2>1, <2>2
<1>9. ASSUME DrainAnnounced(r) PROVE Informed(r)' => context'[r] = session'
  BY <1>9, RunFields DEF DrainAnnounced, Go, queues, store, ctl, abt, Types, PlaceType, RunType,
     Ops, Places, RunPlace, Informed, StoreType, Working
<1>10. ASSUME Replied(r) PROVE Informed(r)' => context'[r] = session'
  BY <1>10, RunFields DEF Replied, Go, queues, store, ctl, abt, hist, Types, PlaceType, RunType,
     Ops, Places, RunPlace, Informed, StoreType, Working
<1>11. ASSUME ToolsDone(r) PROVE Informed(r)' => context'[r] = session'
  BY <1>11, RunFields DEF ToolsDone, Go, queues, store, ctl, abt, hist, Types, PlaceType, RunType,
     Ops, Places, RunPlace, Informed, StoreType, Working
<1>12. ASSUME TurnEnd(r) PROVE Informed(r)' => context'[r] = session'
  BY <1>12, RunFields DEF TurnEnd, Go, AnyFault, queues, store, ctl, abt, Types, PlaceType,
     RunType, Ops, Places, RunPlace, Informed, StoreType, Working
<1>13. ASSUME SavePoint(r) PROVE Informed(r)' => context'[r] = session'
  BY <1>13, RunFields DEF SavePoint, Go, FlushThen, queues, store, ctl, abt, hist, Types,
     PlaceType, RunType, Ops, Places, RunPlace, Informed, StoreType, Working
<1>14. ASSUME Snapshot(r) PROVE Informed(r)' => context'[r] = session'
  BY <1>14, RunFields DEF Snapshot, Go, queues, store, ctl, abt, hist, Types, PlaceType, RunType,
     Ops, Places, RunPlace, Informed, StoreType, Working
<1>15. ASSUME AgentEnd(r) PROVE Informed(r)' => context'[r] = session'
  BY <1>15, RunFields DEF AgentEnd, Go, queues, store, ctl, abt, hist, Types, PlaceType, RunType,
     Ops, Places, RunPlace, Informed, StoreType, Working
<1>16. ASSUME Settled(r) PROVE Informed(r)' => context'[r] = session'
  BY <1>16, RunFields DEF Settled, Go, queues, store, ctl, abt, hist, Types, PlaceType, RunType,
     Ops, Places, RunPlace, Informed, StoreType, Working
<1>17. ASSUME FlushNext(r) PROVE Informed(r)' => context'[r] = session'
  BY <1>17, RunFields DEF FlushNext, Go, queues, store, ctl, abt, hist, Types, PlaceType, RunType,
     Ops, Places, RunPlace, Informed, StoreType, Working
<1>18. ASSUME Flushed(r) PROVE Informed(r)' => context'[r] = session'
  BY <1>18, RunFields DEF Flushed, Go, Shifted, queues, ctl, abt, hist, Types, PlaceType, RunType,
     Ops, Places, RunPlace, Informed, StoreType, Working
<1>19. ASSUME FlushDone(r) PROVE Informed(r)' => context'[r] = session'
  <2>1. ASSUME Throw(r) PROVE ~Informed(r)'  BY <2>1, ThrowEffect DEF Informed
  <2>2. ASSUME run[r].then = "snapshot", ~Throw(r) PROVE context'[r] = session'
    BY <1>19, <2>2 DEF FlushDone, NextContext, store, Types, StoreType, Working
  <2>3. ASSUME run[r].then # "snapshot", ~Throw(r) PROVE ~Informed(r)'
    BY <1>19, <2>3 DEF FlushDone, Finish, Go, Types, PlaceType, Ops, Informed
  <2> QED BY <2>1, <2>2, <2>3
<1>20. ASSUME Rejects(r) PROVE Informed(r)' => context'[r] = session'
  BY <1>20, ThrowEffect DEF Rejects, Informed
<1> QED
  BY <1>1, <1>2, <1>3, <1>4, <1>5, <1>6, <1>7, <1>8, <1>9, <1>10, <1>11, <1>12, <1>13, <1>14,
     <1>15, <1>16, <1>17, <1>18, <1>19, <1>20 DEF RunStep

LEMMA SyncedStep == Types /\ Places /\ Control /\ Synced /\ [Next]_vars => Synced'
<1> SUFFICES ASSUME Types, Places, Control, Synced, [Next]_vars PROVE Synced'  OBVIOUS
<1>1. \A r \in Runs : Informed(r) => context[r] = session /\ phase = "turn" /\ Open(r)
  BY DEF Synced, Informed, Control, Open, Early
<1>2. \A s \in Structs : pc[s] \in {"preparing", "append"} => context[s] = session /\ Open(s)
  BY DEF Synced, Open
<1>3. ASSUME NEW r \in Runs, StartRun(r) \/ RunStep(r) PROVE Synced'
  <2>1. Aside(r)  BY <1>3, RunFrame
  <2>2. Informed(r)' => context'[r] = session'  BY <1>1, <1>3, RunSynced
  <2>3. ASSUME Appended(r) \/ Flushed(r), NEW o \in Working \ {r} PROVE ~Open(o)
    BY <2>3 DEF Appended, Flushed, Control, Open, Working
  <2>4. ASSUME NEW x \in Runs \ {r}, Informed(x)' PROVE context'[x] = session'
    <3>1. Informed(x) /\ x \in Working /\ x \in Ops  BY <2>1, <2>4 DEF Aside, Informed, Working, Ops
    <3> QED BY <1>1, <2>1, <2>3, <3>1 DEF Aside
  <2>5. ASSUME NEW s \in Structs, pc'[s] \in {"preparing", "append"} PROVE context'[s] = session'
    <3>1. s # r /\ s \in Working /\ s \in Ops  BY HarnessAssumption DEF Working, Ops
    <3> QED BY <1>2, <2>1, <2>3, <2>5, <3>1 DEF Aside
  <2> QED BY <2>2, <2>4, <2>5 DEF Synced, Informed
<1>4. ASSUME NEW o \in Ops \ Runs,
             \/ o \in Structs /\ (StartStruct(o) \/ StructStep(o))
             \/ o \in Writes /\ (WriteWhenIdle(o) \/ WriteWhenBusy(o) \/ WriteAppended(o))
             \/ o \in Msgs /\ Send(o)
             \/ o \in Aborts /\ (Abort(o) \/ AbortStep(o))
      PROVE Synced'
  <2>1. \A r \in Runs : Informed(r)' <=> Informed(r)  BY <1>4, OtherFrame DEF Informed, Ops
  <2>2. \A x \in Working \ {o} : context'[x] = context[x] /\ pc'[x] = pc[x]
    BY <1>4, OtherFrame DEF Working, Ops
  <2>3. CASE session' = session
    <3>1. \A r \in Runs : Informed(r)' => context'[r] = session'
      BY <1>1, <2>1, <2>2, <2>3 DEF Working
    <3>2. \A s \in Structs : pc'[s] \in {"preparing", "append"} => context'[s] = session'
      <4>1. ASSUME o \in Structs, pc'[o] \in {"preparing", "append"} PROVE context'[o] = session'
        BY <1>2, <1>4, <2>3, <4>1, HarnessAssumption
           DEF StartStruct, StructStep, Prepared, StructAppended, StructEnds, Go, Types, PlaceType,
               StoreType, Working, Ops
      <4> QED BY <1>2, <2>2, <2>3, <4>1 DEF Working
    <3> QED BY <3>1, <3>2 DEF Synced, Informed
  <2>4. CASE session' # session
    <3>1. \/ o \in Structs /\ StructAppended(o)
          \/ o \in Writes /\ WriteAppended(o)
      BY <1>4, <2>4, OtherFrame, HarnessAssumption
         DEF StartStruct, StructStep, Prepared, StructEnds, WriteWhenIdle, WriteWhenBusy, store, Ops
    <3>2. Open(o)  BY <3>1 DEF StructAppended, WriteAppended, Open
    <3>3. \A r \in Runs : ~Informed(r)
      BY <1>1, <3>1, <3>2 DEF Control
    <3>4. \A s \in Structs : pc'[s] \notin {"preparing", "append"}
      <4>1. \A s \in Structs \ {o} : ~Open(s)  BY <3>1, <3>2 DEF Control, Working
      <4>2. o \in Structs => pc'[o] = "notify"
        BY <3>1, HarnessAssumption DEF StructAppended, Go, Types, PlaceType, Ops
      <4> QED BY <1>2, <2>2, <4>1, <4>2 DEF Working
    <3> QED BY <2>1, <3>3, <3>4 DEF Synced, Informed
  <2> QED BY <2>3, <2>4
<1>5. CASE UNCHANGED vars  BY <1>5 DEF vars, store, Synced
<1> QED BY <1>3, <1>4, <1>5, HarnessAssumption DEF Next, Ops

(***************************************************************************)
(* What a step appends to the session, and runs that have failed.          *)
(***************************************************************************)
LEMMA Appends ==
  ASSUME Types, InHand, [Next]_vars, session' # session
  PROVE  \/ \E r \in Runs : /\ Appended(r) /\ Head(run[r].out) \in Entries
                            /\ session' = Append(session, Head(run[r].out))
         \/ \E r \in Runs : /\ Flushed(r) /\ pending # <<>> /\ pending' = Tail(pending)
                            /\ session' = Append(session, Item("write", Head(pending)))
         \/ \E s \in Structs : StructAppended(s) /\ session' = Append(session, Item("structural", s))
         \/ \E w \in Writes : /\ WriteAppended(w) /\ Go(w, "returned")
                              /\ session' = Append(session, Item("write", w))
<1>1. ASSUME NEW r \in Runs, StartRun(r) \/ RunStep(r) PROVE Appended(r) \/ Flushed(r)
  BY <1>1, RunFrame DEF Aside
<1>2. ASSUME NEW r \in Runs, Appended(r)
      PROVE  Head(run[r].out) \in Entries /\ session' = Append(session, Head(run[r].out))
  <2>1. run[r].out \in Seq(Entries) /\ run[r].out # <<>>  BY <1>2 DEF Appended, InHand, Hand, Types, RunType, RunRecord
  <2>2. Head(run[r].out) \in Entries  BY <2>1
  <2> QED BY <1>2, <2>2 DEF Appended
<1>3. ASSUME NEW r \in Runs, Flushed(r)
      PROVE  /\ pending # <<>> /\ pending' = Tail(pending)
             /\ session' = Append(session, Item("write", Head(pending)))
  BY <1>3 DEF Flushed, Shifted, InHand, Hand
<1>4. ASSUME NEW o \in Ops \ Runs,
             \/ o \in Structs /\ (StartStruct(o) \/ StructStep(o))
             \/ o \in Writes /\ (WriteWhenIdle(o) \/ WriteWhenBusy(o) \/ WriteAppended(o))
             \/ o \in Msgs /\ Send(o)
             \/ o \in Aborts /\ (Abort(o) \/ AbortStep(o))
      PROVE  (o \in Structs /\ StructAppended(o)) \/ (o \in Writes /\ WriteAppended(o))
  BY <1>4, OtherFrame, HarnessAssumption DEF StartStruct, StructStep, Prepared, StructEnds,
     WriteWhenIdle, WriteWhenBusy, store, Ops
<1>5. CASE UNCHANGED vars  BY <1>5 DEF vars, store
<1>6. \/ \E r \in Runs : Appended(r) \/ Flushed(r)
      \/ \E s \in Structs : StructAppended(s)
      \/ \E w \in Writes : WriteAppended(w)
  BY <1>1, <1>4, <1>5, HarnessAssumption DEF Next, Ops
<1> QED BY <1>2, <1>3, <1>6 DEF StructAppended, WriteAppended

\* A run's step: it was not over, is not new, and stays failed.
LEMMA RunGoesOn ==
  ASSUME Types, Places, NEW r \in Runs, StartRun(r) \/ RunStep(r)
  PROVE  pc'[r] # "new" /\ pc[r] # "returned" /\ (run[r].failed => run'[r].failed)
<1>1. ASSUME StartRun(r) PROVE pc'[r] # "new" /\ pc[r] # "returned" /\ (run[r].failed => run'[r].failed)
  BY <1>1, RunFields DEF StartRun, Go, MayStart, Open, queues, store, abt, hist, Types, PlaceType,
     RunType, Ops, Places, RunPlace
<1>2. ASSUME StateCreated(r) PROVE pc'[r] # "new" /\ pc[r] # "returned" /\ (run[r].failed => run'[r].failed)
  BY <1>2, DrainEffect DEF StateCreated, Go, Types, PlaceType, Ops
<1>3. ASSUME Unknown(r) PROVE pc'[r] # "new" /\ pc[r] # "returned" /\ (run[r].failed => run'[r].failed)
  BY <1>3, ThrowEffect DEF Unknown, Awaiting
<1>4. ASSUME BeforeStart(r) PROVE pc'[r] # "new" /\ pc[r] # "returned" /\ (run[r].failed => run'[r].failed)
  BY <1>4, RunFields DEF BeforeStart, Go, FirstMessages, queues, store, abt, hist, Types,
     PlaceType, RunType, Ops, Places, RunPlace
<1>5. ASSUME Appended(r) PROVE pc'[r] # "new" /\ pc[r] # "returned" /\ (run[r].failed => run'[r].failed)
  BY <1>5, RunFields DEF Appended, Go, queues, ctl, abt, hist, Types, PlaceType, RunType, Ops,
     Places, RunPlace
<1>6. ASSUME Notified(r) PROVE pc'[r] # "new" /\ pc[r] # "returned" /\ (run[r].failed => run'[r].failed)
  BY <1>6, RunFields DEF Notified, Go, queues, store, ctl, abt, hist, Types, PlaceType, RunType,
     Ops, Places, RunPlace
<1>7. ASSUME PollSteering(r) PROVE pc'[r] # "new" /\ pc[r] # "returned" /\ (run[r].failed => run'[r].failed)
  BY <1>7, DrainEffect DEF PollSteering, Poll, Go, Types, PlaceType, Ops
<1>8. ASSUME PollFollowUp(r) PROVE pc'[r] # "new" /\ pc[r] # "returned" /\ (run[r].failed => run'[r].failed)
  <2>1. CASE Poll(r, "followUp")  BY <1>8, <2>1, DrainEffect DEF PollFollowUp, Poll
  <2>2. CASE ~Poll(r, "followUp")
    BY <1>8, <2>2, RunFields DEF PollFollowUp, Go, Types, PlaceType, RunType, Ops
  <2> QED BY <2>1, <2>2
<1>9. ASSUME DrainAnnounced(r) PROVE pc'[r] # "new" /\ pc[r] # "returned" /\ (run[r].failed => run'[r].failed)
  BY <1>9, RunFields DEF DrainAnnounced, Go, queues, store, ctl, abt, Types, PlaceType, RunType,
     Ops, Places, RunPlace
<1>10. ASSUME Replied(r) PROVE pc'[r] # "new" /\ pc[r] # "returned" /\ (run[r].failed => run'[r].failed)
  BY <1>10, RunFields DEF Replied, Go, queues, store, ctl, abt, hist, Types, PlaceType, RunType,
     Ops, Places, RunPlace
<1>11. ASSUME ToolsDone(r) PROVE pc'[r] # "new" /\ pc[r] # "returned" /\ (run[r].failed => run'[r].failed)
  BY <1>11, RunFields DEF ToolsDone, Go, queues, store, ctl, abt, hist, Types, PlaceType, RunType,
     Ops, Places, RunPlace
<1>12. ASSUME TurnEnd(r) PROVE pc'[r] # "new" /\ pc[r] # "returned" /\ (run[r].failed => run'[r].failed)
  BY <1>12, RunFields DEF TurnEnd, Go, AnyFault, queues, store, ctl, abt, Types, PlaceType,
     RunType, Ops, Places, RunPlace
<1>13. ASSUME SavePoint(r) PROVE pc'[r] # "new" /\ pc[r] # "returned" /\ (run[r].failed => run'[r].failed)
  BY <1>13, RunFields DEF SavePoint, Go, FlushThen, queues, store, ctl, abt, hist, Types,
     PlaceType, RunType, Ops, Places, RunPlace
<1>14. ASSUME Snapshot(r) PROVE pc'[r] # "new" /\ pc[r] # "returned" /\ (run[r].failed => run'[r].failed)
  BY <1>14, RunFields DEF Snapshot, Go, queues, store, ctl, abt, hist, Types, PlaceType, RunType,
     Ops, Places, RunPlace
<1>15. ASSUME AgentEnd(r) PROVE pc'[r] # "new" /\ pc[r] # "returned" /\ (run[r].failed => run'[r].failed)
  BY <1>15, RunFields DEF AgentEnd, Go, queues, store, ctl, abt, hist, Types, PlaceType, RunType,
     Ops, Places, RunPlace
<1>16. ASSUME Settled(r) PROVE pc'[r] # "new" /\ pc[r] # "returned" /\ (run[r].failed => run'[r].failed)
  BY <1>16, RunFields DEF Settled, Go, queues, store, ctl, abt, hist, Types, PlaceType, RunType,
     Ops, Places, RunPlace
<1>17. ASSUME FlushNext(r) PROVE pc'[r] # "new" /\ pc[r] # "returned" /\ (run[r].failed => run'[r].failed)
  BY <1>17, RunFields DEF FlushNext, Go, queues, store, ctl, abt, hist, Types, PlaceType, RunType,
     Ops, Places, RunPlace
<1>18. ASSUME Flushed(r) PROVE pc'[r] # "new" /\ pc[r] # "returned" /\ (run[r].failed => run'[r].failed)
  BY <1>18, RunFields DEF Flushed, Go, Shifted, queues, ctl, abt, hist, Types, PlaceType, RunType,
     Ops, Places, RunPlace
<1>19. ASSUME FlushDone(r) PROVE pc'[r] # "new" /\ pc[r] # "returned" /\ (run[r].failed => run'[r].failed)
  <2>1. CASE Throw(r)  BY <1>19, <2>1, ThrowEffect DEF FlushDone
  <2>2. CASE ~Throw(r)
    <3>1. UNCHANGED run /\ (Go(r, run[r].then) \/ Go(r, "returned"))  BY <1>19, <2>2 DEF FlushDone, Finish
    <3> QED BY <1>19, <3>1 DEF FlushDone, Places, RunPlace, Go, Types, PlaceType, Ops
  <2> QED BY <2>1, <2>2
<1>20. ASSUME Rejects(r) PROVE pc'[r] # "new" /\ pc[r] # "returned" /\ (run[r].failed => run'[r].failed)
  BY <1>20, ThrowEffect DEF Rejects, Awaiting
<1> QED
  BY <1>1, <1>2, <1>3, <1>4, <1>5, <1>6, <1>7, <1>8, <1>9, <1>10, <1>11, <1>12, <1>13, <1>14,
     <1>15, <1>16, <1>17, <1>18, <1>19, <1>20 DEF RunStep

LEMMA FailedStays ==
  ASSUME Types, Places, [Next]_vars, NEW r \in Runs, run[r].failed
  PROVE  run'[r].failed
<1>1. ASSUME NEW x \in Runs, StartRun(x) \/ RunStep(x) PROVE run'[r].failed
  BY <1>1, RunFrame, RunGoesOn DEF Aside
<1>2. ASSUME NEW o \in Ops \ Runs,
             \/ o \in Structs /\ (StartStruct(o) \/ StructStep(o))
             \/ o \in Writes /\ (WriteWhenIdle(o) \/ WriteWhenBusy(o) \/ WriteAppended(o))
             \/ o \in Msgs /\ Send(o)
             \/ o \in Aborts /\ (Abort(o) \/ AbortStep(o))
      PROVE run'[r].failed
  BY <1>2, OtherFrame
<1>3. CASE UNCHANGED vars  BY <1>3 DEF vars
<1> QED BY <1>1, <1>2, <1>3, HarnessAssumption DEF Next, Ops

(***************************************************************************)
(* Aborts.                                                                 *)
(***************************************************************************)
LEMMA SignalledStep == Types /\ Places /\ Control /\ Signalled /\ [Next]_vars => Signalled'
<1> SUFFICES ASSUME Types, Places, Control, Signalled, [Next]_vars PROVE Signalled'  OBVIOUS
<1> DEFINE Fine(a) == /\ pc[a] = "new" => hit[a] = None
                      /\ hit[a] # None =>
                           /\ pc[hit[a]] # "new"
                           /\ pc[a] = "waiting" => waits[a] = hit[a] \/ pc[hit[a]] = "returned"
                           /\ pc[a] = "returned" => pc[hit[a]] = "returned"
<1>1. \A a \in Aborts : Fine(a)  BY DEF Signalled
<1>2. \A a \in Aborts : hit[a] # None => hit[a] \in Runs  BY DEF Types, AbortType
<1>3. ASSUME \A a \in Aborts : Fine(a)' PROVE Signalled'  BY <1>3 DEF Signalled
<1>4. ASSUME NEW r \in Runs, StartRun(r) \/ RunStep(r) PROVE Signalled'
  <2>1. UNCHANGED <<hit, waits>> /\ \A o \in Ops \ {r} : pc'[o] = pc[o]  BY <1>4, RunFrame DEF Aside
  <2>2. pc'[r] # "new" /\ pc[r] # "returned"  BY <1>4, RunGoesOn
  <2>3. \A a \in Aborts : pc'[a] = pc[a]  BY <2>1, HarnessAssumption DEF Ops
  <2>4. \A x \in Runs : (pc[x] # "new" => pc'[x] # "new") /\ (pc[x] = "returned" => pc'[x] = "returned")
    BY <2>1, <2>2 DEF Ops
  <2> QED BY <1>1, <1>2, <1>3, <2>1, <2>3, <2>4
<1>5. ASSUME NEW o \in Ops \ (Runs \cup Aborts),
             \/ o \in Structs /\ (StartStruct(o) \/ StructStep(o))
             \/ o \in Writes /\ (WriteWhenIdle(o) \/ WriteWhenBusy(o) \/ WriteAppended(o))
             \/ o \in Msgs /\ Send(o)
      PROVE  Signalled'
  <2>1. UNCHANGED <<hit, waits>>
    BY <1>5 DEF StartStruct, StructStep, Prepared, StructAppended, StructEnds, WriteWhenIdle,
       WriteWhenBusy, WriteAppended, Send, abt
  <2>2. \A x \in Runs \cup Aborts : pc'[x] = pc[x]  BY <1>5, OtherFrame DEF Ops
  <2> QED BY <1>1, <1>2, <1>3, <2>1, <2>2
<1>6. ASSUME NEW a \in Aborts, Abort(a) PROVE Signalled'
  <2>1. pc'[a] = "queue_update" /\ \A x \in Ops \ {a} : pc'[x] = pc[x]
    BY <1>6 DEF Abort, Go, Types, PlaceType, Ops
  <2>2. hit' = [hit EXCEPT ![a] = controller] /\ waits' = waits  BY <1>6 DEF Abort
  <2>3. controller # None => controller \in Runs /\ pc[controller] # "new"
    BY DEF Control, Open, Types, CtlType
  <2>4. \A x \in (Runs \cup Aborts) \ {a} : pc'[x] = pc[x]  BY <2>1 DEF Ops
  <2>5. a \notin Runs  BY HarnessAssumption
  <2>6. Fine(a)'  BY <2>1, <2>2, <2>3, <2>4, <2>5 DEF Types, AbortType
  <2>7. \A b \in Aborts \ {a} : Fine(b)'  BY <1>1, <1>2, <2>2, <2>4, <2>5 DEF Types, AbortType
  <2> QED BY <1>3, <2>6, <2>7
<1>7. ASSUME NEW a \in Aborts, AbortAnnounced(a) PROVE Signalled'
  <2>1. pc'[a] = "waiting" /\ \A x \in Ops \ {a} : pc'[x] = pc[x]
    BY <1>7 DEF AbortAnnounced, Go, Types, PlaceType, Ops
  <2>2. waits' = [waits EXCEPT ![a] = runPromise] /\ hit' = hit  BY <1>7 DEF AbortAnnounced
  <2>3. \A x \in (Runs \cup Aborts) \ {a} : pc'[x] = pc[x]  BY <2>1 DEF Ops
  <2>4. a \notin Runs  BY HarnessAssumption
  <2>5. hit[a] # None => pc[hit[a]] = "returned" \/ runPromise = hit[a]
    BY <1>1, <1>2 DEF Control, Open, Places, RunPlace, Types, RunType, RunRecord
  <2>6. Fine(a)'  BY <1>1, <1>2, <2>1, <2>2, <2>3, <2>4, <2>5 DEF Types, AbortType
  <2>7. \A b \in Aborts \ {a} : Fine(b)'  BY <1>1, <1>2, <2>2, <2>3, <2>4 DEF Types, AbortType
  <2> QED BY <1>3, <2>6, <2>7
<1>8. ASSUME NEW a \in Aborts, AbortReturns(a) PROVE Signalled'
  <2>1. pc'[a] = "returned" /\ \A x \in Ops \ {a} : pc'[x] = pc[x]
    BY <1>8 DEF AbortReturns, Go, Types, PlaceType, Ops
  <2>2. UNCHANGED <<hit, waits>>  BY <1>8 DEF AbortReturns, abt
  <2>3. \A x \in (Runs \cup Aborts) \ {a} : pc'[x] = pc[x]  BY <2>1 DEF Ops
  <2>4. hit[a] # None => pc[hit[a]] = "returned"
    BY <1>1, <1>2, <1>8, HarnessAssumption DEF AbortReturns, Control, Ops
  <2>5. a \notin Runs  BY HarnessAssumption
  <2>6. Fine(a)'  BY <1>1, <1>2, <2>1, <2>2, <2>3, <2>4, <2>5
  <2>7. \A b \in Aborts \ {a} : Fine(b)'  BY <1>1, <1>2, <2>2, <2>3, <2>5
  <2> QED BY <1>3, <2>6, <2>7
<1>9. CASE UNCHANGED vars  BY <1>9 DEF vars, abt, Signalled
<1> QED BY <1>4, <1>5, <1>6, <1>7, <1>8, <1>9, HarnessAssumption DEF Next, AbortStep, Ops

\* An abort signals the run that is in its loop.
LEMMA AbortSignals ==
  ASSUME Types, Control, [Next]_vars, NEW a \in Aborts, pc[a] = "new", pc'[a] # "new"
  PROVE  {r \in Runs : Open(r) /\ run[r].stage = "loop" /\ ~Over(r)} \subseteq aborted'
<1>1. Abort(a)
  <2>1. ASSUME NEW r \in Runs, StartRun(r) \/ RunStep(r) PROVE FALSE
    BY <2>1, RunFrame, HarnessAssumption DEF Aside, Ops
  <2>2. ASSUME NEW o \in Ops \ (Runs \cup {a}),
               \/ o \in Structs /\ (StartStruct(o) \/ StructStep(o))
               \/ o \in Writes /\ (WriteWhenIdle(o) \/ WriteWhenBusy(o) \/ WriteAppended(o))
               \/ o \in Msgs /\ Send(o)
               \/ o \in Aborts /\ (Abort(o) \/ AbortStep(o))
        PROVE  FALSE
    BY <2>2, OtherFrame, HarnessAssumption DEF Ops
  <2>3. CASE UNCHANGED vars  BY <2>3 DEF vars
  <2>4. ~AbortStep(a)  BY DEF AbortStep, AbortAnnounced, AbortReturns
  <2> QED BY <2>1, <2>2, <2>3, <2>4, HarnessAssumption DEF Next, Ops
<1> QED BY <1>1, HarnessAssumption DEF Abort, Control, Open, Types, CtlType, Ops

(***************************************************************************)
(* What runs have to append.                                               *)
(***************************************************************************)
LEMMA OutKept ==
  ASSUME NEW r \in Runs, OutFine(r), run'[r].out = run[r].out,
         run'[r].stage = "start" => run[r].stage = "start",
         pc'[r] \in {"append", "notify"} => pc[r] \in {"append", "notify"} /\ run'[r].then = run[r].then
  PROVE  OutFine(r)'
  BY DEF OutFine

\* What goes out is one entry.
LEMMA OutOne ==
  ASSUME NEW r \in Runs, NEW kind \in {"calls", "reply", "result", "failure"},
         run'[r].out = <<Item(kind, r)>>, run'[r].stage # "start", kind = "calls" => run'[r].then = "tools"
  PROVE  OutFine(r)'
<1> DEFINE out == <<Item(kind, r)>>
<1>1. DOMAIN out = {1} /\ out[1].kind = kind  BY DEF Item
<1>2. kind = "calls" => out = <<Item("calls", r)>>  OBVIOUS
<1>3. run'[r].out = out  OBVIOUS
<1> HIDE DEF out
<1> QED BY <1>1, <1>2, <1>3 DEF OutFine

LEMMA ThrowOut ==
  ASSUME Types, NEW r \in Runs, OutFine(r), Throw(r)
  PROVE  OutFine(r)'
<1>1. CASE run[r].stage = "loop"  BY <1>1, ThrowEffect, OutOne
<1>2. CASE run[r].stage \in {"start", "final"}  BY <1>2, ThrowEffect, OutKept
<1>3. CASE run[r].stage = "failing"
  <2>1. run'[r].out = run[r].out
    <3> DEFINE none == <<>>
    <3>1. run' = [run EXCEPT ![r] = [run[r] EXCEPT !.stage = "final", !.then = "final", !.failed = TRUE,
                    !.drained = none]]
      BY <1>3, ThrowMeans
    <3> HIDE DEF none
    <3>2. run'[r] = [run[r] EXCEPT !.stage = "final", !.then = "final", !.failed = TRUE, !.drained = none]
      BY <3>1 DEF Types, RunType
    <3> QED BY <3>2, RunFields
  <2> QED BY <1>3, <2>1, ThrowEffect, OutKept
<1> QED BY <1>1, <1>2, <1>3, ThrowEffect

LEMMA RunOutgoing ==
  ASSUME Types, Places, InHand, NEW r \in Runs, StartRun(r) \/ RunStep(r), OutFine(r)
  PROVE  OutFine(r)'
<1>1. ASSUME StartRun(r) PROVE OutFine(r)'
  <2>1. run'[r].out = run[r].out /\ (run'[r].stage = "start" => run[r].stage = "start")
    BY <1>1, RunFields DEF StartRun, Go, MayStart, Open, queues, store, abt, hist, Types, RunType
  <2>2. pc'[r] \in {"append", "notify"} => pc[r] \in {"append", "notify"} /\ run'[r].then = run[r].then
    BY <1>1, RunFields DEF StartRun, Go, MayStart, Open, queues, store, abt, hist, Types, RunType,
       PlaceType, Ops
  <2> QED BY <2>1, <2>2, OutKept
<1>2. ASSUME StateCreated(r) PROVE OutFine(r)'
  BY <1>2, OutKept, DrainEffect DEF StateCreated, Go, Types, PlaceType, Ops
<1>3. ASSUME Unknown(r) PROVE OutFine(r)'
  BY <1>3, ThrowOut DEF Unknown
<1>4. ASSUME BeforeStart(r) PROVE OutFine(r)'
  <2>1. run' = [run EXCEPT ![r] = [run[r] EXCEPT !.stage = "loop", !.then = "poll", !.more = TRUE,
                  !.out = FirstMessages(r)]]
    BY <1>4 DEF BeforeStart
  <2>2. run'[r] = [run[r] EXCEPT !.stage = "loop", !.then = "poll", !.more = TRUE, !.out = FirstMessages(r)]
    BY <2>1 DEF Types, RunType
  <2>3. run'[r].out = Append(run[r].out, Item("prompt", r)) /\ run'[r].stage = "loop"
    BY <2>2, RunFields DEF FirstMessages
  <2>4. run[r].out \in Seq(Entries) /\ Item("prompt", r) \in Entries  BY EntryTypes DEF Types, RunType, RunRecord
  <2>5. run[r].stage = "start"  BY <1>4 DEF BeforeStart, Places, RunPlace, Types, RunType, RunRecord
  <2>6. \A i \in DOMAIN run[r].out : run[r].out[i].kind = "message"  BY <2>5 DEF OutFine
  <2>7. \A i \in DOMAIN run'[r].out : run'[r].out[i].kind \in {"message", "prompt"}
    BY <2>3, <2>4, <2>6, AppendAt DEF Item
  <2> QED BY <2>3, <2>7 DEF OutFine
<1>5. ASSUME Appended(r) PROVE OutFine(r)'
  <2>1. run'[r].out = run[r].out /\ (run'[r].stage = "start" => run[r].stage = "start")
    BY <1>5, RunFields DEF Appended, Go, queues, ctl, abt, hist, Types, RunType
  <2>2. pc'[r] \in {"append", "notify"} => pc[r] \in {"append", "notify"} /\ run'[r].then = run[r].then
    BY <1>5, RunFields DEF Appended, Go, queues, ctl, abt, hist, Types, RunType, PlaceType, Ops
  <2> QED BY <2>1, <2>2, OutKept
<1>6. ASSUME Notified(r) PROVE OutFine(r)'
  <2>1. run'[r].out = Tail(run[r].out) /\ run'[r].stage = run[r].stage
    BY <1>6, RunFields DEF Notified, Types, RunType
  <2>2. run[r].out \in Seq(Entries) \ {<<>>}  BY <1>6 DEF Notified, InHand, Hand, Types, RunType, RunRecord
  <2>3. pc[r] = "notify"  BY <1>6 DEF Notified
  <2>4. \A i \in DOMAIN run'[r].out : i + 1 \in DOMAIN run[r].out /\ run'[r].out[i] = run[r].out[i + 1]
    BY <2>1, <2>2
  <2>5. \A i \in DOMAIN run'[r].out : run'[r].out[i].kind # "calls"
    <3> SUFFICES ASSUME NEW i \in DOMAIN run'[r].out, run'[r].out[i].kind = "calls" PROVE FALSE
      OBVIOUS
    <3>1. run[r].out = <<Item("calls", r)>>  BY <2>3, <2>4 DEF OutFine
    <3>2. DOMAIN run[r].out = {1} /\ Len(run[r].out) = 1  BY <3>1
    <3>3. i + 1 = 1 /\ i \in 1..Len(run'[r].out)  BY <2>1, <2>2, <2>4, <3>2
    <3> QED BY <3>3
  <2> QED BY <2>1, <2>4, <2>5 DEF OutFine
<1>7. ASSUME PollSteering(r) PROVE OutFine(r)'
  BY <1>7, OutKept, DrainEffect DEF PollSteering, Poll, Go, Types, PlaceType, Ops
<1>8. ASSUME PollFollowUp(r) PROVE OutFine(r)'
  <2>1. CASE Poll(r, "followUp")  BY <1>8, <2>1, OutKept, DrainEffect DEF PollFollowUp, Poll
  <2>2. CASE ~Poll(r, "followUp")
    BY <1>8, <2>2, OutKept, RunFields DEF PollFollowUp, Go, Types, PlaceType, RunType, Ops
  <2> QED BY <2>1, <2>2
<1>9. ASSUME DrainAnnounced(r) PROVE OutFine(r)'
  <2> DEFINE none == <<>>
             out == Messages(run[r].drained)
  <2>1. run' = [run EXCEPT ![r] = [run[r] EXCEPT !.out = out, !.drained = none, !.then = "request"]]
    BY <1>9 DEF DrainAnnounced
  <2>2. \A i \in DOMAIN out : out[i].kind = "message"  BY DEF Messages, Item
  <2> HIDE DEF none, out
  <2>3. run'[r].out = out  BY <2>1, RunFields DEF Types, RunType
  <2> QED BY <2>2, <2>3 DEF OutFine
<1>10. ASSUME Replied(r) PROVE OutFine(r)'
  <2>1. PICK kind \in {"calls", "reply"} :
          run'[r].out = <<Item(kind, r)>> /\ (kind = "calls" => run'[r].then = "tools")
    BY <1>10, RunFields DEF Replied, Types, RunType
  <2>2. run'[r].stage # "start"
    BY <1>10, RunFields DEF Replied, Types, RunType, Places, RunPlace
  <2> QED BY <2>1, <2>2, OutOne
<1>11. ASSUME ToolsDone(r) PROVE OutFine(r)'
  <2>1. run'[r].out = <<Item("result", r)>>  BY <1>11, RunFields DEF ToolsDone, Types, RunType
  <2>2. run'[r].stage # "start"
    BY <1>11, RunFields DEF ToolsDone, Types, RunType, Places, RunPlace
  <2> QED BY <2>1, <2>2, OutOne
<1>12. ASSUME TurnEnd(r) PROVE OutFine(r)'
  <2>1. run'[r].out = run[r].out /\ (run'[r].stage = "start" => run[r].stage = "start")
    BY <1>12, RunFields DEF TurnEnd, Go, AnyFault, queues, store, ctl, abt, Types, RunType
  <2>2. pc'[r] \in {"append", "notify"} => pc[r] \in {"append", "notify"} /\ run'[r].then = run[r].then
    BY <1>12, RunFields DEF TurnEnd, Go, AnyFault, queues, store, ctl, abt, Types, RunType, PlaceType,
       Ops
  <2> QED BY <2>1, <2>2, OutKept
<1>13. ASSUME SavePoint(r) PROVE OutFine(r)'
  <2>1. run'[r].out = run[r].out /\ (run'[r].stage = "start" => run[r].stage = "start")
    BY <1>13, RunFields DEF SavePoint, Go, FlushThen, queues, store, ctl, abt, hist, Types, RunType
  <2>2. pc'[r] \in {"append", "notify"} => pc[r] \in {"append", "notify"} /\ run'[r].then = run[r].then
    BY <1>13, RunFields DEF SavePoint, Go, FlushThen, queues, store, ctl, abt, hist, Types, RunType,
       PlaceType, Ops
  <2> QED BY <2>1, <2>2, OutKept
<1>14. ASSUME Snapshot(r) PROVE OutFine(r)'
  <2>1. run'[r].out = run[r].out /\ (run'[r].stage = "start" => run[r].stage = "start")
    BY <1>14, RunFields DEF Snapshot, Go, queues, store, ctl, abt, hist, Types, RunType
  <2>2. pc'[r] \in {"append", "notify"} => pc[r] \in {"append", "notify"} /\ run'[r].then = run[r].then
    BY <1>14, RunFields DEF Snapshot, Go, queues, store, ctl, abt, hist, Types, RunType, PlaceType, Ops
  <2> QED BY <2>1, <2>2, OutKept
<1>15. ASSUME AgentEnd(r) PROVE OutFine(r)'
  <2>1. run'[r].out = run[r].out /\ (run'[r].stage = "start" => run[r].stage = "start")
    BY <1>15, RunFields DEF AgentEnd, Go, queues, store, ctl, abt, hist, Types, RunType
  <2>2. pc'[r] \in {"append", "notify"} => pc[r] \in {"append", "notify"} /\ run'[r].then = run[r].then
    BY <1>15, RunFields DEF AgentEnd, Go, queues, store, ctl, abt, hist, Types, RunType, PlaceType, Ops
  <2> QED BY <2>1, <2>2, OutKept
<1>16. ASSUME Settled(r) PROVE OutFine(r)'
  <2>1. run'[r].out = run[r].out /\ (run'[r].stage = "start" => run[r].stage = "start")
    BY <1>16, RunFields DEF Settled, Go, queues, store, ctl, abt, hist, Types, RunType
  <2>2. pc'[r] \in {"append", "notify"} => pc[r] \in {"append", "notify"} /\ run'[r].then = run[r].then
    BY <1>16, RunFields DEF Settled, Go, queues, store, ctl, abt, hist, Types, RunType, PlaceType, Ops
  <2> QED BY <2>1, <2>2, OutKept
<1>17. ASSUME FlushNext(r) PROVE OutFine(r)'
  <2>1. run'[r].out = run[r].out /\ (run'[r].stage = "start" => run[r].stage = "start")
    BY <1>17, RunFields DEF FlushNext, Go, queues, store, ctl, abt, hist, Types, RunType
  <2>2. pc'[r] \in {"append", "notify"} => pc[r] \in {"append", "notify"} /\ run'[r].then = run[r].then
    BY <1>17, RunFields DEF FlushNext, Go, queues, store, ctl, abt, hist, Types, RunType, PlaceType,
       Ops
  <2> QED BY <2>1, <2>2, OutKept
<1>18. ASSUME Flushed(r) PROVE OutFine(r)'
  <2>1. run'[r].out = run[r].out /\ (run'[r].stage = "start" => run[r].stage = "start")
    BY <1>18, RunFields DEF Flushed, Go, Shifted, queues, ctl, abt, hist, Types, RunType
  <2>2. pc'[r] \in {"append", "notify"} => pc[r] \in {"append", "notify"} /\ run'[r].then = run[r].then
    BY <1>18, RunFields DEF Flushed, Go, Shifted, queues, ctl, abt, hist, Types, RunType, PlaceType,
       Ops
  <2> QED BY <2>1, <2>2, OutKept
<1>19. ASSUME FlushDone(r) PROVE OutFine(r)'
  <2>1. CASE Throw(r)  BY <2>1, ThrowOut
  <2>2. CASE ~Throw(r)
    <3>1. UNCHANGED run /\ (Go(r, run[r].then) \/ Go(r, "returned"))  BY <1>19, <2>2 DEF FlushDone, Finish
    <3>2. pc'[r] \notin {"append", "notify"}
      BY <1>19, <3>1 DEF FlushDone, Places, RunPlace, Go, Types, PlaceType, Ops
    <3> QED BY <3>1, <3>2, OutKept
  <2> QED BY <2>1, <2>2
<1>20. ASSUME Rejects(r) PROVE OutFine(r)'
  BY <1>20, ThrowOut DEF Rejects
<1> QED
  BY <1>1, <1>2, <1>3, <1>4, <1>5, <1>6, <1>7, <1>8, <1>9, <1>10, <1>11, <1>12, <1>13, <1>14,
     <1>15, <1>16, <1>17, <1>18, <1>19, <1>20 DEF RunStep

LEMMA OutgoingStep == Types /\ Places /\ InHand /\ Outgoing /\ [Next]_vars => Outgoing'
<1> SUFFICES ASSUME Types, Places, InHand, Outgoing, [Next]_vars PROVE Outgoing'  OBVIOUS
<1>1. ASSUME NEW r \in Runs, StartRun(r) \/ RunStep(r) PROVE Outgoing'
  <2>1. OutFine(r)'  BY <1>1, RunOutgoing DEF Outgoing
  <2>2. \A x \in Runs \ {r} : OutFine(x)'  BY <1>1, RunFrame DEF Aside, Outgoing, OutFine, Ops
  <2> QED BY <2>1, <2>2 DEF Outgoing
<1>2. ASSUME NEW o \in Ops \ Runs,
             \/ o \in Structs /\ (StartStruct(o) \/ StructStep(o))
             \/ o \in Writes /\ (WriteWhenIdle(o) \/ WriteWhenBusy(o) \/ WriteAppended(o))
             \/ o \in Msgs /\ Send(o)
             \/ o \in Aborts /\ (Abort(o) \/ AbortStep(o))
      PROVE Outgoing'
  BY <1>2, OtherFrame DEF Outgoing, OutFine, Ops
<1>3. CASE UNCHANGED vars  BY <1>3 DEF vars, Outgoing, OutFine
<1> QED BY <1>1, <1>2, <1>3, HarnessAssumption DEF Next, Ops

(***************************************************************************)
(* Tool calls are answered.                                                *)
(***************************************************************************)
\* A run that answers goes on doing so, or fails.
LEMMA RunAnswers ==
  ASSUME Types, Places, NEW r \in Runs, Answering(r), RunStep(r), ~Appended(r)
  PROVE  run'[r].failed \/ Answering(r)'
<1>1. Notified(r) \/ ToolsDone(r) \/ Rejects(r)
  BY DEF RunStep, Answering, StateCreated, Unknown, BeforeStart, PollSteering, PollFollowUp, DrainAnnounced,
     Replied, TurnEnd, SavePoint, Snapshot, AgentEnd, Settled, FlushNext, Flushed, FlushDone
<1>2. CASE Notified(r)
  <2>1. run[r].out = <<Item("calls", r)>> /\ run[r].then = "tools"  BY <1>2 DEF Notified, Answering
  <2>2. Len(run[r].out) = 1  BY <2>1
  <2>3. pc'[r] = "tools" /\ phase' = phase
    BY <1>2, <2>1, <2>2 DEF Notified, Go, Types, PlaceType, Ops, ctl
  <2> QED BY <2>3 DEF Answering, Open
<1>3. CASE ToolsDone(r)
  <2>1. run'[r].out = <<Item("result", r)>>  BY <1>3, RunFields DEF ToolsDone, Types, RunType
  <2>2. pc'[r] = "append" /\ phase' = phase  BY <1>3 DEF ToolsDone, Go, Types, PlaceType, Ops, ctl
  <2> QED BY <2>1, <2>2 DEF Answering, Open
<1>4. CASE Rejects(r)
  <2>1. Throw(r)  BY <1>4 DEF Rejects
  <2>2. run[r].stage \in {"loop", "failing"}
    BY DEF Answering, Places, RunPlace, Types, RunType, RunRecord
  <2>3. CASE run[r].stage = "loop"  BY <2>1, <2>3, ThrowEffect DEF Answering, Open, ctl
  <2>4. CASE run[r].stage = "failing"  BY <2>1, <2>4, ThrowEffect
  <2> QED BY <2>2, <2>3, <2>4
<1> QED BY <1>1, <1>2, <1>3, <1>4

\* Nobody appends between the calls of a run and what answers them.
LEMMA NextEntry ==
  ASSUME Types, Places, InHand, Control, [Next]_vars, NEW r \in Runs, Answering(r), session' # session
  PROVE  \E k \in {"result", "failure"} : session' = Append(session, Item(k, r))
<1>1. /\ Open(r) /\ phase = "turn"
      /\ \A x \in Working \ {r} : ~Open(x)
      /\ \A w \in Writes : ~Open(w)
  BY DEF Answering, Control, Working
<1>2. \A s \in Structs : s \in Working \ {r}  BY HarnessAssumption DEF Working
<1>3. PICK x \in Runs : (Appended(x) /\ session' = Append(session, Head(run[x].out))) \/ Flushed(x)
  BY <1>1, <1>2, Appends DEF StructAppended, WriteAppended, Open
<1>4. x = r  BY <1>1, <1>3 DEF Appended, Flushed, Open, Working
<1>5. pc[r] = "append" /\ session' = Append(session, Head(run[r].out))
  BY <1>3, <1>4 DEF Answering, Appended, Flushed
<1>6. PICK k \in {"result", "failure"} : run[r].out = <<Item(k, r)>>  BY <1>5 DEF Answering
<1>7. Head(run[r].out) = Item(k, r)  BY <1>6
<1> QED BY <1>5, <1>7

\* Without an entry of its own, a step leaves a run that answers to itself.
LEMMA AnswersKept ==
  ASSUME Types, Places, Control, [Next]_vars, NEW r \in Runs, Answering(r), session' = session,
         ~Appended(r)
  PROVE  run'[r].failed \/ Answering(r)'
<1>1. /\ Open(r) /\ phase = "turn"
      /\ \A x \in Working \ {r} : ~Open(x)
  BY DEF Answering, Control, Working
<1>2. ASSUME NEW x \in Runs, StartRun(x) \/ RunStep(x) PROVE run'[r].failed \/ Answering(r)'
  <2>1. CASE x = r
    <3>1. ~StartRun(r)  BY <1>1 DEF StartRun, MayStart, Open
    <3> QED BY <1>2, <2>1, <3>1, RunAnswers
  <2>2. CASE x # r
    <3>1. ~Open(x)  BY <1>1, <2>2 DEF Working
    <3>2. ~StartRun(x)  BY <1>1 DEF StartRun, MayStart
    <3>3. RunStep(x) => pc[x] # "new" /\ pc[x] # "returned"
      <4>1. RunStep(x) => pc[x] # "returned"  BY RunGoesOn
      <4>2. RunStep(x) => pc[x] # "new"
        BY DEF RunStep, StateCreated, Unknown, BeforeStart, Appended, Notified, PollSteering, PollFollowUp,
           DrainAnnounced, Replied, ToolsDone, TurnEnd, SavePoint, Snapshot, AgentEnd, Settled, FlushNext,
           Flushed, FlushDone, Rejects, Awaiting
      <4> QED BY <4>1, <4>2
    <3>4. pc[x] # "rejected"  BY DEF Places, RunPlace, Types, RunType, RunRecord
    <3> QED BY <1>2, <3>1, <3>2, <3>3, <3>4 DEF Open
  <2> QED BY <2>1, <2>2
<1>3. ASSUME NEW o \in Ops \ Runs,
             \/ o \in Structs /\ (StartStruct(o) \/ StructStep(o))
             \/ o \in Writes /\ (WriteWhenIdle(o) \/ WriteWhenBusy(o) \/ WriteAppended(o))
             \/ o \in Msgs /\ Send(o)
             \/ o \in Aborts /\ (Abort(o) \/ AbortStep(o))
      PROVE run'[r].failed \/ Answering(r)'
  <2>1. run' = run /\ pc'[r] = pc[r]  BY <1>3, OtherFrame DEF Ops
  <2>2. o \in Structs => ~Open(o)  BY <1>1, <1>3 DEF Working
  <2>3. phase' = phase
    BY <1>1, <1>3, <2>2, HarnessAssumption DEF StartStruct, MayStart, StructStep, Prepared, StructAppended,
       StructEnds, Open, WriteWhenIdle, WriteWhenBusy, WriteAppended, Send, Abort, AbortStep,
       AbortAnnounced, AbortReturns, ctl
  <2> QED BY <2>1, <2>3 DEF Answering, Open
<1>4. CASE UNCHANGED vars  BY <1>4 DEF vars, ctl, Answering, Open
<1> QED BY <1>2, <1>3, <1>4, HarnessAssumption DEF Next, Ops

\* Calls that are appended are the calls of a run that is about to make them.
LEMMA CallsAppended ==
  ASSUME Types, Places, InHand, Control, Outgoing, NEW r \in Runs, Appended(r),
         Head(run[r].out).kind = "calls"
  PROVE  Head(run[r].out).of = r /\ Answering(r)'
<1>1. pc[r] = "append" /\ run[r].out \in Seq(Entries) \ {<<>>}
  BY DEF Appended, InHand, Hand, Types, RunType, RunRecord
<1>2. 1 \in DOMAIN run[r].out /\ run[r].out[1] = Head(run[r].out)
  <2>1. Len(run[r].out) # 0 /\ Len(run[r].out) \in Nat  BY <1>1, NotEmpty
  <2> QED BY <1>1, <2>1
<1>3. run[r].out = <<Item("calls", r)>> /\ run[r].then = "tools"
  BY <1>1, <1>2 DEF Outgoing, OutFine
<1>4. Head(run[r].out).of = r  BY <1>3 DEF Item
<1>5. run[r].stage = "loop"  BY <1>1, <1>3 DEF Places, RunPlace, Types, RunType, RunRecord
<1>6. phase = "turn"  BY <1>1, <1>5 DEF Control, Open, Early
<1>7. pc'[r] = "notify" /\ run' = run /\ phase' = phase
  BY DEF Appended, Go, Types, PlaceType, Ops, ctl
<1> QED BY <1>3, <1>4, <1>6, <1>7 DEF Answering, Open

LEMMA AnsweredStep ==
  Types /\ Types' /\ Places /\ InHand /\ Control /\ Outgoing /\ LastAnswered /\ CallsMeetResults /\ [Next]_vars
  => LastAnswered' /\ CallsMeetResults'
<1> SUFFICES ASSUME Types, Types', Places, InHand, Control, Outgoing, LastAnswered, CallsMeetResults, [Next]_vars
             PROVE  LastAnswered' /\ CallsMeetResults'
  OBVIOUS
<1>1. session \in Seq(Entries) /\ session' \in Seq(Entries)  BY DEF Types, StoreType
<1>2. ASSUME NEW i \in DOMAIN session, session[i].kind = "calls" PROVE session[i].of \in Runs
  BY <1>1, <1>2 DEF Entries
<1>3. CASE session' = session
  <2>1. CallsMeetResults'  BY <1>2, <1>3, FailedStays DEF CallsMeetResults
  <2>2. LastAnswered'
    <3> SUFFICES ASSUME session # <<>>, session[Len(session)].kind = "calls"
                 PROVE  LET r == session[Len(session)].of IN run'[r].failed \/ Answering(r)'
      BY <1>3 DEF LastAnswered
    <3>1. Len(session) \in DOMAIN session
      <4>1. Len(session) # 0 /\ Len(session) \in Nat  BY <1>1, NotEmpty
      <4> QED BY <1>1, <4>1
    <3> DEFINE r == session[Len(session)].of
    <3>2. r \in Runs  BY <1>2, <3>1
    <3>3. run[r].failed \/ Answering(r)  BY DEF LastAnswered
    <3>4. ~Appended(r)
      <4>1. ASSUME Appended(r) PROVE FALSE
        <5>1. session' = Append(session, Head(run[r].out))  BY <4>1 DEF Appended
        <5>2. Len(session') = Len(session) + 1 /\ Len(session) \in Nat  BY <1>1, <5>1
        <5> QED BY <1>3, <5>2
      <4> QED BY <4>1
    <3> QED BY <1>3, <3>2, <3>3, <3>4, FailedStays, AnswersKept
  <2> QED BY <2>1, <2>2
<1>4. CASE session' # session
  <2>1. PICK e \in Entries : /\ session' = Append(session, e)
                             /\ e.kind = "calls" => \E r \in Runs : Appended(r) /\ e = Head(run[r].out)
    <3>1. pending # <<>> => Item("write", Head(pending)) \in Entries
      BY EntryTypes DEF Types, StoreType
    <3>2. \A k \in {"write", "structural"} : \A x : Item(k, x).kind # "calls"  BY DEF Item
    <3> QED BY <1>4, <3>1, <3>2, Appends, EntryTypes
  <2>2. /\ Len(session') = Len(session) + 1 /\ Len(session) \in Nat /\ session'[Len(session) + 1] = e
        /\ \A i \in 1..Len(session) : session'[i] = session[i]
        /\ DOMAIN session' = 1..(Len(session) + 1) /\ DOMAIN session = 1..Len(session)
    BY <1>1, <2>1, AppendAt
  <2>3. LastAnswered'
    <3> SUFFICES ASSUME e.kind = "calls" PROVE run'[e.of].failed \/ Answering(e.of)'
      BY <2>2 DEF LastAnswered
    <3> QED BY <2>1, CallsAppended
  <2>4. CallsMeetResults'
    <3> SUFFICES ASSUME NEW i \in 1..Len(session), session[i].kind = "calls"
                 PROVE  \/ session'[i + 1] \in {Item("result", session[i].of), Item("failure", session[i].of)}
                        \/ run'[session[i].of].failed
      BY <2>2 DEF CallsMeetResults
    <3> DEFINE r == session[i].of
    <3>1. r \in Runs  BY <1>2, <2>2
    <3>4. i < Len(session) \/ i = Len(session)  BY <1>1
    <3>2. CASE i < Len(session)
      <4>1. session'[i + 1] = session[i + 1]  BY <2>2, <3>2
      <4> QED BY <2>2, <3>1, <3>2, <4>1, FailedStays DEF CallsMeetResults
    <3>3. CASE i = Len(session)
      <4>1. session # <<>>  BY <1>1, <2>2, <3>3, NotEmpty
      <4>2. run[r].failed \/ Answering(r)  BY <3>3, <4>1 DEF LastAnswered
      <4>3. CASE run[r].failed  BY <3>1, <4>3, FailedStays
      <4>4. CASE Answering(r)
        <5>1. PICK k \in {"result", "failure"} : session' = Append(session, Item(k, r))
          BY <1>4, <3>1, <4>4, NextEntry
        <5>2. Item(k, r) \in Entries  BY <3>1, EntryTypes
        <5>3. session'[Len(session) + 1] = Item(k, r)  BY <1>1, <5>1, <5>2, AppendAt
        <5> QED BY <3>3, <5>3
      <4> QED BY <4>2, <4>3, <4>4
    <3> QED BY <3>2, <3>3, <3>4
  <2> QED BY <2>3, <2>4
<1> QED BY <1>3, <1>4

(***************************************************************************)
(* Writes are kept.                                                        *)
(***************************************************************************)
\* What follows the first n of a sequence.
LEMMA Suffix ==
  ASSUME NEW S, NEW d \in Seq(S), NEW n \in 0..Len(d)
  PROVE  LET p == SubSeq(d, n + 1, Len(d)) IN
         /\ p \in Seq(S) /\ Len(p) = Len(d) - n /\ DOMAIN p = 1..(Len(d) - n)
         /\ \A i \in 1..(Len(d) - n) : p[i] = d[n + i] /\ n + i \in DOMAIN d
         /\ Range(p) = {d[i] : i \in (n + 1)..Len(d)}
         /\ p # <<>> => n < Len(d) /\ Head(p) = d[n + 1] /\ Tail(p) = SubSeq(d, n + 2, Len(d))
<1> DEFINE p == SubSeq(d, n + 1, Len(d))
<1>1. p \in Seq(S) /\ Len(p) = Len(d) - n /\ DOMAIN p = 1..(Len(d) - n)  OBVIOUS
<1>2. \A i \in 1..(Len(d) - n) : p[i] = d[n + i] /\ n + i \in DOMAIN d  OBVIOUS
<1>3. Range(p) = {d[i] : i \in (n + 1)..Len(d)}
  <2>1. ASSUME NEW i \in (n + 1)..Len(d) PROVE d[i] \in Range(p)
    <3>1. i - n \in 1..(Len(d) - n) /\ n + (i - n) = i  OBVIOUS
    <3>2. p[i - n] = d[i]  BY <1>2, <3>1
    <3> QED BY <1>1, <3>1, <3>2 DEF Range
  <2>2. ASSUME NEW i \in 1..(Len(d) - n) PROVE p[i] \in {d[j] : j \in (n + 1)..Len(d)}
    BY <1>2
  <2> QED BY <1>1, <2>1, <2>2 DEF Range
<1>4. ASSUME p # <<>> PROVE n < Len(d) /\ Head(p) = d[n + 1] /\ Tail(p) = SubSeq(d, n + 2, Len(d))
  <2>1. Len(p) # 0 /\ Len(d) \in Nat /\ n \in Nat  BY <1>1, <1>4, NotEmpty
  <2>2. n < Len(d)  BY <1>1, <2>1
  <2>3. n + 1 \in 1..Len(d) /\ Len(d) \in (n + 1)..Len(d)  BY <2>1, <2>2
  <2> QED BY <2>2, <2>3, HeadTailOfSubSeq
<1> QED BY <1>1, <1>2, <1>3, <1>4

LEMMA SuffixRange ==
  ASSUME NEW S, NEW d \in Seq(S), NEW n \in 0..Len(d), NEW p, p = SubSeq(d, n + 1, Len(d))
  PROVE  Range(p) = {d[i] : i \in (n + 1)..Len(d)}
  BY Suffix

LEMMA SuffixAppend ==
  ASSUME NEW S, NEW d \in Seq(S), NEW n \in 0..Len(d), NEW e \in S
  PROVE  Append(SubSeq(d, n + 1, Len(d)), e) = SubSeq(Append(d, e), n + 1, Len(Append(d, e)))
<1> DEFINE p == Append(SubSeq(d, n + 1, Len(d)), e)
           b == Append(d, e)
           q == SubSeq(b, n + 1, Len(b))
           k == Len(d)
<1>1. k \in Nat /\ b \in Seq(S) /\ Len(b) = k + 1 /\ n \in 0..Len(b)  OBVIOUS
<1>2. Len(p) = k - n + 1 /\ p \in Seq(S)  BY Suffix
<1>3. Len(q) = k - n + 1 /\ q \in Seq(S)
  <2> HIDE DEF b
  <2>1. q \in Seq(S) /\ Len(q) = Len(b) - n  BY <1>1, Suffix
  <2> QED BY <1>1, <2>1
<1>4. ASSUME NEW i \in 1..(k - n + 1) PROVE p[i] = q[i]
  <2>1. q[i] = b[n + i]  BY <1>1, Suffix
  <2>2. CASE i = k - n + 1
    BY <1>1, <2>1, <2>2, Suffix
  <2>3. CASE i # k - n + 1
    <3>1. i \in 1..(k - n) /\ n + i \in 1..k  BY <1>1, <2>3
    <3>2. p[i] = d[n + i]  BY <3>1, Suffix
    <3>3. b[n + i] = d[n + i]  BY <3>1
    <3> QED BY <2>1, <3>2, <3>3
  <2> QED BY <2>2, <2>3
<1>5. Len(p) = Len(q) /\ \A i \in 1..Len(p) : p[i] = q[i]  BY <1>2, <1>3, <1>4
<1> HIDE DEF p, q
<1> QED BY <1>2, <1>3, <1>5, SeqEqual DEF p, q

LEMMA AppendRange ==
  ASSUME NEW S, NEW s \in Seq(S), NEW e \in S
  PROVE  Range(Append(s, e)) = Range(s) \cup {e}
  BY AppendAt DEF Range

\* What is new stays once.
LEMMA OnceAppend ==
  ASSUME NEW S, NEW s \in Seq(S), NEW e \in S, NEW x, Once(s, x), x = e => x \notin Range(s)
  PROVE  Once(Append(s, e), x)
  BY AppendAt DEF Once, Range

Order(d, s) == \A i, j \in DOMAIN d, k, l \in DOMAIN s :
  i < j /\ s[k] = Item("write", d[i]) /\ s[l] = Item("write", d[j]) => k < l

\* Placed of one write.
PlacedOnce(w) ==
  /\ Once(session, Item("write", w)) /\ Once(pending, w) /\ Once(deferred, w)
  /\ pc[w] # "returned" => Item("write", w) \notin Range(session) /\ w \notin Range(deferred)
  /\ w \in Range(pending) => Item("write", w) \notin Range(session)
  /\ pc[w] = "returned" => Item("write", w) \in Range(session) \/ w \in Range(pending)

LEMMA PlacedParts ==
  Placed <=> /\ \A w \in Writes : PlacedOnce(w)
             /\ \E n \in 0..Len(deferred) : pending = SubSeq(deferred, n + 1, Len(deferred))
             /\ Order(deferred, session)
  BY DEF Placed, PlacedOnce, Order

\* The steps by what they do to the entries that are written.
LEMMA WriteMoves ==
  ASSUME Types, InHand, Outgoing, [Next]_vars
  PROVE  \/ /\ UNCHANGED <<pending, deferred>>
            /\ session' = session \/ \E e \in Entries : e.kind # "write" /\ session' = Append(session, e)
            /\ \A w \in Writes : pc'[w] = pc[w] \/ (pc[w] # "returned" /\ pc'[w] # "returned")
         \/ /\ pending # <<>> /\ pending' = Tail(pending) /\ deferred' = deferred
            /\ session' = Append(session, Item("write", Head(pending)))
            /\ \A w \in Writes : pc'[w] = pc[w]
         \/ \E w \in Writes :
              /\ pc[w] = "append" /\ pc'[w] = "returned" /\ \A v \in Writes \ {w} : pc'[v] = pc[v]
              /\ session' = Append(session, Item("write", w)) /\ UNCHANGED <<pending, deferred>>
         \/ \E w \in Writes :
              /\ pc[w] = "new" /\ pc'[w] = "returned" /\ \A v \in Writes \ {w} : pc'[v] = pc[v]
              /\ deferred' = Append(deferred, w) /\ pending' = Append(pending, w) /\ session' = session
<1> DEFINE Aside1 == /\ UNCHANGED <<pending, deferred>>
                     /\ session' = session \/ \E e \in Entries : e.kind # "write" /\ session' = Append(session, e)
                     /\ \A w \in Writes : pc'[w] = pc[w] \/ (pc[w] # "returned" /\ pc'[w] # "returned")
<1>1. ASSUME NEW r \in Runs, StartRun(r) \/ RunStep(r), ~Flushed(r) PROVE Aside1
  <2>1. UNCHANGED <<pending, deferred>> /\ \A w \in Writes : pc'[w] = pc[w]
    BY <1>1, RunFrame, HarnessAssumption DEF Aside, Ops
  <2>2. CASE ~Appended(r)  BY <1>1, <2>1, <2>2, RunFrame DEF Aside
  <2>3. CASE Appended(r)
    <3>1. run[r].out \in Seq(Entries) /\ run[r].out # <<>> /\ session' = Append(session, Head(run[r].out))
      BY <2>3 DEF Appended, InHand, Hand, Types, RunType, RunRecord
    <3>2. 1 \in DOMAIN run[r].out /\ Head(run[r].out) = run[r].out[1] /\ Head(run[r].out) \in Entries
      <4>1. Len(run[r].out) # 0 /\ Len(run[r].out) \in Nat  BY <3>1, NotEmpty
      <4> QED BY <3>1, <4>1
    <3>3. Head(run[r].out).kind # "write"  BY <3>2 DEF Outgoing, OutFine
    <3> QED BY <2>1, <3>1, <3>2, <3>3
  <2> QED BY <2>2, <2>3
<1>2. ASSUME NEW r \in Runs, Flushed(r)
      PROVE  /\ pending # <<>> /\ pending' = Tail(pending) /\ deferred' = deferred
             /\ session' = Append(session, Item("write", Head(pending)))
             /\ \A w \in Writes : pc'[w] = pc[w]
  <2>1. deferred' = deferred /\ \A w \in Writes : pc'[w] = pc[w]
    BY <1>2, RunFrame, HarnessAssumption DEF Aside, RunStep, Ops
  <2> QED BY <1>2, <2>1 DEF Flushed, Shifted, InHand, Hand
<1>3. ASSUME NEW o \in Ops \ (Runs \cup Writes),
             \/ o \in Structs /\ (StartStruct(o) \/ StructStep(o))
             \/ o \in Msgs /\ Send(o)
             \/ o \in Aborts /\ (Abort(o) \/ AbortStep(o))
      PROVE  Aside1
  <2>1. UNCHANGED <<pending, deferred>> /\ \A w \in Writes : pc'[w] = pc[w]
    BY <1>3, OtherFrame DEF Ops
  <2>2. session' = session \/ (o \in Structs /\ session' = Append(session, Item("structural", o)))
    BY <1>3, OtherFrame, HarnessAssumption DEF StartStruct, StructStep, Prepared, StructAppended,
       StructEnds, store
  <2>3. o \in Structs => Item("structural", o) \in Entries /\ Item("structural", o).kind # "write"
    BY EntryTypes DEF Item
  <2> QED BY <2>1, <2>2, <2>3
<1>4. ASSUME NEW w \in Writes, WriteWhenIdle(w) PROVE Aside1
  BY <1>4 DEF WriteWhenIdle, Go, store, hist, Types, PlaceType, Ops
<1>5. ASSUME NEW w \in Writes, WriteAppended(w), session' = session PROVE Aside1
  <2>1. Item("write", w) \in Entries /\ session \in Seq(Entries)  BY EntryTypes DEF Types, StoreType
  <2>2. session # Append(session, Item("write", w))
    <3>1. Len(Append(session, Item("write", w))) = Len(session) + 1 /\ Len(session) \in Nat
      BY <2>1, AppendAt
    <3> QED BY <3>1
  <2> QED BY <1>5, <2>2 DEF WriteAppended, AnyFault, Go, Types, PlaceType, Ops
<1>6. ASSUME NEW w \in Writes, WriteAppended(w), session' # session
      PROVE  /\ pc[w] = "append" /\ pc'[w] = "returned" /\ \A v \in Writes \ {w} : pc'[v] = pc[v]
             /\ session' = Append(session, Item("write", w)) /\ UNCHANGED <<pending, deferred>>
  BY <1>6 DEF WriteAppended, Go, Types, PlaceType, Ops
<1>7. ASSUME NEW w \in Writes, WriteWhenBusy(w)
      PROVE  /\ pc[w] = "new" /\ pc'[w] = "returned" /\ \A v \in Writes \ {w} : pc'[v] = pc[v]
             /\ deferred' = Append(deferred, w) /\ pending' = Append(pending, w) /\ session' = session
  BY <1>7 DEF WriteWhenBusy, Go, Types, PlaceType, Ops
<1>8. ASSUME UNCHANGED vars PROVE Aside1  BY <1>8 DEF vars, store, hist
<1>9. \/ Aside1 \/ \E r \in Runs : Flushed(r)
      \/ \E w \in Writes : (WriteAppended(w) /\ session' # session) \/ WriteWhenBusy(w)
  <2> HIDE DEF Aside1
  <2> QED BY <1>1, <1>3, <1>4, <1>5, <1>8, HarnessAssumption DEF Next, Ops
<1> QED BY <1>2, <1>6, <1>7, <1>9

LEMMA PlacedStep == Types /\ InHand /\ Outgoing /\ Placed /\ [Next]_vars => Placed'
<1> SUFFICES ASSUME Types, InHand, Outgoing, Placed, [Next]_vars PROVE Placed'  OBVIOUS
<1>1. session \in Seq(Entries) /\ pending \in Seq(Writes) /\ deferred \in Seq(Writes)  BY DEF Types, StoreType
<1>2. PICK n \in 0..Len(deferred) : pending = SubSeq(deferred, n + 1, Len(deferred))  BY DEF Placed
<1>3. \A w \in Writes : PlacedOnce(w)  BY PlacedParts
<1>4. Order(deferred, session)  BY PlacedParts
<1>5. Range(pending) = {deferred[i] : i \in (n + 1)..Len(deferred)} /\ Range(pending) \subseteq Range(deferred)
  <2>1. Range(pending) = {deferred[i] : i \in (n + 1)..Len(deferred)}
    BY <1>1, <1>2, SuffixRange, ZenonT(30)
  <2>2. \A i \in (n + 1)..Len(deferred) : i \in DOMAIN deferred  BY <1>1
  <2> QED BY <2>1, <2>2 DEF Range
<1>6. \A v, w : Item("write", v) = Item("write", w) => v = w  BY DEF Item
<1>11. ASSUME NEW k \in 0..Len(deferred'), pending' = SubSeq(deferred', k + 1, Len(deferred')),
              \A w \in Writes : PlacedOnce(w)', Order(deferred', session')
       PROVE  Placed'
  BY <1>11 DEF Placed, PlacedOnce, Order
<1>7. CASE /\ UNCHANGED <<pending, deferred>>
           /\ session' = session \/ \E e \in Entries : e.kind # "write" /\ session' = Append(session, e)
           /\ \A w \in Writes : pc'[w] = pc[w] \/ (pc[w] # "returned" /\ pc'[w] # "returned")
  <2>1. CASE session' = session
    <3>1. \A w \in Writes : PlacedOnce(w)'  BY <1>3, <1>7, <2>1 DEF PlacedOnce
    <3> QED BY <1>2, <1>4, <1>7, <2>1, <3>1, <1>11
  <2>2. ASSUME NEW e \in Entries, e.kind # "write", session' = Append(session, e) PROVE Placed'
    <3>1. \A w : e # Item("write", w)  BY <2>2 DEF Item
    <3>2. Range(session') = Range(session) \cup {e}  BY <1>1, <2>2, AppendRange
    <3>3. \A w \in Writes : Once(session', Item("write", w))
      BY <1>1, <1>3, <2>2, <3>1, OnceAppend DEF PlacedOnce
    <3>4. \A w \in Writes : PlacedOnce(w)'  BY <1>3, <1>7, <3>1, <3>2, <3>3 DEF PlacedOnce
    <3>5. Order(deferred, session')  BY <1>1, <1>4, <2>2, <3>1, AppendAt DEF Order
    <3> QED BY <1>2, <1>7, <3>4, <3>5, <1>11
  <2> QED BY <1>7, <2>1, <2>2
<1>8. CASE /\ pending # <<>> /\ pending' = Tail(pending) /\ deferred' = deferred
           /\ session' = Append(session, Item("write", Head(pending)))
           /\ \A w \in Writes : pc'[w] = pc[w]
  <2> DEFINE h == Head(pending)
  <2>1. n < Len(deferred) /\ h = deferred[n + 1] /\ Tail(pending) = SubSeq(deferred, n + 2, Len(deferred))
    BY <1>1, <1>2, <1>8, Suffix
  <2>2. n + 1 \in 0..Len(deferred) /\ n + 1 \in DOMAIN deferred /\ h \in Writes /\ Len(deferred) \in Nat
    BY <1>1, <2>1
  <2>3. pending' = SubSeq(deferred, (n + 1) + 1, Len(deferred)) /\ (n + 1) + 1 = n + 2  BY <1>8, <2>1, <2>2
  <2>4. Range(pending') = {deferred[i] : i \in (n + 2)..Len(deferred)}
    BY <1>1, <2>2, <2>3, Suffix
  <2>5. h \in Range(pending) /\ Item("write", h) \notin Range(session)
    BY <1>3, <1>5, <2>1, <2>2 DEF PlacedOnce
  <2>6. h \notin Range(pending')  BY <1>3, <2>1, <2>2, <2>4, <1>1 DEF PlacedOnce, Once
  <2>7. Range(pending) = Range(pending') \cup {h}  BY <1>5, <2>1, <2>2, <2>4
  <2>8. Item("write", h) \in Entries  BY <2>2, EntryTypes
  <2>9. Range(session') = Range(session) \cup {Item("write", h)}  BY <1>1, <1>8, <2>8, AppendRange
  <2>10. ASSUME NEW w \in Writes PROVE PlacedOnce(w)'
    <3>1. Once(session', Item("write", w))
      BY <1>1, <1>3, <1>6, <1>8, <2>5, <2>8, OnceAppend DEF PlacedOnce
    <3>2. Once(pending', w)
      <4>1. pending' \in Seq(Writes) /\ DOMAIN pending' = 1..(Len(deferred) - (n + 1))
            /\ \A i \in DOMAIN pending' : pending'[i] = deferred[n + 1 + i] /\ n + 1 + i \in DOMAIN deferred
        BY <1>1, <2>2, <2>3, Suffix
      <4>2. Once(deferred, w)  BY <1>3 DEF PlacedOnce
      <4> SUFFICES ASSUME NEW i \in DOMAIN pending', NEW j \in DOMAIN pending', pending'[i] = w, pending'[j] = w
                   PROVE  i = j
        BY DEF Once
      <4>3. n + 1 + i = n + 1 + j  BY <4>1, <4>2 DEF Once
      <4> QED BY <4>1, <4>3, <2>2
    <3>3. Once(deferred', w)  BY <1>3, <1>8 DEF PlacedOnce
    <3>4. pc'[w] # "returned" => w # h /\ pc[w] # "returned"
      BY <1>3, <1>5, <1>8, <2>5 DEF PlacedOnce
    <3> QED BY <1>3, <1>6, <1>8, <2>5, <2>6, <2>7, <2>9, <3>1, <3>2, <3>3, <3>4 DEF PlacedOnce
  <2>11. Order(deferred, session')
    <3> SUFFICES ASSUME NEW i \in DOMAIN deferred, NEW j \in DOMAIN deferred, i < j,
                        NEW k \in DOMAIN session', NEW l \in DOMAIN session',
                        session'[k] = Item("write", deferred[i]), session'[l] = Item("write", deferred[j])
                 PROVE  k < l
      BY DEF Order
    <3>1. /\ DOMAIN session = 1..Len(session) /\ DOMAIN session' = 1..(Len(session) + 1) /\ Len(session) \in Nat
          /\ session'[Len(session) + 1] = Item("write", h)
          /\ \A x \in 1..Len(session) : session'[x] = session[x]
      BY <1>1, <1>8, <2>8, AppendAt
    <3>2. DOMAIN deferred = 1..Len(deferred) /\ deferred[i] \in Writes /\ deferred[j] \in Writes  BY <1>1
    <3>3. CASE k # Len(session) + 1 /\ l # Len(session) + 1  BY <1>4, <3>1, <3>3 DEF Order
    <3>4. CASE k = Len(session) + 1
      <4>1. deferred[i] = h  BY <1>6, <3>1, <3>4
      <4>2. i = n + 1  BY <1>3, <2>1, <2>2, <3>2, <4>1 DEF PlacedOnce, Once
      <4>3. j \in (n + 2)..Len(deferred)  BY <3>2, <4>2, <2>2
      <4>4. deferred[j] \in Range(pending') /\ deferred[j] # h  BY <2>4, <2>6, <4>3
      <4>5. Item("write", deferred[j]) \notin Range(session)  BY <1>3, <2>7, <3>2, <4>4 DEF PlacedOnce
      <4>6. l # Len(session) + 1  BY <1>6, <3>1, <4>4
      <4> QED BY <3>1, <4>5, <4>6 DEF Range
    <3>5. CASE l = Len(session) + 1 /\ k # Len(session) + 1  BY <3>1, <3>5
    <3> QED BY <3>3, <3>4, <3>5
  <2> QED BY <1>8, <2>2, <2>3, <2>10, <2>11, <1>11
<1>9. ASSUME NEW w \in Writes,
             pc[w] = "append", pc'[w] = "returned", \A v \in Writes \ {w} : pc'[v] = pc[v],
             session' = Append(session, Item("write", w)), UNCHANGED <<pending, deferred>>
      PROVE  Placed'
  <2>1. Item("write", w) \notin Range(session) /\ w \notin Range(deferred)  BY <1>3, <1>9 DEF PlacedOnce
  <2>2. Item("write", w) \in Entries  BY EntryTypes
  <2>3. Range(session') = Range(session) \cup {Item("write", w)}  BY <1>1, <1>9, <2>2, AppendRange
  <2>4. \A v \in Writes : Once(session', Item("write", v))
    BY <1>1, <1>3, <1>9, <2>1, <2>2, OnceAppend DEF PlacedOnce
  <2>5. \A v \in Writes : PlacedOnce(v)'
    BY <1>3, <1>5, <1>6, <1>9, <2>1, <2>3, <2>4 DEF PlacedOnce
  <2>6. Order(deferred, session')
    <3>1. \A i \in DOMAIN deferred : Item("write", deferred[i]) # Item("write", w)
      BY <1>6, <2>1 DEF Range
    <3> QED BY <1>1, <1>4, <1>9, <2>2, <3>1, AppendAt DEF Order
  <2> QED BY <1>2, <1>9, <2>5, <2>6, <1>11
<1>10. ASSUME NEW w \in Writes,
              pc[w] = "new", pc'[w] = "returned", \A v \in Writes \ {w} : pc'[v] = pc[v],
              deferred' = Append(deferred, w), pending' = Append(pending, w), session' = session
       PROVE  Placed'
  <2>1. Item("write", w) \notin Range(session) /\ w \notin Range(deferred) /\ w \notin Range(pending)
    BY <1>3, <1>5, <1>10 DEF PlacedOnce
  <2>2. Range(deferred') = Range(deferred) \cup {w} /\ Range(pending') = Range(pending) \cup {w}
    BY <1>1, <1>10, AppendRange
  <2>3. \A v \in Writes : Once(deferred', v) /\ Once(pending', v)
    BY <1>1, <1>3, <1>10, <2>1, OnceAppend DEF PlacedOnce
  <2>4. \A v \in Writes : PlacedOnce(v)'
    BY <1>3, <1>10, <2>1, <2>2, <2>3 DEF PlacedOnce
  <2>5. Order(deferred', session')
    <3>1. \A l \in DOMAIN session : session[l] # Item("write", w)  BY <2>1 DEF Range
    <3> QED BY <1>1, <1>4, <1>10, <3>1, AppendAt DEF Order
  <2>6. n \in 0..Len(deferred') /\ pending' = SubSeq(deferred', n + 1, Len(deferred'))
    <3>1. n \in 0..Len(deferred')  BY <1>1, <1>10, AppendAt
    <3>2. Append(SubSeq(deferred, n + 1, Len(deferred)), w)
            = SubSeq(Append(deferred, w), n + 1, Len(Append(deferred, w)))
      BY <1>1, SuffixAppend, ZenonT(30)
    <3> QED BY <1>2, <1>10, <3>1, <3>2
  <2> QED BY <2>4, <2>5, <2>6, <1>11
<1> QED BY <1>7, <1>8, <1>9, <1>10, WriteMoves

\* Counting what is there at most once.
LEMMA OccOnce ==
  ASSUME NEW s, NEW x, Once(s, x)
  PROVE  Occ(s, x) = IF x \in Range(s) THEN 1 ELSE 0
<1> DEFINE at == {i \in DOMAIN s : s[i] = x}
<1>1. CASE x \in Range(s)
  <2>1. PICK i \in DOMAIN s : s[i] = x  BY <1>1 DEF Range
  <2>2. at = {i}  BY <2>1 DEF Once
  <2> QED BY <1>1, <2>2, FS_Singleton DEF Occ
<1>2. CASE x \notin Range(s)
  <2>1. at = {}  BY <1>2 DEF Range
  <2> QED BY <1>2, <2>1, FS_EmptySet DEF Occ
<1> QED BY <1>1, <1>2

LEMMA PlacedGives == Placed /\ EndFlushed => WritesKept
<1> SUFFICES ASSUME Placed, EndFlushed PROVE WritesKept  OBVIOUS
<1>1. \A w \in Writes : PlacedOnce(w)  BY PlacedParts
<1>2. ASSUME NEW w \in Writes, pc[w] = "returned"
      PROVE  Occ(session, Item("write", w)) + Occ(pending, w) = 1
  <2>1. /\ Occ(session, Item("write", w)) = IF Item("write", w) \in Range(session) THEN 1 ELSE 0
        /\ Occ(pending, w) = IF w \in Range(pending) THEN 1 ELSE 0
    BY <1>1, OccOnce DEF PlacedOnce
  <2> QED BY <1>1, <1>2, <2>1 DEF PlacedOnce
<1> QED BY <1>2 DEF WritesKept, Placed, EndFlushed

(***************************************************************************)
(* The queues.                                                             *)
(***************************************************************************)
LEMMA HeldByNone ==
  ASSUME NEW places, NEW runs, NEW q, \A r \in Runs : places[r] # "queue_update"
  PROVE  HeldOf(places, runs, q) = <<>>
  BY DEF HeldOf

LEMMA HeldByOne ==
  ASSUME NEW places, NEW runs, NEW q, NEW r \in Runs, places[r] = "queue_update",
         \A x \in Runs \ {r} : places[x] # "queue_update"
  PROVE  HeldOf(places, runs, q) = IF runs[r].from = q THEN runs[r].drained ELSE <<>>
<1> DEFINE held == {x \in Runs : places[x] = "queue_update" /\ runs[x].from = q}
<1>1. CASE runs[r].from = q
  <2>1. held = {r}  BY <1>1
  <2>2. OneOf(held) = r  BY <2>1 DEF OneOf
  <2> QED BY <1>1, <2>1, <2>2 DEF HeldOf
<1>2. CASE runs[r].from # q
  <2>1. held = {}  BY <1>2
  <2> QED BY <1>2, <2>1 DEF HeldOf
<1> QED BY <1>1, <1>2

LEMMA Regroup ==
  ASSUME NEW S, NEW a \in Seq(S), NEW d \in Seq(S), NEW s \in Seq(S)
  PROVE  /\ ((a \o d) \o <<>>) \o s = (a \o d) \o s
         /\ (a \o <<>>) \o (d \o s) = (a \o d) \o s
<1>1. a \o d \in Seq(S)  BY ConcatProperties
<1>2. (a \o d) \o <<>> = a \o d /\ a \o <<>> = a  BY <1>1, ConcatEmptySeq
<1>3. a \o (d \o s) = (a \o d) \o s  BY ConcatAssociative
<1> QED BY <1>2, <1>3

LEMMA SplitOn ==
  ASSUME NEW S, NEW a \in Seq(S), NEW d \in Seq(S), NEW e \in Seq(S)
  PROVE  (a \o d) \o e = (a \o <<>>) \o (d \o e)
<1>1. a \o (d \o e) = (a \o d) \o e  BY ConcatAssociative
<1>2. a \o <<>> = a  BY ConcatEmptySeq
<1> QED BY <1>1, <1>2

LEMMA SplitQueue ==
  ASSUME NEW S, NEW a \in Seq(S), NEW s \in Seq(S)
  PROVE  \A n \in 1..Len(s) :
           /\ (a \o SubSeq(s, 1, n)) \o SubSeq(s, n + 1, Len(s)) = (a \o <<>>) \o s
           /\ SubSeq(s, 1, n) \in Seq(S) /\ SubSeq(s, n + 1, Len(s)) \in Seq(S)
<1>1. \A d, e \in Seq(S) : (a \o d) \o e = (a \o <<>>) \o (d \o e)  BY SplitOn
<1> TAKE n \in 1..Len(s)
<1> DEFINE x == SubSeq(s, 1, n)
           y == SubSeq(s, n + 1, Len(s))
<1>2. x \in Seq(S) /\ y \in Seq(S)  OBVIOUS
<1>3. x \o y = s
  <2>1. 1 \in 1..(Len(s) + 1) /\ n \in (1 - 1)..Len(s) /\ Len(s) \in n..Len(s)  OBVIOUS
  <2>2. x \o y = SubSeq(s, 1, Len(s))
    BY <2>1, ConcatAdjacentSubSeq
  <2> QED BY <2>2, SubSeqFull
<1> HIDE DEF x, y
<1>4. (a \o x) \o y = (a \o <<>>) \o s  BY <1>1, <1>2, <1>3
<1> QED BY <1>2, <1>4 DEF x, y

LEMMA ConcatRange ==
  ASSUME NEW S, NEW s \in Seq(S), NEW t \in Seq(S)
  PROVE  Range(s \o t) = Range(s) \cup Range(t)
<1>1. /\ Len(s \o t) = Len(s) + Len(t) /\ s \o t \in Seq(S) /\ Len(s) \in Nat /\ Len(t) \in Nat
      /\ \A i \in 1..(Len(s) + Len(t)) : (s \o t)[i] = IF i <= Len(s) THEN s[i] ELSE t[i - Len(s)]
  BY ConcatProperties, LenProperties
<1>2. DOMAIN s = 1..Len(s) /\ DOMAIN t = 1..Len(t) /\ DOMAIN (s \o t) = 1..(Len(s) + Len(t))
  BY <1>1, LenProperties
<1>3. ASSUME NEW i \in 1..Len(s) PROVE s[i] \in Range(s \o t)
  <2>1. i \in 1..(Len(s) + Len(t)) /\ (s \o t)[i] = s[i]  BY <1>1
  <2> QED BY <1>2, <2>1 DEF Range
<1>4. ASSUME NEW i \in 1..Len(t) PROVE t[i] \in Range(s \o t)
  <2>1. Len(s) + i \in 1..(Len(s) + Len(t)) /\ ~(Len(s) + i <= Len(s)) /\ (Len(s) + i) - Len(s) = i  BY <1>1
  <2>2. (s \o t)[Len(s) + i] = t[i]  BY <1>1, <2>1
  <2> QED BY <1>2, <2>1, <2>2 DEF Range
<1>5. ASSUME NEW i \in 1..(Len(s) + Len(t)) PROVE (s \o t)[i] \in Range(s) \cup Range(t)
  <2>1. CASE i <= Len(s)
    <3>1. i \in 1..Len(s) /\ (s \o t)[i] = s[i]  BY <1>1, <2>1
    <3> QED BY <1>2, <3>1 DEF Range
  <2>2. CASE ~(i <= Len(s))
    <3>1. i - Len(s) \in 1..Len(t) /\ (s \o t)[i] = t[i - Len(s)]  BY <1>1, <2>2
    <3> QED BY <1>2, <3>1 DEF Range
  <2> QED BY <2>1, <2>2
<1>6. Range(s \o t) \subseteq Range(s) \cup Range(t)  BY <1>2, <1>5 DEF Range
<1>7. Range(s) \cup Range(t) \subseteq Range(s \o t)  BY <1>2, <1>3, <1>4 DEF Range
<1> QED BY <1>6, <1>7

\* What remains is there once.
LEMMA RemainsOnce ==
  ASSUME NEW S, NEW part \in Seq(S), NEW whole \in Seq(S), NEW gone, Remains(part, whole, gone),
         NEW i \in DOMAIN part, NEW j \in DOMAIN part, part[i] = part[j]
  PROVE  i = j
<1>1. PICK k \in DOMAIN whole : part[i] = whole[k]  BY DEF Remains, Range
<1>2. ~(i < j) /\ ~(j < i)
  <2>1. \A x, y \in DOMAIN part, u, v \in DOMAIN whole :
          x < y /\ part[x] = whole[u] /\ part[y] = whole[v] => u < v
    BY DEF Remains
  <2>2. k \in DOMAIN whole /\ part[j] = whole[k]  BY <1>1
  <2>3. ASSUME i < j PROVE k < k  BY <1>1, <2>1, <2>2, <2>3
  <2>4. ASSUME j < i PROVE k < k  BY <1>1, <2>1, <2>2, <2>4
  <2>5. k \in Nat  BY <1>1
  <2> QED BY <2>3, <2>4, <2>5
<1>3. i \in Nat /\ j \in Nat  OBVIOUS
<1> QED BY <1>2, <1>3

\* A message is sent.
LEMMA RemainsMore ==
  ASSUME NEW S, NEW part \in Seq(S), NEW whole \in Seq(S), NEW gone, NEW e \in S,
         Remains(part, whole, gone), e \notin Range(whole), e \notin gone
  PROVE  Remains(Append(part, e), Append(whole, e), gone)
<1>1. Range(Append(part, e)) = Range(Append(whole, e)) \ gone  BY AppendRange DEF Remains
<1>2. e \notin Range(part)  BY DEF Remains
<1>3. \A i \in DOMAIN part : part[i] # e  BY <1>2 DEF Range
<1>4. \A k \in DOMAIN whole : whole[k] # e  BY DEF Range
<1> DEFINE p == Append(part, e)
           w == Append(whole, e)
<1>5. /\ DOMAIN part = 1..Len(part) /\ Len(part) \in Nat /\ DOMAIN p = 1..(Len(part) + 1)
      /\ p[Len(part) + 1] = e /\ \A i \in 1..Len(part) : p[i] = part[i]
  BY AppendAt
<1>6. /\ DOMAIN whole = 1..Len(whole) /\ Len(whole) \in Nat /\ DOMAIN w = 1..(Len(whole) + 1)
      /\ w[Len(whole) + 1] = e /\ \A i \in 1..Len(whole) : w[i] = whole[i]
  BY AppendAt
<1>7. \A i, j \in DOMAIN part, k, l \in DOMAIN whole :
        i < j /\ part[i] = whole[k] /\ part[j] = whole[l] => k < l
  BY DEF Remains
<1> HIDE DEF p, w
<1>8. ASSUME NEW i \in DOMAIN p, NEW j \in DOMAIN p, NEW k \in DOMAIN w, NEW l \in DOMAIN w,
             i < j, p[i] = w[k], p[j] = w[l]
      PROVE  k < l
  <2>1. i \in 1..Len(part) /\ p[i] = part[i] /\ p[i] # e  BY <1>3, <1>5, <1>6, <1>8
  <2>2. k # Len(whole) + 1 /\ l \in 1..(Len(whole) + 1) /\ k \in 1..(Len(whole) + 1)  BY <1>6, <1>8, <2>1
  <2>5. k \in 1..Len(whole)  BY <1>6, <2>2
  <2>6. w[k] = whole[k]  BY <1>6, <2>5
  <2>3. CASE l = Len(whole) + 1  BY <1>6, <2>3, <2>5
  <2>4. CASE l # Len(whole) + 1
    <3>1. l \in 1..Len(whole) /\ w[l] = whole[l] /\ w[l] # e  BY <1>4, <1>6, <2>2, <2>4
    <3>2. j \in 1..Len(part) /\ p[j] = part[j]  BY <1>5, <1>8, <3>1
    <3> QED BY <1>5, <1>6, <1>7, <1>8, <2>1, <2>5, <2>6, <3>1, <3>2
  <2> QED BY <2>3, <2>4
<1> QED BY <1>1, <1>8 DEF Remains, p, w

\* What is queued is cleared.
LEMMA RemainsLess ==
  ASSUME NEW S, NEW part \in Seq(S), NEW tail \in Seq(S), NEW whole \in Seq(S), NEW gone, NEW more,
         Remains(part \o tail, whole, gone),
         more \cap Range(whole) = (gone \cup Range(tail)) \cap Range(whole)
  PROVE  Remains(part, whole, more)
<1> DEFINE b == part \o tail
<1>1. /\ Len(b) = Len(part) + Len(tail) /\ b \in Seq(S) /\ Len(part) \in Nat /\ Len(tail) \in Nat
      /\ \A i \in 1..(Len(part) + Len(tail)) : b[i] = IF i <= Len(part) THEN part[i] ELSE tail[i - Len(part)]
  BY ConcatProperties, LenProperties
<1>2. DOMAIN part = 1..Len(part) /\ DOMAIN tail = 1..Len(tail) /\ DOMAIN b = 1..(Len(part) + Len(tail))
  BY <1>1, LenProperties
<1>3. Range(b) = Range(part) \cup Range(tail)  BY ConcatRange
<1>4. Remains(b, whole, gone)  OBVIOUS
<1> HIDE DEF b
<1>5. \A i \in 1..Len(part) : i \in DOMAIN b /\ b[i] = part[i]  BY <1>1, <1>2
<1>6. Range(part) \cap Range(tail) = {}
  <2> SUFFICES ASSUME NEW i \in 1..Len(part), NEW j \in 1..Len(tail), part[i] = tail[j] PROVE FALSE
    BY <1>2 DEF Range
  <2>1. Len(part) + j \in 1..(Len(part) + Len(tail)) /\ ~(Len(part) + j <= Len(part))
        /\ (Len(part) + j) - Len(part) = j
    BY <1>1
  <2>2. b[Len(part) + j] = tail[j] /\ Len(part) + j \in DOMAIN b  BY <1>1, <1>2, <2>1
  <2>3. i = Len(part) + j  BY <1>1, <1>4, <1>5, <2>2, RemainsOnce
  <2> QED BY <1>1, <2>3
<1>7. Range(part) = Range(whole) \ more
  <2>1. Range(b) = Range(whole) \ gone  BY <1>4 DEF Remains
  <2> QED BY <1>3, <1>6, <2>1
<1>8. \A i, j \in DOMAIN part, k, l \in DOMAIN whole :
        i < j /\ part[i] = whole[k] /\ part[j] = whole[l] => k < l
  BY <1>2, <1>4, <1>5 DEF Remains
<1> QED BY <1>7, <1>8 DEF Remains

\* What a run had in hand is lost.
LEMMA RemainsApart ==
  ASSUME NEW S, NEW a \in Seq(S), NEW d \in Seq(S), NEW s \in Seq(S), NEW whole \in Seq(S), NEW gone, NEW more,
         Remains((a \o d) \o s, whole, gone),
         more \cap Range(whole) = (gone \cup Range(d)) \cap Range(whole)
  PROVE  Remains((a \o <<>>) \o s, whole, more)
<1> DEFINE b == a \o d
           all == b \o s
           part == a \o s
<1>1. b \in Seq(S) /\ Len(b) = Len(a) + Len(d) /\ Len(a) \in Nat /\ Len(d) \in Nat /\ Len(s) \in Nat
      /\ \A i \in 1..(Len(a) + Len(d)) : b[i] = IF i <= Len(a) THEN a[i] ELSE d[i - Len(a)]
  BY ConcatProperties, LenProperties
<1>2. /\ part \in Seq(S) /\ Len(part) = Len(a) + Len(s)
      /\ \A i \in 1..(Len(a) + Len(s)) : part[i] = IF i <= Len(a) THEN a[i] ELSE s[i - Len(a)]
  BY ConcatProperties
<1>3. a \o <<>> = a  BY ConcatEmptySeq
<1>4. Range(b) = Range(a) \cup Range(d) /\ Range(part) = Range(a) \cup Range(s)  BY ConcatRange
<1>5. Remains(all, whole, gone)  OBVIOUS
<1> HIDE DEF b
<1>6. /\ all \in Seq(S) /\ Len(all) = Len(b) + Len(s)
      /\ \A i \in 1..(Len(b) + Len(s)) : all[i] = IF i <= Len(b) THEN b[i] ELSE s[i - Len(b)]
  <2>1. b \in Seq(S)  BY <1>1
  <2> QED BY <2>1, ConcatProperties
<1>7. Range(all) = Range(b) \cup Range(s)  BY <1>1, ConcatRange
<1> HIDE DEF all, part
<1>8. /\ DOMAIN all = 1..(Len(a) + Len(d) + Len(s)) /\ DOMAIN part = 1..(Len(a) + Len(s))
      /\ DOMAIN a = 1..Len(a) /\ DOMAIN d = 1..Len(d) /\ DOMAIN s = 1..Len(s)
  BY <1>1, <1>2, <1>6, LenProperties
<1>9. ASSUME NEW i \in 1..Len(a) PROVE i \in DOMAIN all /\ all[i] = a[i]
  <2>1. i \in 1..(Len(a) + Len(d)) /\ i \in 1..(Len(b) + Len(s)) /\ i <= Len(b) /\ i <= Len(a)  BY <1>1
  <2> QED BY <1>1, <1>6, <1>8, <2>1
<1>10. ASSUME NEW i \in 1..Len(d) PROVE Len(a) + i \in DOMAIN all /\ all[Len(a) + i] = d[i]
  <2>1. /\ Len(a) + i \in 1..(Len(a) + Len(d)) /\ Len(a) + i \in 1..(Len(b) + Len(s))
        /\ Len(a) + i <= Len(b) /\ ~(Len(a) + i <= Len(a)) /\ (Len(a) + i) - Len(a) = i
    BY <1>1
  <2>2. b[Len(a) + i] = d[i]  BY <1>1, <2>1
  <2> QED BY <1>1, <1>6, <1>8, <2>1, <2>2
<1>11. ASSUME NEW i \in 1..Len(s)
       PROVE  Len(a) + Len(d) + i \in DOMAIN all /\ all[Len(a) + Len(d) + i] = s[i]
  <2>1. /\ Len(b) + i \in 1..(Len(b) + Len(s)) /\ ~(Len(b) + i <= Len(b)) /\ (Len(b) + i) - Len(b) = i
        /\ Len(b) + i = Len(a) + Len(d) + i
    BY <1>1
  <2>2. all[Len(b) + i] = s[i]  BY <1>6, <2>1
  <2> QED BY <1>1, <1>8, <2>1, <2>2
<1>12. Range(d) \cap (Range(a) \cup Range(s)) = {}
  <2>1. \A i, j \in DOMAIN all : all[i] = all[j] => i = j  BY <1>5, <1>6, RemainsOnce
  <2>2. ASSUME NEW i \in 1..Len(d), NEW j \in 1..Len(a), d[i] = a[j] PROVE FALSE
    <3>1. Len(a) + i = j  BY <1>9, <1>10, <2>1, <2>2
    <3> QED BY <1>1, <3>1
  <2>3. ASSUME NEW i \in 1..Len(d), NEW j \in 1..Len(s), d[i] = s[j] PROVE FALSE
    <3>1. Len(a) + i = Len(a) + Len(d) + j  BY <1>10, <1>11, <2>1, <2>3
    <3> QED BY <1>1, <3>1
  <2> QED BY <1>8, <2>2, <2>3 DEF Range
<1>13. Range(part) = Range(whole) \ more
  <2>1. Range(all) = Range(whole) \ gone  BY <1>5 DEF Remains
  <2> QED BY <1>4, <1>7, <1>12, <2>1
<1> DEFINE at(i) == IF i <= Len(a) THEN i ELSE i + Len(d)
<1>14. \A i \in DOMAIN part : at(i) \in DOMAIN all /\ all[at(i)] = part[i]
  <2> TAKE i \in DOMAIN part
  <2>1. i \in 1..(Len(a) + Len(s))  BY <1>8
  <2>2. CASE i <= Len(a)
    <3>1. i \in 1..Len(a) /\ at(i) = i  BY <1>1, <2>1, <2>2
    <3>2. part[i] = a[i]  BY <1>2, <2>1, <2>2
    <3> QED BY <1>9, <3>1, <3>2
  <2>3. CASE ~(i <= Len(a))
    <3>1. i - Len(a) \in 1..Len(s) /\ at(i) = Len(a) + Len(d) + (i - Len(a))  BY <1>1, <2>1, <2>3
    <3>2. part[i] = s[i - Len(a)]  BY <1>2, <2>1, <2>3
    <3> QED BY <1>11, <3>1, <3>2
  <2> QED BY <2>2, <2>3
<1>15. \A i, j \in DOMAIN part : i < j => at(i) < at(j)  BY <1>1, <1>8
<1> HIDE DEF at
<1>16. \A i, j \in DOMAIN part, k, l \in DOMAIN whole :
         i < j /\ part[i] = whole[k] /\ part[j] = whole[l] => k < l
  BY <1>5, <1>14, <1>15 DEF Remains
<1>17. Remains(part, whole, more)  BY <1>13, <1>16 DEF Remains
<1> QED BY <1>3, <1>17 DEF part

LEMMA ThrowArray ==
  ASSUME Types, NEW r \in Runs, Throw(r)
  PROVE  run'[r].array = run[r].array
<1> DEFINE out == <<Item("failure", r)>>
           none == <<>>
<1>1. run[r].stage \in {"start", "loop", "failing", "final"}  BY DEF Types, RunType, RunRecord
<1>2. \/ run' = run
      \/ run' = [run EXCEPT ![r] = [run[r] EXCEPT !.stage = "failing", !.out = out, !.then = "turn_end",
                   !.reply = "failed", !.raised = FALSE, !.drained = none]]
      \/ run' = [run EXCEPT ![r] = [run[r] EXCEPT !.stage = "final", !.then = "final", !.failed = TRUE,
                   !.drained = none]]
  BY <1>1, ThrowMeans
<1> HIDE DEF out, none
<1>3. \/ run' = run
      \/ run'[r] = [run[r] EXCEPT !.stage = "failing", !.out = out, !.then = "turn_end",
                      !.reply = "failed", !.raised = FALSE, !.drained = none]
      \/ run'[r] = [run[r] EXCEPT !.stage = "final", !.then = "final", !.failed = TRUE, !.drained = none]
  BY <1>2 DEF Types, RunType
<1> QED BY <1>3, RunFields

\* What a step of a run does to the queues.
Passive(r) == /\ pc[r] # "queue_update" /\ pc'[r] # "queue_update"
              /\ UNCHANGED <<queue, announced>> /\ run'[r].array = run[r].array
Drains(r)  == /\ pc[r] # "queue_update" /\ UNCHANGED announced
              /\ \E q \in Queues : \E n \in 1..Len(queue[q]) : Drain(r, q, n)
Mailing(r) == \/ Passive(r) \/ Drains(r) \/ DrainAnnounced(r)
              \/ pc[r] = "queue_update" /\ Rejects(r)

LEMMA DrainsAll ==
  ASSUME Types, NEW q \in Queues, queue[q] # <<>>, NEW n \in {1, Len(queue[q])}
  PROVE  n \in 1..Len(queue[q])
<1>1. queue[q] \in Seq(Msgs)  BY DEF Types, QueueType
<1> QED BY <1>1, FrontPart

LEMMA RunMails ==
  ASSUME Types, Places, InHand, NEW r \in Runs, StartRun(r) \/ RunStep(r)
  PROVE  Mailing(r)
<1>1. ASSUME StartRun(r) PROVE Mailing(r)
  BY <1>1, RunFields DEF StartRun, Go, MayStart, Open, queues, store, abt, hist, Types, PlaceType,
     RunType, Ops, Places, RunPlace, Passive, Mailing
<1>2. ASSUME StateCreated(r) PROVE Mailing(r)
  <2>1. CASE queue["nextTurn"] # <<>>
    <3>1. "nextTurn" \in Queues  BY DEF Queues
    <3>2. Len(queue["nextTurn"]) \in 1..Len(queue["nextTurn"])  BY <2>1, <3>1, DrainsAll
    <3>3. Drains(r)  BY <1>2, <2>1, <3>1, <3>2 DEF StateCreated, Drains, hist
    <3> QED BY <3>3 DEF Mailing
  <2>2. CASE queue["nextTurn"] = <<>>
    BY <1>2, <2>2 DEF StateCreated, Go, hist, Types, PlaceType, Ops, Passive, Mailing
  <2> QED BY <2>1, <2>2
<1>3. ASSUME Unknown(r) PROVE Mailing(r)
  <2>1. Throw(r) /\ pc[r] # "queue_update" /\ UNCHANGED <<queue, announced>>
    BY <1>3 DEF Unknown, queues, hist
  <2> QED BY <2>1, ThrowEffect, ThrowArray DEF Passive, Mailing
<1>4. ASSUME BeforeStart(r) PROVE Mailing(r)
  BY <1>4, RunFields DEF BeforeStart, Go, FirstMessages, queues, store, abt, hist, Types,
     PlaceType, RunType, Ops, Places, RunPlace, Passive, Mailing
<1>5. ASSUME Appended(r) PROVE Mailing(r)
  BY <1>5, RunFields DEF Appended, Go, queues, ctl, abt, hist, Types, PlaceType, RunType, Ops,
     Places, RunPlace, Passive, Mailing
<1>6. ASSUME Notified(r) PROVE Mailing(r)
  BY <1>6, RunFields DEF Notified, Go, queues, store, ctl, abt, hist, Types, PlaceType, RunType,
     Ops, Places, RunPlace, Passive, Mailing
<1>7. ASSUME PollSteering(r) PROVE Mailing(r)
  <2>1. CASE Poll(r, "steer")
    <3>1. "steer" \in Queues  BY DEF Queues
    <3>2. PICK n \in {1, Len(queue["steer"])} : queue["steer"] # <<>> /\ Drain(r, "steer", n)
      BY <2>1 DEF Poll
    <3>3. n \in 1..Len(queue["steer"])  BY <3>1, <3>2, DrainsAll
    <3>4. Drains(r)  BY <1>7, <3>1, <3>2, <3>3 DEF PollSteering, Drains, hist
    <3> QED BY <3>4 DEF Mailing
  <2>2. CASE ~Poll(r, "steer")
    BY <1>7, <2>2, RunFields DEF PollSteering, Go, hist, Types, PlaceType, RunType, Ops, Passive, Mailing
  <2> QED BY <2>1, <2>2
<1>8. ASSUME PollFollowUp(r) PROVE Mailing(r)
  <2>1. CASE Poll(r, "followUp")
    <3>1. "followUp" \in Queues  BY DEF Queues
    <3>2. PICK n \in {1, Len(queue["followUp"])} : queue["followUp"] # <<>> /\ Drain(r, "followUp", n)
      BY <2>1 DEF Poll
    <3>3. n \in 1..Len(queue["followUp"])  BY <3>1, <3>2, DrainsAll
    <3>4. Drains(r)  BY <1>8, <3>1, <3>2, <3>3 DEF PollFollowUp, Drains, hist
    <3> QED BY <3>4 DEF Mailing
  <2>2. CASE ~Poll(r, "followUp")
    BY <1>8, <2>2, RunFields DEF PollFollowUp, Go, hist, Types, PlaceType, RunType, Ops, Passive, Mailing
  <2> QED BY <2>1, <2>2
<1>9. ASSUME DrainAnnounced(r) PROVE Mailing(r)
  BY <1>9 DEF Mailing
<1>10. ASSUME Replied(r) PROVE Mailing(r)
  BY <1>10, RunFields DEF Replied, Go, queues, store, ctl, abt, hist, Types, PlaceType, RunType,
     Ops, Places, RunPlace, Passive, Mailing
<1>11. ASSUME ToolsDone(r) PROVE Mailing(r)
  BY <1>11, RunFields DEF ToolsDone, Go, queues, store, ctl, abt, hist, Types, PlaceType, RunType,
     Ops, Places, RunPlace, Passive, Mailing
<1>12. ASSUME TurnEnd(r) PROVE Mailing(r)
  BY <1>12, RunFields DEF TurnEnd, Go, AnyFault, queues, store, ctl, abt, Types, PlaceType,
     RunType, Ops, Places, RunPlace, Passive, Mailing
<1>13. ASSUME SavePoint(r) PROVE Mailing(r)
  BY <1>13, RunFields DEF SavePoint, Go, FlushThen, queues, store, ctl, abt, hist, Types,
     PlaceType, RunType, Ops, Places, RunPlace, Passive, Mailing
<1>14. ASSUME Snapshot(r) PROVE Mailing(r)
  BY <1>14, RunFields DEF Snapshot, Go, queues, store, ctl, abt, hist, Types, PlaceType, RunType,
     Ops, Places, RunPlace, Passive, Mailing
<1>15. ASSUME AgentEnd(r) PROVE Mailing(r)
  BY <1>15, RunFields DEF AgentEnd, Go, queues, store, ctl, abt, hist, Types, PlaceType, RunType,
     Ops, Places, RunPlace, Passive, Mailing
<1>16. ASSUME Settled(r) PROVE Mailing(r)
  BY <1>16, RunFields DEF Settled, Go, queues, store, ctl, abt, hist, Types, PlaceType, RunType,
     Ops, Places, RunPlace, Passive, Mailing
<1>17. ASSUME FlushNext(r) PROVE Mailing(r)
  BY <1>17, RunFields DEF FlushNext, Go, queues, store, ctl, abt, hist, Types, PlaceType, RunType,
     Ops, Places, RunPlace, Passive, Mailing
<1>18. ASSUME Flushed(r) PROVE Mailing(r)
  BY <1>18, RunFields DEF Flushed, Go, Shifted, queues, ctl, abt, hist, Types, PlaceType, RunType,
     Ops, Places, RunPlace, Passive, Mailing
<1>19. ASSUME FlushDone(r) PROVE Mailing(r)
  <2>1. pc[r] # "queue_update" /\ UNCHANGED <<queue, announced>>  BY <1>19 DEF FlushDone, queues, hist
  <2>2. CASE Throw(r)  BY <2>1, <2>2, ThrowEffect, ThrowArray DEF Passive, Mailing
  <2>3. CASE ~Throw(r)
    <3>1. UNCHANGED run /\ (Go(r, run[r].then) \/ Go(r, "returned"))  BY <1>19, <2>3 DEF FlushDone, Finish
    <3>2. run[r].then # "queue_update"  BY <1>19 DEF FlushDone, Places, RunPlace
    <3> QED BY <2>1, <3>1, <3>2 DEF Go, Types, PlaceType, Ops, Passive, Mailing
  <2> QED BY <2>2, <2>3
<1>20. ASSUME Rejects(r) PROVE Mailing(r)
  <2>1. CASE pc[r] = "queue_update"  BY <1>20, <2>1 DEF Mailing
  <2>2. CASE pc[r] # "queue_update"
    <3>1. Throw(r) /\ UNCHANGED <<queue, announced>>  BY <1>20, <2>2 DEF Rejects
    <3> QED BY <2>2, <3>1, ThrowEffect, ThrowArray DEF Passive, Mailing
  <2> QED BY <2>1, <2>2
<1> QED
  BY <1>1, <1>2, <1>3, <1>4, <1>5, <1>6, <1>7, <1>8, <1>9, <1>10, <1>11, <1>12, <1>13, <1>14,
     <1>15, <1>16, <1>17, <1>18, <1>19, <1>20 DEF RunStep

LEMMA FaultsGrow == Types /\ Types' /\ [Next]_vars => faults \in Nat /\ faults' \in Nat /\ faults <= faults'
<1> SUFFICES ASSUME Types, Types', [Next]_vars PROVE faults \in Nat /\ faults' \in Nat /\ faults <= faults'
  OBVIOUS
<1>1. faults \in Nat /\ faults' \in Nat  BY HarnessAssumption DEF Types, AbortType
<1>2. faults' = faults \/ faults' = faults + 1
  <2>1. ASSUME NEW r \in Runs, StartRun(r) \/ RunStep(r) PROVE faults' = faults \/ faults' = faults + 1
    BY <2>1 DEF StartRun, RunStep, StateCreated, Unknown, BeforeStart, Appended, Notified, PollSteering,
       PollFollowUp, DrainAnnounced, Replied, ToolsDone, TurnEnd, SavePoint, Snapshot, AgentEnd, Settled,
       FlushNext, Flushed, FlushDone, Rejects, AnyFault, hist
  <2>2. ASSUME NEW s \in Structs, StartStruct(s) \/ StructStep(s) PROVE faults' = faults \/ faults' = faults + 1
    BY <2>2 DEF StartStruct, StructStep, Prepared, StructAppended, StructEnds, AnyFault, hist
  <2>3. ASSUME NEW w \in Writes, WriteWhenIdle(w) \/ WriteWhenBusy(w) \/ WriteAppended(w)
        PROVE  faults' = faults \/ faults' = faults + 1
    BY <2>3 DEF WriteWhenIdle, WriteWhenBusy, WriteAppended, AnyFault, hist
  <2>4. ASSUME NEW m \in Msgs, Send(m) PROVE faults' = faults  BY <2>4 DEF Send
  <2>5. ASSUME NEW a \in Aborts, Abort(a) \/ AbortStep(a) PROVE faults' = faults
    BY <2>5 DEF Abort, AbortStep, AbortAnnounced, AbortReturns, hist
  <2>6. CASE UNCHANGED vars  BY <2>6 DEF vars, hist
  <2> QED BY <2>1, <2>2, <2>3, <2>4, <2>5, <2>6 DEF Next
<1> QED BY <1>1, <1>2

\* Only one run has messages in hand, and no other takes a step then.
LEMMA Alone ==
  ASSUME Types, Places, Control, NEW r \in Runs, StartRun(r) \/ RunStep(r), NEW x \in Runs \ {r}
  PROVE  pc[x] # "queue_update"
<1> SUFFICES ASSUME pc[x] = "queue_update" PROVE FALSE  OBVIOUS
<1>1. run[x].stage \in {"start", "loop"}  BY DEF Places, RunPlace, Types, RunType, RunRecord
<1>2. Open(x) /\ Early(x)  BY <1>1 DEF Open, Early
<1>3. phase = "turn"  BY <1>2 DEF Control
<1>4. CASE StartRun(r)  BY <1>3, <1>4 DEF StartRun, MayStart
<1>5. CASE RunStep(r)
  <2>1. Open(r)
    BY <1>5 DEF RunStep, StateCreated, Unknown, BeforeStart, Appended, Notified, PollSteering,
       PollFollowUp, DrainAnnounced, Replied, ToolsDone, TurnEnd, SavePoint, Snapshot, AgentEnd, Settled,
       FlushNext, Flushed, FlushDone, Rejects, Awaiting, Open
  <2> QED BY <1>2, <2>1 DEF Control, Working
<1> QED BY <1>4, <1>5

LEMMA HeldBy ==
  ASSUME NEW places, NEW runs, NEW q, NEW r \in Runs, \A x \in Runs \ {r} : places[x] # "queue_update"
  PROVE  HeldOf(places, runs, q) =
           IF places[r] = "queue_update" /\ runs[r].from = q THEN runs[r].drained ELSE <<>>
<1>1. CASE places[r] = "queue_update"  BY <1>1, HeldByOne
<1>2. CASE places[r] # "queue_update"
  <2>1. \A x \in Runs : places[x] # "queue_update"  BY <1>2
  <2> QED BY <1>2, <2>1, HeldByNone
<1> QED BY <1>1, <1>2

LEMMA HeldSame ==
  ASSUME NEW places, NEW after, NEW runs, NEW q, \A x \in Runs : places[x] = after[x]
  PROVE  HeldOf(places, runs, q) = HeldOf(after, runs, q)
<1>1. {x \in Runs : places[x] = "queue_update" /\ runs[x].from = q}
      = {x \in Runs : after[x] = "queue_update" /\ runs[x].from = q}
  OBVIOUS
<1> QED BY <1>1 DEF HeldOf

LEMMA CarriedType ==
  ASSUME Types, InHand, NEW q \in Queues
  PROVE  Carried(q) \in Seq(Msgs) /\ announced[q] \in Seq(Msgs) /\ queue[q] \in Seq(Msgs) /\ sent[q] \in Seq(Msgs)
<1> DEFINE held == {x \in Runs : pc[x] = "queue_update" /\ run[x].from = q}
<1>1. announced[q] \in Seq(Msgs) /\ queue[q] \in Seq(Msgs) /\ sent[q] \in Seq(Msgs)  BY DEF Types, QueueType
<1>2. CASE held = {}
  <2>1. Carried(q) = <<>>  BY <1>2 DEF Carried, HeldOf
  <2> QED BY <1>1, <2>1
<1>3. CASE held # {}
  <2>1. OneOf(held) \in held  BY <1>3 DEF OneOf
  <2>2. Carried(q) = run[OneOf(held)].drained  BY <1>3 DEF Carried, HeldOf
  <2>3. \A x \in held : run[x].drained \in Seq(Msgs)  BY DEF InHand, Hand
  <2> QED BY <1>1, <2>1, <2>2, <2>3
<1> QED BY <1>2, <1>3

FifoAt(q) == Remains(Live(q), sent[q], cleared)

LEMMA FifoRun ==
  ASSUME Types, Places, Control, InHand, Sent, Fifo,
         NEW r \in Runs, StartRun(r) \/ RunStep(r), NEW q \in Queues
  PROVE  FifoAt(q)'
<1>1. /\ Carried(q) = IF pc[r] = "queue_update" /\ run[r].from = q THEN run[r].drained ELSE <<>>
      /\ Carried(q)' = IF pc'[r] = "queue_update" /\ run'[r].from = q THEN run'[r].drained ELSE <<>>
  <2>1. \A x \in Runs \ {r} : pc[x] # "queue_update"  BY Alone
  <2>2. \A x \in Runs \ {r} : pc'[x] # "queue_update"  BY <2>1, RunFrame DEF Aside, Ops
  <2> QED BY <2>1, <2>2, HeldBy DEF Carried
<1>2. UNCHANGED sent /\ ((pc[r] = "queue_update" /\ Rejects(r)) \/ cleared' = cleared)  BY RunFrame DEF Aside
<1>3. FifoAt(q)  BY DEF Fifo, FifoAt
<1>4. Live(q)' = Live(q) /\ cleared' = cleared => FifoAt(q)'  BY <1>2, <1>3 DEF FifoAt
<1>5. /\ Live(q) = (announced[q] \o Carried(q)) \o queue[q]
      /\ Live(q)' = (announced'[q] \o Carried(q)') \o queue'[q]
  BY DEF Live
<1>6. Carried(q) \in Seq(Msgs) /\ announced[q] \in Seq(Msgs) /\ queue[q] \in Seq(Msgs)  BY CarriedType
<1>11. \A n \in 1..Len(queue[q]) :
         (announced[q] \o SubSeq(queue[q], 1, n)) \o SubSeq(queue[q], n + 1, Len(queue[q]))
         = (announced[q] \o <<>>) \o queue[q]
  <2> DEFINE a == announced[q]
             s == queue[q]
  <2>1. a \in Seq(Msgs) /\ s \in Seq(Msgs)  BY <1>6
  <2> HIDE DEF a, s
  <2>2. \A n \in 1..Len(s) : (a \o SubSeq(s, 1, n)) \o SubSeq(s, n + 1, Len(s)) = (a \o <<>>) \o s
    BY <2>1, SplitQueue
  <2> QED BY <2>2 DEF a, s
<1>12. /\ ((announced[q] \o Carried(q)) \o <<>>) \o queue[q] = (announced[q] \o Carried(q)) \o queue[q]
       /\ (announced[q] \o <<>>) \o (Carried(q) \o queue[q]) = (announced[q] \o Carried(q)) \o queue[q]
  <2> DEFINE a == announced[q]
             d == Carried(q)
             s == queue[q]
  <2>1. a \in Seq(Msgs) /\ d \in Seq(Msgs) /\ s \in Seq(Msgs)  BY <1>6
  <2> HIDE DEF a, d, s
  <2>2. ((a \o d) \o <<>>) \o s = (a \o d) \o s /\ (a \o <<>>) \o (d \o s) = (a \o d) \o s
    BY <2>1, Regroup
  <2> QED BY <2>2 DEF a, d, s
<1>7. CASE Passive(r)  BY <1>1, <1>2, <1>4, <1>5, <1>7 DEF Passive
<1>8. CASE Drains(r)
  <2>1. PICK p \in Queues : \E n \in 1..Len(queue[p]) : Drain(r, p, n)  BY <1>8 DEF Drains
  <2>2. PICK n \in 1..Len(queue[p]) : Drain(r, p, n)  BY <2>1
  <2>3. /\ pc'[r] = "queue_update" /\ run'[r].from = p /\ run'[r].drained = SubSeq(queue[p], 1, n)
        /\ announced' = announced /\ Carried(q) = <<>> /\ cleared' = cleared
    BY <1>1, <1>2, <1>8, <2>2, DrainEffect DEF Drains
  <2>6. queue' = [queue EXCEPT ![p] = SubSeq(queue[p], n + 1, Len(queue[p]))]  BY <2>2 DEF Drain
  <2>4. CASE q = p
    <3>1. queue'[q] = SubSeq(queue[q], n + 1, Len(queue[q]))  BY <2>4, <2>6 DEF Types, QueueType
    <3>2. Carried(q)' = SubSeq(queue[q], 1, n)  BY <1>1, <2>3, <2>4
    <3>3. (announced[q] \o SubSeq(queue[q], 1, n)) \o SubSeq(queue[q], n + 1, Len(queue[q]))
          = (announced[q] \o <<>>) \o queue[q]
      BY <1>11, <2>4
    <3> QED BY <1>4, <1>5, <2>3, <3>1, <3>2, <3>3
  <2>5. CASE q # p
    <3>1. queue'[q] = queue[q] /\ Carried(q)' = <<>>  BY <1>1, <2>3, <2>5, <2>6 DEF Types, QueueType
    <3> QED BY <1>4, <1>5, <2>3, <3>1
  <2> QED BY <2>4, <2>5
<1>9. CASE DrainAnnounced(r)
  <2>1. /\ pc[r] = "queue_update" /\ pc'[r] # "queue_update" /\ queue' = queue /\ cleared' = cleared
        /\ announced' = [announced EXCEPT ![run[r].from] = announced[run[r].from] \o run[r].drained]
    BY <1>9 DEF DrainAnnounced, Go, Types, PlaceType, Ops, queues, abt
  <2>2. Carried(q)' = <<>>  BY <1>1, <2>1
  <2>3. CASE q = run[r].from
    <3>1. announced'[q] = announced[q] \o Carried(q)  BY <1>1, <2>1, <2>3 DEF Types, QueueType
    <3>2. ((announced[q] \o Carried(q)) \o <<>>) \o queue[q] = (announced[q] \o Carried(q)) \o queue[q]
      BY <1>12
    <3> QED BY <1>4, <1>5, <2>1, <2>2, <3>1, <3>2
  <2>4. CASE q # run[r].from
    <3>1. announced'[q] = announced[q] /\ Carried(q) = <<>>  BY <1>1, <2>1, <2>4 DEF Types, QueueType
    <3> QED BY <1>4, <1>5, <2>1, <2>2, <3>1
  <2> QED BY <2>3, <2>4
<1>10. CASE pc[r] = "queue_update" /\ Rejects(r)
  <2>1. /\ Throw(r) /\ queue' = RolledBack(r) /\ announced' = announced
        /\ cleared' = cleared \cup (IF Replaced(r) THEN Range(run[r].drained) ELSE {})
    BY <1>10 DEF Rejects
  <2>2. pc'[r] # "queue_update" /\ Carried(q)' = <<>>  BY <1>1, <2>1, ThrowEffect
  <2>3. CASE Replaced(r)
    <3>1. queue' = queue /\ cleared' = cleared \cup Range(run[r].drained)  BY <2>1, <2>3 DEF RolledBack
    <3>2. Live(q)' = (announced[q] \o <<>>) \o queue[q]  BY <1>5, <2>1, <2>2, <3>1
    <3>3. CASE q = run[r].from
      <4> DEFINE a == announced[q]
                 d == Carried(q)
                 s == queue[q]
                 more == cleared'
      <4>1. a \in Seq(Msgs) /\ d \in Seq(Msgs) /\ s \in Seq(Msgs) /\ sent[q] \in Seq(Msgs)
        BY <1>6 DEF Types, QueueType
      <4>2. Remains((a \o d) \o s, sent[q], cleared)  BY <1>3, <1>5 DEF FifoAt
      <4>3. more = cleared \cup Range(d)  BY <1>1, <1>10, <3>1, <3>3
      <4> HIDE DEF a, d, s, more
      <4>4. Remains((a \o <<>>) \o s, sent[q], more)  BY <4>1, <4>2, <4>3, RemainsApart
      <4> QED BY <1>2, <3>2, <4>4 DEF FifoAt, a, s, more
    <3>4. CASE q # run[r].from
      <4>1. Carried(q) = <<>>  BY <1>1, <3>4
      <4>2. Live(q)' = Live(q)  BY <1>5, <3>2, <4>1
      <4>3. Range(run[r].drained) \cap Range(sent[q]) = {}
        <5>1. Range(run[r].drained) \subseteq Range(sent[run[r].from])  BY <1>10 DEF Sent
        <5>2. sent[q] \in Seq(Msgs) /\ run[r].from \in Queues
          BY DEF Types, QueueType, RunType, RunRecord
        <5>3. Range(sent[q]) \subseteq Msgs  BY <5>2 DEF Range
        <5>4. \A m \in Msgs : m \in Range(sent[q]) => m \notin Range(sent[run[r].from])
          BY <3>4, <5>2 DEF Sent
        <5> QED BY <5>1, <5>3, <5>4
      <4>4. Range(sent[q]) \ cleared' = Range(sent[q]) \ cleared  BY <3>1, <4>3
      <4> QED BY <1>2, <1>3, <4>2, <4>4 DEF FifoAt, Remains
    <3> QED BY <3>3, <3>4
  <2>4. CASE ~Replaced(r)
    <3>1. /\ queue' = [queue EXCEPT ![run[r].from] = run[r].drained \o queue[run[r].from]]
          /\ cleared' = cleared
      BY <2>1, <2>4 DEF RolledBack
    <3>2. CASE q = run[r].from
      <4>1. queue'[q] = Carried(q) \o queue[q]  BY <1>1, <1>10, <3>1, <3>2 DEF Types, QueueType
      <4>2. (announced[q] \o <<>>) \o (Carried(q) \o queue[q]) = (announced[q] \o Carried(q)) \o queue[q]
        BY <1>12
      <4> QED BY <1>4, <1>5, <2>1, <2>2, <3>1, <4>1, <4>2
    <3>3. CASE q # run[r].from
      <4>1. queue'[q] = queue[q] /\ Carried(q) = <<>>  BY <1>1, <3>1, <3>3 DEF Types, QueueType
      <4> QED BY <1>4, <1>5, <2>1, <2>2, <3>1, <4>1
    <3> QED BY <3>2, <3>3
  <2> QED BY <2>3, <2>4
<1> QED BY <1>7, <1>8, <1>9, <1>10, RunMails DEF Mailing

LEMMA ConcatAppend ==
  ASSUME NEW S, NEW s \in Seq(S), NEW t \in Seq(S), NEW e \in S
  PROVE  s \o Append(t, e) = Append(s \o t, e)
<1>1. <<e>> \in Seq(S) /\ s \o t \in Seq(S)  BY ConcatProperties
<1>2. Append(t, e) = t \o <<e>>  BY AppendIsConcat
<1>3. Append(s \o t, e) = (s \o t) \o <<e>>  BY <1>1, AppendIsConcat
<1>4. (s \o t) \o <<e>> = s \o (t \o <<e>>)
  <2> DEFINE u == <<e>>
  <2>1. u \in Seq(S)  BY <1>1
  <2> HIDE DEF u
  <2>2. (s \o t) \o u = s \o (t \o u)  BY <2>1, ConcatAssociative
  <2> QED BY <2>2 DEF u
<1> QED BY <1>2, <1>3, <1>4

\* Other steps: messages are sent and cleared.
LEMMA OthersMail ==
  ASSUME Types, NEW o \in Ops \ Runs,
         \/ o \in Structs /\ (StartStruct(o) \/ StructStep(o))
         \/ o \in Writes /\ (WriteWhenIdle(o) \/ WriteWhenBusy(o) \/ WriteAppended(o))
         \/ o \in Msgs /\ Send(o)
         \/ o \in Aborts /\ (Abort(o) \/ AbortStep(o))
  PROVE  /\ UNCHANGED <<run, announced>> /\ \A x \in Runs : pc'[x] = pc[x]
         /\ \/ UNCHANGED <<queue, sent, cleared, arrays>> /\ \A m \in Msgs : pc'[m] = pc[m]
            \/ o \in Msgs /\ Send(o) /\ pc'[o] = "returned" /\ \A m \in Msgs \ {o} : pc'[m] = pc[m]
            \/ o \in Aborts /\ Abort(o) /\ \A m \in Msgs : pc'[m] = pc[m]
<1>1. run' = run /\ \A x \in Ops \ {o} : pc'[x] = pc[x]  BY OtherFrame
<1>2. announced' = announced
  BY HarnessAssumption DEF StartStruct, StructStep, Prepared, StructAppended, StructEnds, WriteWhenIdle,
     WriteWhenBusy, WriteAppended, Send, Abort, AbortStep, AbortAnnounced, AbortReturns, hist
<1>3. CASE o \in Msgs /\ Send(o)
  <2>1. pc'[o] = "returned"  BY <1>3 DEF Send, Go, Types, PlaceType, Ops
  <2> QED BY <1>1, <1>2, <1>3, <2>1 DEF Ops
<1>4. CASE o \in Aborts /\ Abort(o)
  BY <1>1, <1>2, <1>4, HarnessAssumption DEF Ops
<1>5. CASE ~(o \in Msgs /\ Send(o)) /\ ~(o \in Aborts /\ Abort(o))
  <2>1. UNCHANGED <<queue, sent, cleared, arrays>>
    BY <1>5 DEF StartStruct, StructStep, Prepared, StructAppended, StructEnds, WriteWhenIdle,
       WriteWhenBusy, WriteAppended, AbortStep, AbortAnnounced, AbortReturns, hist, abt, queues
  <2>2. o \notin Msgs  BY <1>5, HarnessAssumption
  <2> QED BY <1>1, <1>2, <2>1, <2>2 DEF Ops
<1> QED BY <1>3, <1>4, <1>5

LEMMA FifoOther ==
  ASSUME Types, InHand, Sent, Fifo, NEW q \in Queues, NEW o \in Ops \ Runs,
         \/ o \in Structs /\ (StartStruct(o) \/ StructStep(o))
         \/ o \in Writes /\ (WriteWhenIdle(o) \/ WriteWhenBusy(o) \/ WriteAppended(o))
         \/ o \in Msgs /\ Send(o)
         \/ o \in Aborts /\ (Abort(o) \/ AbortStep(o))
  PROVE  FifoAt(q)'
<1>1. UNCHANGED <<run, announced>> /\ \A x \in Runs : pc'[x] = pc[x]  BY OthersMail
<1>2. Carried(q)' = Carried(q)
  <2>1. HeldOf(pc', run, q) = HeldOf(pc, run, q)  BY <1>1, HeldSame
  <2> QED BY <1>1, <2>1 DEF Carried
<1>3. FifoAt(q)  BY DEF Fifo, FifoAt
<1>4. Carried(q) \in Seq(Msgs) /\ announced[q] \in Seq(Msgs) /\ queue[q] \in Seq(Msgs) /\ sent[q] \in Seq(Msgs)
  BY CarriedType
<1> DEFINE front == announced[q] \o Carried(q)
<1>5. front \in Seq(Msgs)  BY <1>4, ConcatProperties
<1>6. Live(q) = front \o queue[q] /\ Live(q)' = front \o queue'[q]  BY <1>1, <1>2 DEF Live
<1>7. front \o queue[q] \in Seq(Msgs)  BY <1>4, <1>5, ConcatProperties
<1> HIDE DEF front
<1>8. CASE UNCHANGED <<queue, sent, cleared, arrays>>  BY <1>3, <1>6, <1>8 DEF FifoAt
<1>9. CASE o \in Msgs /\ Send(o)
  <2>1. PICK p \in Queues :
          /\ pc[o] = "new" /\ UNCHANGED cleared
          /\ queue' = [queue EXCEPT ![p] = Append(queue[p], o)]
          /\ sent' = [sent EXCEPT ![p] = Append(sent[p], o)]
    BY <1>9 DEF Send, queues, abt
  <2>2. CASE q = p
    <3>1. queue'[q] = Append(queue[q], o) /\ sent'[q] = Append(sent[q], o)
      BY <2>1, <2>2 DEF Types, QueueType
    <3>2. o \notin Range(sent[q]) /\ o \notin cleared
      BY <1>9, <2>1 DEF Sent
    <3>5. front \o Append(queue[q], o) = Append(front \o queue[q], o)  BY <1>4, <1>5, <1>9, ConcatAppend
    <3>3. Live(q)' = Append(Live(q), o)  BY <1>6, <3>1, <3>5
    <3>4. Remains(Live(q), sent[q], cleared) => Remains(Append(Live(q), o), Append(sent[q], o), cleared)
      BY <1>4, <1>6, <1>7, <1>9, <3>2, RemainsMore
    <3> QED BY <1>3, <2>1, <3>1, <3>3, <3>4 DEF FifoAt
  <2>3. CASE q # p
    <3>1. queue'[q] = queue[q] /\ sent'[q] = sent[q]  BY <2>1, <2>3 DEF Types, QueueType
    <3> QED BY <1>3, <1>6, <2>1, <3>1 DEF FifoAt
  <2> QED BY <2>2, <2>3
<1>10. CASE o \in Aborts /\ Abort(o)
  <2>1. /\ cleared' = cleared \cup Range(queue["steer"]) \cup Range(queue["followUp"])
        /\ queue' = [queue EXCEPT !["steer"] = <<>>, !["followUp"] = <<>>]
        /\ sent' = sent
    BY <1>10 DEF Abort, hist
  <2>2. \A p \in Queues : Range(queue[p]) \subseteq Range(sent[p])  BY DEF Sent
  <2>3. \A p \in Queues : \A m \in Msgs : p # q /\ m \in Range(sent[q]) => m \notin Range(sent[p])
    BY DEF Sent
  <2>4. \A p \in Queues : \A m \in Range(queue[p]) : m \in Msgs
    <3>1. \A p \in Queues : queue[p] \in Seq(Msgs)  BY DEF Types, QueueType
    <3> QED BY <3>1 DEF Range
  <2>5. \A p \in Queues \ {q} : Range(queue[p]) \cap Range(sent[q]) = {}  BY <2>2, <2>3, <2>4
  <2>6. Remains(front \o queue[q], sent[q], cleared) => Remains(Live(q)', sent[q], cleared')
    <3> SUFFICES ASSUME Remains(front \o queue[q], sent[q], cleared) PROVE Remains(Live(q)', sent[q], cleared')
      OBVIOUS
    <3>1. CASE q \in {"steer", "followUp"}
      <4>1. queue'[q] = <<>>  BY <2>1, <3>1 DEF Types, QueueType
      <4>2. Live(q)' = front  BY <1>5, <1>6, <4>1, ConcatEmptySeq
      <4>3. cleared' \cap Range(sent[q]) = (cleared \cup Range(queue[q])) \cap Range(sent[q])
        <5>1. {"steer", "followUp"} \subseteq Queues  BY DEF Queues
        <5> QED BY <2>1, <2>5, <3>1, <5>1
      <4> QED BY <1>4, <1>5, <4>2, <4>3, RemainsLess
    <3>2. CASE q = "nextTurn"
      <4>1. queue'[q] = queue[q]  BY <2>1, <3>2 DEF Types, QueueType
      <4>2. cleared' \cap Range(sent[q]) = cleared \cap Range(sent[q])
        <5>1. {"steer", "followUp"} \subseteq Queues \ {q}  BY <3>2 DEF Queues
        <5> QED BY <2>1, <2>5, <5>1
      <4>3. Range(sent[q]) \ cleared' = Range(sent[q]) \ cleared  BY <4>2
      <4> QED BY <1>6, <4>1, <4>3 DEF Remains
    <3> QED BY <3>1, <3>2 DEF Queues
  <2> QED BY <1>3, <1>6, <2>1, <2>6 DEF FifoAt
<1> QED BY <1>8, <1>9, <1>10, OthersMail

LEMMA FifoStep == Types /\ Places /\ Control /\ InHand /\ Sent /\ Fifo /\ [Next]_vars => Fifo'
<1> SUFFICES ASSUME Types, Places, Control, InHand, Sent, Fifo, [Next]_vars, NEW q \in Queues
             PROVE  FifoAt(q)'
  BY DEF Fifo, FifoAt
<1>1. ASSUME NEW r \in Runs, StartRun(r) \/ RunStep(r) PROVE FifoAt(q)'  BY <1>1, FifoRun
<1>2. ASSUME NEW o \in Ops \ Runs,
             \/ o \in Structs /\ (StartStruct(o) \/ StructStep(o))
             \/ o \in Writes /\ (WriteWhenIdle(o) \/ WriteWhenBusy(o) \/ WriteAppended(o))
             \/ o \in Msgs /\ Send(o)
             \/ o \in Aborts /\ (Abort(o) \/ AbortStep(o))
      PROVE FifoAt(q)'
  BY <1>2, FifoOther
<1>3. CASE UNCHANGED vars
  BY <1>3 DEF vars, queues, abt, hist, Fifo, FifoAt, Live, Carried
<1> QED BY <1>1, <1>2, <1>3, HarnessAssumption DEF Next, Ops

\* Sent, in parts.
SentOnce(q, m) == /\ Once(sent[q], m)
                  /\ m \in Range(sent[q]) => pc[m] = "returned" /\ \A p \in Queues \ {q} : m \notin Range(sent[p])
InSent(r)      == /\ run[r].array <= arrays
                  /\ pc[r] = "queue_update" => Range(run[r].drained) \subseteq Range(sent[run[r].from])

LEMMA SentParts ==
  Sent <=> /\ \A q \in Queues : \A m \in Msgs : SentOnce(q, m)
           /\ \A q \in Queues : Range(queue[q]) \subseteq Range(sent[q])
           /\ \A r \in Runs : InSent(r)
           /\ cleared \subseteq UNION {Range(sent[q]) : q \in Queues}
  BY DEF Sent, SentOnce, InSent

LEMMA PartRange ==
  ASSUME NEW S, NEW s \in Seq(S), NEW n \in 1..Len(s)
  PROVE  Range(SubSeq(s, 1, n)) \subseteq Range(s) /\ Range(SubSeq(s, n + 1, Len(s))) \subseteq Range(s)
<1>1. \A i \in 1..n : SubSeq(s, 1, n)[i] = s[i] /\ i \in DOMAIN s  OBVIOUS
<1>2. DOMAIN SubSeq(s, 1, n) = 1..n  OBVIOUS
<1>3. n \in 0..Len(s)  OBVIOUS
<1>4. \A i \in (n + 1)..Len(s) : i \in DOMAIN s  OBVIOUS
<1> QED BY <1>1, <1>2, <1>3, <1>4, Suffix DEF Range

LEMMA SentRun ==
  ASSUME Types, Places, InHand, Sent, NEW r \in Runs, StartRun(r) \/ RunStep(r)
  PROVE  Sent'
<1>1. Aside(r)  BY RunFrame
<1>2. UNCHANGED <<sent, arrays>> /\ \A m \in Msgs : pc'[m] = pc[m]
  BY <1>1, HarnessAssumption DEF Aside, Ops
<1>3. \A q \in Queues : \A m \in Msgs : SentOnce(q, m)'  BY <1>2, SentParts DEF SentOnce
<1>4. \A x \in Runs \ {r} : InSent(x)'  BY <1>1, SentParts DEF Aside, InSent, Ops
<1>5. cleared' \subseteq UNION {Range(sent'[q]) : q \in Queues}
  <2>1. CASE pc[r] = "queue_update" /\ Rejects(r)
    <3>1. Range(run[r].drained) \subseteq Range(sent[run[r].from]) /\ run[r].from \in Queues
      BY <2>1, SentParts DEF InSent, Types, RunType, RunRecord
    <3>2. cleared' \subseteq cleared \cup Range(run[r].drained)  BY <2>1 DEF Rejects
    <3> QED BY <1>2, <3>1, <3>2, SentParts
  <2>2. CASE cleared' = cleared  BY <1>2, <2>2, SentParts
  <2> QED BY <1>1, <2>1, <2>2 DEF Aside
<1>6. \A q \in Queues : queue[q] \in Seq(Msgs) /\ Range(queue[q]) \subseteq Range(sent[q])
  BY SentParts DEF Types, QueueType
<1>7. (\A q \in Queues : Range(queue'[q]) \subseteq Range(sent[q])) /\ InSent(r)'
  <2>1. CASE Passive(r)  BY <1>2, <1>6, <2>1, SentParts DEF Passive, InSent
  <2>2. CASE Drains(r)
    <3>1. PICK p \in Queues : \E n \in 1..Len(queue[p]) : Drain(r, p, n)  BY <2>2 DEF Drains
    <3>2. PICK n \in 1..Len(queue[p]) : Drain(r, p, n)  BY <3>1
    <3>3. /\ run'[r].from = p /\ run'[r].drained = SubSeq(queue[p], 1, n) /\ run'[r].array = arrays
      BY <3>2, DrainEffect
    <3>8. queue' = [queue EXCEPT ![p] = SubSeq(queue[p], n + 1, Len(queue[p]))]  BY <3>2 DEF Drain
    <3>4. /\ Range(SubSeq(queue[p], 1, n)) \subseteq Range(queue[p])
          /\ Range(SubSeq(queue[p], n + 1, Len(queue[p]))) \subseteq Range(queue[p])
      BY <1>6, PartRange
    <3>5. \A q \in Queues : queue'[q] = IF q = p THEN SubSeq(queue[p], n + 1, Len(queue[p])) ELSE queue[q]
      BY <3>8 DEF Types, QueueType
    <3>6. arrays \in Nat  BY DEF Types, QueueType
    <3>9. run'[r].array <= arrays'  BY <1>2, <3>3, <3>6
    <3>10. Range(run'[r].drained) \subseteq Range(sent'[run'[r].from])  BY <1>2, <1>6, <3>3, <3>4
    <3>7. InSent(r)'  BY <3>9, <3>10 DEF InSent
    <3> QED BY <1>6, <3>4, <3>5, <3>7
  <2>3. CASE DrainAnnounced(r)
    <3>1. pc'[r] # "queue_update" /\ queue' = queue
      BY <2>3 DEF DrainAnnounced, Go, Types, PlaceType, Ops, queues
    <3>2. run'[r].array = run[r].array
      <4> DEFINE none == <<>>
                 out == Messages(run[r].drained)
      <4>1. run' = [run EXCEPT ![r] = [run[r] EXCEPT !.out = out, !.drained = none, !.then = "request"]]
        BY <2>3 DEF DrainAnnounced
      <4> HIDE DEF none, out
      <4> QED BY <4>1, RunFields DEF Types, RunType
    <3> QED BY <1>2, <1>6, <3>1, <3>2, SentParts DEF InSent
  <2>4. CASE pc[r] = "queue_update" /\ Rejects(r)
    <3>1. Throw(r) /\ queue' = RolledBack(r)  BY <2>4 DEF Rejects
    <3>2. InSent(r)'  BY <1>2, <3>1, ThrowEffect, ThrowArray, SentParts DEF InSent
    <3>3. CASE queue' = queue  BY <1>6, <3>2, <3>3
    <3>4. CASE queue' # queue
      <4> DEFINE p == run[r].from
      <4>1. queue' = [queue EXCEPT ![p] = run[r].drained \o queue[p]] /\ p \in Queues
        BY <3>1, <3>4 DEF RolledBack, Types, RunType, RunRecord
      <4>2. run[r].drained \in Seq(Msgs) /\ Range(run[r].drained) \subseteq Range(sent[p])
        BY <2>4, SentParts DEF InHand, Hand, InSent
      <4>3. Range(run[r].drained \o queue[p]) \subseteq Range(sent[p])
        BY <1>6, <4>1, <4>2, ConcatRange
      <4>4. \A q \in Queues : queue'[q] = IF q = p THEN run[r].drained \o queue[p] ELSE queue[q]
        BY <4>1 DEF Types, QueueType
      <4> QED BY <1>6, <3>2, <4>3, <4>4
    <3> QED BY <3>3, <3>4
  <2> QED BY <2>1, <2>2, <2>3, <2>4, RunMails DEF Mailing
<1>8. \A q \in Queues : Range(queue'[q]) \subseteq Range(sent'[q])  BY <1>2, <1>7
<1>9. \A x \in Runs : InSent(x)'  BY <1>4, <1>7
<1> QED BY <1>3, <1>5, <1>8, <1>9 DEF Sent, SentOnce, InSent

LEMMA SentOther ==
  ASSUME Types, Sent, NEW o \in Ops \ Runs,
         \/ o \in Structs /\ (StartStruct(o) \/ StructStep(o))
         \/ o \in Writes /\ (WriteWhenIdle(o) \/ WriteWhenBusy(o) \/ WriteAppended(o))
         \/ o \in Msgs /\ Send(o)
         \/ o \in Aborts /\ (Abort(o) \/ AbortStep(o))
  PROVE  Sent'
<1>1. run' = run /\ \A x \in Runs : pc'[x] = pc[x]  BY OthersMail
<1>2. \A q \in Queues : queue[q] \in Seq(Msgs) /\ sent[q] \in Seq(Msgs)  BY DEF Types, QueueType
<1>3. CASE UNCHANGED <<queue, sent, cleared, arrays>> /\ \A m \in Msgs : pc'[m] = pc[m]
  BY <1>1, <1>3 DEF Sent
<1>4. CASE o \in Msgs /\ Send(o) /\ pc'[o] = "returned" /\ \A m \in Msgs \ {o} : pc'[m] = pc[m]
  <2>1. PICK p \in Queues :
          /\ pc[o] = "new" /\ UNCHANGED <<arrays, cleared>>
          /\ queue' = [queue EXCEPT ![p] = Append(queue[p], o)]
          /\ sent' = [sent EXCEPT ![p] = Append(sent[p], o)]
    BY <1>4 DEF Send, abt
  <2>2. \A q \in Queues : o \notin Range(sent[q])  BY <1>4, <2>1, SentParts DEF SentOnce
  <2>3. \A q \in Queues : /\ queue'[q] = IF q = p THEN Append(queue[p], o) ELSE queue[q]
                          /\ sent'[q] = IF q = p THEN Append(sent[p], o) ELSE sent[q]
    BY <2>1 DEF Types, QueueType
  <2>4. Range(Append(sent[p], o)) = Range(sent[p]) \cup {o} /\ Range(Append(queue[p], o)) = Range(queue[p]) \cup {o}
    BY <1>2, <1>4, AppendRange
  <2>5. \A q \in Queues : /\ Range(sent'[q]) = IF q = p THEN Range(sent[p]) \cup {o} ELSE Range(sent[q])
                          /\ Range(queue'[q]) = IF q = p THEN Range(queue[p]) \cup {o} ELSE Range(queue[q])
    BY <2>3, <2>4
  <2>6. ASSUME NEW q \in Queues, NEW m \in Msgs PROVE SentOnce(q, m)'
    <3>1. Once(sent'[q], m)
      <4>1. Once(sent[q], m) /\ (m = o => m \notin Range(sent[q]))  BY <2>2, SentParts DEF SentOnce
      <4>2. CASE q = p
        <5>1. sent'[q] = Append(sent[q], o)  BY <2>3, <4>2
        <5> QED BY <1>2, <1>4, <4>1, <5>1, OnceAppend
      <4>3. CASE q # p  BY <2>3, <4>1, <4>3
      <4> QED BY <4>2, <4>3
    <3>2. CASE m = o  BY <1>4, <2>2, <2>5, <3>1, <3>2 DEF SentOnce
    <3>3. CASE m # o
      <4>1. SentOnce(q, m)  BY SentParts
      <4> QED BY <1>4, <2>5, <3>1, <3>3, <4>1 DEF SentOnce
    <3> QED BY <3>2, <3>3
  <2>7. \A q \in Queues : Range(queue'[q]) \subseteq Range(sent'[q])  BY <2>5, SentParts
  <2>8. \A q \in Queues : Range(sent[q]) \subseteq Range(sent'[q])  BY <2>5
  <2>9. ASSUME NEW r \in Runs PROVE InSent(r)'
    <3>1. InSent(r) /\ run[r].from \in Queues  BY SentParts DEF Types, RunType, RunRecord
    <3> QED BY <1>1, <2>1, <2>8, <3>1 DEF InSent
  <2>10. cleared' \subseteq UNION {Range(sent'[q]) : q \in Queues}  BY <2>1, <2>8, SentParts
  <2> QED BY <2>6, <2>7, <2>9, <2>10 DEF Sent, SentOnce, InSent
<1>5. CASE o \in Aborts /\ Abort(o) /\ \A m \in Msgs : pc'[m] = pc[m]
  <2>1. /\ cleared' = cleared \cup Range(queue["steer"]) \cup Range(queue["followUp"])
        /\ queue' = [queue EXCEPT !["steer"] = <<>>, !["followUp"] = <<>>]
        /\ arrays' = arrays + 1 /\ sent' = sent
    BY <1>5 DEF Abort, hist
  <2>2. \A q \in Queues : \A m \in Msgs : SentOnce(q, m)'  BY <1>5, <2>1, SentParts DEF SentOnce
  <2>3. \A q \in Queues : Range(queue'[q]) \subseteq Range(sent'[q])
    <3> SUFFICES ASSUME NEW q \in Queues PROVE Range(queue'[q]) \subseteq Range(sent[q])  BY <2>1
    <3>1. CASE q = "nextTurn"
      <4>1. queue'[q] = queue[q]  BY <2>1, <3>1 DEF Types, QueueType
      <4> QED BY <4>1, SentParts
    <3>2. CASE q # "nextTurn"
      <4>1. queue'[q] = <<>>  BY <2>1, <3>2 DEF Types, QueueType, Queues
      <4> QED BY <4>1 DEF Range
    <3> QED BY <3>1, <3>2
  <2>4. ASSUME NEW r \in Runs PROVE InSent(r)'
    <3>1. InSent(r) /\ run[r].array \in Nat /\ arrays \in Nat  BY SentParts DEF Types, RunType, RunRecord, QueueType
    <3>2. run[r].array <= arrays + 1  BY <3>1 DEF InSent
    <3> QED BY <1>1, <2>1, <3>1, <3>2 DEF InSent
  <2>5. cleared' \subseteq UNION {Range(sent'[q]) : q \in Queues}
    <3>1. {"steer", "followUp"} \subseteq Queues  BY DEF Queues
    <3> QED BY <2>1, <3>1, SentParts
  <2> QED BY <2>2, <2>3, <2>4, <2>5 DEF Sent, SentOnce, InSent
<1> QED BY <1>3, <1>4, <1>5, OthersMail

LEMMA SentStep == Types /\ Places /\ InHand /\ Sent /\ [Next]_vars => Sent'
<1> SUFFICES ASSUME Types, Places, InHand, Sent, [Next]_vars PROVE Sent'  OBVIOUS
<1>1. ASSUME NEW r \in Runs, StartRun(r) \/ RunStep(r) PROVE Sent'  BY <1>1, SentRun
<1>2. ASSUME NEW o \in Ops \ Runs,
             \/ o \in Structs /\ (StartStruct(o) \/ StructStep(o))
             \/ o \in Writes /\ (WriteWhenIdle(o) \/ WriteWhenBusy(o) \/ WriteAppended(o))
             \/ o \in Msgs /\ Send(o)
             \/ o \in Aborts /\ (Abort(o) \/ AbortStep(o))
      PROVE Sent'
  BY <1>2, SentOther
<1>3. CASE UNCHANGED vars
  BY <1>3 DEF vars, queues, abt, hist, Sent
<1> QED BY <1>1, <1>2, <1>3, HarnessAssumption DEF Next, Ops

LEMMA HeadTailRange ==
  ASSUME NEW S, NEW s \in Seq(S), s # <<>>
  PROVE  /\ Range(s) = {Head(s)} \cup Range(Tail(s))
         /\ Once(s, Head(s)) => Head(s) \notin Range(Tail(s))
         /\ \A x : Once(s, x) => Once(Tail(s), x)
<1>1. /\ Len(s) \in Nat \ {0} /\ Head(s) = s[1] /\ DOMAIN s = 1..Len(s)
      /\ DOMAIN Tail(s) = 1..(Len(s) - 1) /\ \A i \in 1..(Len(s) - 1) : Tail(s)[i] = s[i + 1]
  <2>1. Len(s) \in Nat \ {0}  BY NotEmpty
  <2> QED BY <2>1
<1> DEFINE h == Head(s)
           t == Tail(s)
<1>2. /\ h = s[1] /\ DOMAIN t = 1..(Len(s) - 1) /\ \A i \in 1..(Len(s) - 1) : t[i] = s[i + 1]
  BY <1>1
<1> HIDE DEF h, t
<1>3. \A i \in 1..(Len(s) - 1) : i + 1 \in DOMAIN s /\ t[i] = s[i + 1] /\ i \in DOMAIN t  BY <1>1, <1>2
<1>4. \A i \in DOMAIN s : i = 1 \/ (i - 1 \in DOMAIN t /\ t[i - 1] = s[i])
  <2> SUFFICES ASSUME NEW i \in 1..Len(s), i # 1 PROVE i - 1 \in DOMAIN t /\ t[i - 1] = s[i]
    BY <1>1
  <2>1. i - 1 \in 1..(Len(s) - 1) /\ (i - 1) + 1 = i  BY <1>1
  <2>2. t[i - 1] = s[(i - 1) + 1]  BY <1>2, <2>1
  <2> QED BY <1>2, <2>1, <2>2
<1>5. Range(s) = {h} \cup Range(t)
  <2>1. Range(s) \subseteq {h} \cup Range(t)  BY <1>2, <1>4 DEF Range
  <2>2. h \in Range(s)  BY <1>1, <1>2 DEF Range
  <2>3. Range(t) \subseteq Range(s)  BY <1>2, <1>3 DEF Range
  <2> QED BY <2>1, <2>2, <2>3
<1>6. ASSUME Once(s, h), h \in Range(t) PROVE FALSE
  <2>1. PICK i \in 1..(Len(s) - 1) : t[i] = h  BY <1>2, <1>6 DEF Range
  <2>2. i + 1 \in DOMAIN s /\ s[i + 1] = h /\ 1 \in DOMAIN s /\ s[1] = h  BY <1>1, <1>2, <1>3, <2>1
  <2>3. i + 1 = 1  BY <1>6, <2>2 DEF Once
  <2> QED BY <2>3
<1>7. ASSUME NEW x, Once(s, x) PROVE Once(t, x)
  <2> SUFFICES ASSUME NEW i \in 1..(Len(s) - 1), NEW j \in 1..(Len(s) - 1), t[i] = x, t[j] = x PROVE i = j
    BY <1>2 DEF Once
  <2>1. i + 1 = j + 1  BY <1>3, <1>7 DEF Once
  <2> QED BY <2>1
<1> QED BY <1>5, <1>6, <1>7 DEF h, t

LEMMA MiddleOnce ==
  ASSUME NEW S, NEW a \in Seq(S), NEW d \in Seq(S), NEW s \in Seq(S),
         \A i, j \in DOMAIN ((a \o d) \o s) : ((a \o d) \o s)[i] = ((a \o d) \o s)[j] => i = j
  PROVE  /\ \A i, j \in DOMAIN d : d[i] = d[j] => i = j
         /\ Range(a) \cap Range(d) = {}
<1> DEFINE b == a \o d
           c == b \o s
<1>1. b \in Seq(S)  BY ConcatProperties
<1>2. /\ Len(b) = Len(a) + Len(d) /\ Len(a) \in Nat /\ Len(d) \in Nat /\ Len(s) \in Nat
      /\ \A i \in 1..(Len(a) + Len(d)) : b[i] = IF i <= Len(a) THEN a[i] ELSE d[i - Len(a)]
  BY ConcatProperties, LenProperties
<1>3. \A i, j \in DOMAIN c : c[i] = c[j] => i = j  OBVIOUS
<1> HIDE DEF b
<1>4. /\ Len(c) = Len(b) + Len(s) /\ c \in Seq(S)
      /\ \A i \in 1..(Len(b) + Len(s)) : c[i] = IF i <= Len(b) THEN b[i] ELSE s[i - Len(b)]
  BY <1>1, ConcatProperties
<1> HIDE DEF c
<1>5. DOMAIN c = 1..(Len(b) + Len(s)) /\ DOMAIN a = 1..Len(a) /\ DOMAIN d = 1..Len(d)
  BY <1>4, LenProperties
<1>6. ASSUME NEW i \in 1..Len(a) PROVE i \in DOMAIN c /\ c[i] = a[i]
  <2>1. i \in 1..(Len(a) + Len(d)) /\ i \in 1..(Len(b) + Len(s)) /\ i <= Len(b) /\ i <= Len(a)  BY <1>2
  <2> QED BY <1>2, <1>4, <1>5, <2>1
<1>7. ASSUME NEW i \in 1..Len(d) PROVE Len(a) + i \in DOMAIN c /\ c[Len(a) + i] = d[i]
  <2>1. /\ Len(a) + i \in 1..(Len(a) + Len(d)) /\ Len(a) + i \in 1..(Len(b) + Len(s))
        /\ Len(a) + i <= Len(b) /\ ~(Len(a) + i <= Len(a)) /\ (Len(a) + i) - Len(a) = i
    BY <1>2
  <2>2. b[Len(a) + i] = d[i]  BY <1>2, <2>1
  <2> QED BY <1>4, <1>5, <2>1, <2>2
<1>8. ASSUME NEW i \in 1..Len(d), NEW j \in 1..Len(d), d[i] = d[j] PROVE i = j
  <2>1. Len(a) + i = Len(a) + j  BY <1>3, <1>7, <1>8
  <2> QED BY <1>2, <2>1
<1>9. ASSUME NEW i \in 1..Len(a), NEW j \in 1..Len(d), a[i] = d[j] PROVE FALSE
  <2>1. i = Len(a) + j  BY <1>3, <1>6, <1>7, <1>9
  <2> QED BY <1>2, <2>1
<1> QED BY <1>5, <1>8, <1>9 DEF Range

\* What is about to be announced is new, as long as nothing has failed.
LEMMA DrainedNew ==
  ASSUME Types, InHand, Control, Sent, Fifo, faults = 0, NEW r \in Runs, pc[r] = "queue_update"
  PROVE  /\ \A i, j \in DOMAIN run[r].drained : run[r].drained[i] = run[r].drained[j] => i = j
         /\ \A q \in Queues : Range(announced[q]) \cap Range(run[r].drained) = {}
<1> DEFINE f == run[r].from
           d == run[r].drained
<1>1. f \in Queues  BY DEF Types, RunType, RunRecord
<1>2. Carried(f) = d
  <2>1. \A x \in Runs \ {r} : pc[x] # "queue_update"  BY DEF Control, Open, Working
  <2> QED BY <2>1, HeldBy DEF Carried
<1>3. \A q \in Queues : Remains(Live(q), sent[q], cleared)  BY DEF Fifo
<1>4. \A q \in Queues : /\ Carried(q) \in Seq(Msgs) /\ announced[q] \in Seq(Msgs)
                        /\ queue[q] \in Seq(Msgs) /\ sent[q] \in Seq(Msgs)
  BY CarriedType
<1>5. \A q \in Queues : Live(q) = (announced[q] \o Carried(q)) \o queue[q]  BY DEF Live
<1>6. ASSUME NEW q \in Queues
      PROVE  /\ \A i, j \in DOMAIN Live(q) : Live(q)[i] = Live(q)[j] => i = j
             /\ Range(announced[q]) \subseteq Range(sent[q])
  <2> DEFINE a == announced[q]
             c == Carried(q)
             s == queue[q]
  <2>1. a \in Seq(Msgs) /\ c \in Seq(Msgs) /\ s \in Seq(Msgs) /\ sent[q] \in Seq(Msgs)  BY <1>4
  <2>2. Live(q) = (a \o c) \o s  BY <1>5
  <2> HIDE DEF a, c, s
  <2>3. a \o c \in Seq(Msgs) /\ (a \o c) \o s \in Seq(Msgs)  BY <2>1, ConcatProperties
  <2>9. Range(a \o c) = Range(a) \cup Range(c)  BY <2>1, ConcatRange
  <2> DEFINE b == a \o c
  <2>10. b \in Seq(Msgs)  BY <2>3
  <2> HIDE DEF b
  <2>11. Range(b \o s) = Range(b) \cup Range(s)  BY <2>1, <2>10, ConcatRange
  <2>4. Range(a) \subseteq Range((a \o c) \o s)  BY <2>9, <2>11 DEF b
  <2>5. Live(q) \in Seq(Msgs)  BY <2>2, <2>3
  <2>6. \A i, j \in DOMAIN Live(q) : Live(q)[i] = Live(q)[j] => i = j  BY <1>3, <2>1, <2>5, RemainsOnce
  <2>7. Range(Live(q)) \subseteq Range(sent[q])  BY <1>3 DEF Remains
  <2>8. Range(a) \subseteq Range(Live(q))  BY <2>2, <2>4
  <2> QED BY <2>6, <2>7, <2>8 DEF a
<1>7. (\A i, j \in DOMAIN d : d[i] = d[j] => i = j) /\ Range(announced[f]) \cap Range(d) = {}
  <2> DEFINE a == announced[f]
             s == queue[f]
  <2>1. a \in Seq(Msgs) /\ d \in Seq(Msgs) /\ s \in Seq(Msgs) /\ Live(f) = (a \o d) \o s
    BY <1>1, <1>2, <1>4, <1>5
  <2>2. \A i, j \in DOMAIN Live(f) : Live(f)[i] = Live(f)[j] => i = j  BY <1>1, <1>6
  <2> HIDE DEF a, d, s, f
  <2>3. \A i, j \in DOMAIN ((a \o d) \o s) : ((a \o d) \o s)[i] = ((a \o d) \o s)[j] => i = j
    BY <2>1, <2>2
  <2>4. (\A i, j \in DOMAIN d : d[i] = d[j] => i = j) /\ Range(a) \cap Range(d) = {}
    BY <2>1, <2>3, MiddleOnce
  <2> QED BY <2>4 DEF a
<1>8. ASSUME NEW q \in Queues, q # f PROVE Range(announced[q]) \cap Range(d) = {}
  <2>1. Range(announced[q]) \subseteq Range(sent[q])  BY <1>6
  <2>2. Range(d) \subseteq Range(sent[f])  BY DEF Sent
  <2>3. \A m \in Msgs : m \in Range(sent[q]) => m \notin Range(sent[f])  BY <1>1, <1>8 DEF Sent
  <2>4. Range(announced[q]) \subseteq Msgs
    <3>1. announced[q] \in Seq(Msgs)  BY <1>4
    <3> QED BY <3>1 DEF Range
  <2> QED BY <2>1, <2>2, <2>3, <2>4
<1> QED BY <1>7, <1>8

LEMMA MessagesOnce ==
  ASSUME NEW d \in Seq(Msgs), NEW m
  PROVE  /\ Item("message", m) \in Range(Messages(d)) <=> m \in Range(d)
         /\ (\A i, j \in DOMAIN d : d[i] = d[j] => i = j) => Once(Messages(d), Item("message", m))
<1>1. DOMAIN Messages(d) = DOMAIN d /\ \A i \in DOMAIN d : Messages(d)[i] = Item("message", d[i])
  BY DEF Messages
<1>2. \A x : Item("message", x) = Item("message", m) <=> x = m  BY DEF Item
<1>3. Item("message", m) \in Range(Messages(d)) <=> m \in Range(d)  BY <1>1, <1>2 DEF Range
<1>4. (\A i, j \in DOMAIN d : d[i] = d[j] => i = j) => Once(Messages(d), Item("message", m))
  BY <1>1, <1>2 DEF Once
<1> QED BY <1>3, <1>4

LEMMA AnnouncedOut ==
  ASSUME Types, InHand, NEW r \in Runs, DrainAnnounced(r)
  PROVE  /\ run'[r].out = Messages(run[r].drained) /\ run'[r].raised = run[r].raised
         /\ run[r].drained \in Seq(Msgs) /\ pc'[r] \in {"before_start", "append"}
<1> DEFINE none == <<>>
           out == Messages(run[r].drained)
<1>1. run' = [run EXCEPT ![r] = [run[r] EXCEPT !.out = out, !.drained = none, !.then = "request"]]
  BY DEF DrainAnnounced
<1> HIDE DEF none, out
<1>2. run'[r].out = out /\ run'[r].raised = run[r].raised  BY <1>1, RunFields DEF Types, RunType
<1>3. run[r].drained \in Seq(Msgs)  BY DEF DrainAnnounced, InHand, Hand
<1>4. pc'[r] \in {"before_start", "append"}  BY DEF DrainAnnounced, Go, Types, PlaceType, Ops
<1> QED BY <1>2, <1>3, <1>4 DEF out

LEMMA StartOut ==
  ASSUME Types, NEW r \in Runs, BeforeStart(r)
  PROVE  /\ run'[r].out = Append(run[r].out, Item("prompt", r)) /\ run'[r].raised = run[r].raised
         /\ run[r].out \in Seq(Entries) /\ Item("prompt", r) \in Entries /\ pc'[r] = "append"
<1>1. run' = [run EXCEPT ![r] = [run[r] EXCEPT !.stage = "loop", !.then = "poll", !.more = TRUE,
                !.out = FirstMessages(r)]]
  BY DEF BeforeStart
<1>2. run'[r] = [run[r] EXCEPT !.stage = "loop", !.then = "poll", !.more = TRUE, !.out = FirstMessages(r)]
  BY <1>1 DEF Types, RunType
<1>3. run'[r].out = Append(run[r].out, Item("prompt", r)) /\ run'[r].raised = run[r].raised
  BY <1>2, RunFields DEF FirstMessages
<1>4. run[r].out \in Seq(Entries) /\ Item("prompt", r) \in Entries  BY EntryTypes DEF Types, RunType, RunRecord
<1>5. pc'[r] = "append"  BY DEF BeforeStart, Go, Types, PlaceType, Ops
<1> QED BY <1>3, <1>4, <1>5

LEMMA NotifiedOut ==
  ASSUME Types, Places, InHand, NEW r \in Runs, Notified(r)
  PROVE  /\ run'[r].out = Tail(run[r].out) /\ run'[r].raised = run[r].raised
         /\ run[r].out \in Seq(Entries) /\ run[r].out # <<>>
         /\ pc[r] = "notify" /\ pc'[r] \in {"append", "request", "poll", "tools", "turn_end"}
         /\ pc'[r] # "append" => Tail(run[r].out) = <<>>
<1>1. run'[r].out = Tail(run[r].out) /\ run'[r].raised = run[r].raised
  BY RunFields DEF Notified, Types, RunType
<1>2. run[r].out \in Seq(Entries) /\ run[r].out # <<>>  BY DEF Notified, InHand, Hand, Types, RunType, RunRecord
<1>3. pc'[r] = IF Len(run[r].out) = 1 THEN run[r].then ELSE "append"
  BY DEF Notified, Go, Types, PlaceType, Ops
<1>4. run[r].then \in {"request", "poll", "tools", "turn_end"} /\ pc[r] = "notify"
  BY DEF Notified, Places, RunPlace
<1>5. ASSUME Len(run[r].out) = 1 PROVE Tail(run[r].out) = <<>>
  <2> DEFINE s == run[r].out
  <2>1. s \in Seq(Entries) /\ Len(s) = 1  BY <1>2, <1>5
  <2> HIDE DEF s
  <2>2. Tail(s) \in Seq(Entries) /\ Len(Tail(s)) = 0  BY <2>1
  <2>3. Tail(s) = <<>>  BY <2>2, NotEmpty
  <2> QED BY <2>3 DEF s
<1> QED BY <1>1, <1>2, <1>3, <1>4, <1>5

LEMMA OneOut ==
  ASSUME NEW e, NEW x
  PROVE  Once(<<e>>, x) /\ Range(<<e>>) = {e}
  BY DEF Once, Range

LEMMA RunOnItsWay ==
  ASSUME Types, Places, InHand, Control, Sent, Fifo, faults = 0, faults' = 0, NEW r \in Runs, StartRun(r) \/ RunStep(r),
         OnItsWay(r)
  PROVE  OnItsWay(r)'
<1>1. ASSUME StartRun(r) PROVE OnItsWay(r)'
  <2>1. run'[r].out = run[r].out /\ run'[r].raised = run[r].raised
    BY <1>1, RunFields DEF StartRun, Go, MayStart, Open, queues, store, abt, hist, Types, RunType
  <2>2. pc[r] \notin {"append", "notify", "before_start", "returned"} \/ pc'[r] \in {"append", "notify"}
    BY <1>1 DEF StartRun, Go, MayStart, Open, queues, store, abt, hist, Types, PlaceType, Ops
  <2> QED BY <2>1, <2>2 DEF OnItsWay
<1>2. ASSUME StateCreated(r) PROVE OnItsWay(r)'
  <2>1. run'[r].out = run[r].out /\ run'[r].raised = run[r].raised
    BY <1>2, DrainEffect, RunFields DEF StateCreated, Poll, Types, RunType
  <2>2. pc[r] \notin {"append", "notify", "before_start", "returned"}  BY <1>2 DEF StateCreated
  <2> QED BY <2>1, <2>2 DEF OnItsWay
<1>3. ASSUME Unknown(r) PROVE OnItsWay(r)'
  <2>1. run[r].stage = "start"  BY <1>3 DEF Unknown, Places, RunPlace, Types, RunType, RunRecord
  <2>2. run' = run /\ pc'[r] = "returned"  BY <1>3, <2>1, ThrowEffect DEF Unknown
  <2> QED BY <2>2 DEF OnItsWay
<1>4. ASSUME BeforeStart(r) PROVE OnItsWay(r)'
  <2>1. \A m : Item("message", m) # Item("prompt", r)  BY DEF Item
  <2>2. \A m \in Msgs : Once(run'[r].out, Item("message", m))
    BY <1>4, <2>1, StartOut, OnceAppend DEF OnItsWay
  <2> QED BY <1>4, <2>2, StartOut DEF OnItsWay
<1>5. ASSUME Appended(r) PROVE OnItsWay(r)'
  <2>1. run'[r].out = run[r].out /\ run'[r].raised = run[r].raised
    BY <1>5, RunFields DEF Appended, Go, queues, ctl, abt, hist, Types, RunType
  <2>2. pc[r] \notin {"append", "notify", "before_start", "returned"} \/ pc'[r] \in {"append", "notify"}
    BY <1>5 DEF Appended, Go, queues, ctl, abt, hist, Types, PlaceType, Ops
  <2> QED BY <2>1, <2>2 DEF OnItsWay
<1>6. ASSUME Notified(r) PROVE OnItsWay(r)'
  <2>1. \A m \in Msgs : Once(run'[r].out, Item("message", m))
    BY <1>6, NotifiedOut, HeadTailRange DEF OnItsWay
  <2> QED BY <1>6, <2>1, NotifiedOut DEF OnItsWay
<1>7. ASSUME PollSteering(r) PROVE OnItsWay(r)'
  <2>1. run'[r].out = run[r].out /\ run'[r].raised = run[r].raised
    BY <1>7, DrainEffect, RunFields DEF PollSteering, Poll, Types, RunType
  <2>2. pc[r] \notin {"append", "notify", "before_start", "returned"}  BY <1>7 DEF PollSteering
  <2> QED BY <2>1, <2>2 DEF OnItsWay
<1>8. ASSUME PollFollowUp(r) PROVE OnItsWay(r)'
  <2>1. run'[r].out = run[r].out /\ run'[r].raised = run[r].raised
    BY <1>8, DrainEffect, RunFields DEF PollFollowUp, Poll, Types, RunType
  <2>2. pc[r] \notin {"append", "notify", "before_start", "returned"}  BY <1>8 DEF PollFollowUp
  <2> QED BY <2>1, <2>2 DEF OnItsWay
<1>9. ASSUME DrainAnnounced(r) PROVE OnItsWay(r)'
  <2>1. pc[r] = "queue_update"  BY <1>9 DEF DrainAnnounced
  <2>2. \A m \in Msgs : Once(run'[r].out, Item("message", m))
    BY <1>9, <2>1, AnnouncedOut, DrainedNew, MessagesOnce
  <2> QED BY <1>9, <2>2, AnnouncedOut DEF OnItsWay
<1>10. ASSUME Replied(r) PROVE OnItsWay(r)'
  <2>1. PICK kind \in {"calls", "reply"} : run'[r].out = <<Item(kind, r)>>
    BY <1>10, RunFields DEF Replied, Types, RunType
  <2>2. run'[r].raised = run[r].raised /\ pc'[r] = "append"
    BY <1>10, RunFields DEF Replied, Go, Types, RunType, PlaceType, Ops
  <2> QED BY <2>1, <2>2, OneOut DEF OnItsWay
<1>11. ASSUME ToolsDone(r) PROVE OnItsWay(r)'
  <2>1. run'[r].out = <<Item("result", r)>>  BY <1>11, RunFields DEF ToolsDone, Types, RunType
  <2>2. run'[r].raised = run[r].raised /\ pc'[r] = "append"
    BY <1>11, RunFields DEF ToolsDone, Go, Types, RunType, PlaceType, Ops
  <2> QED BY <2>1, <2>2, OneOut DEF OnItsWay
<1>12. ASSUME TurnEnd(r) PROVE OnItsWay(r)'
  <2>1. run' = [run EXCEPT ![r] = [run[r] EXCEPT !.then = "save_point"]] /\ pc[r] = "turn_end"
    BY <1>12 DEF TurnEnd, AnyFault
  <2>2. run'[r].out = run[r].out /\ run'[r].raised = run[r].raised  BY <2>1, RunFields DEF Types, RunType
  <2> QED BY <2>1, <2>2 DEF OnItsWay
<1>13. ASSUME SavePoint(r) PROVE OnItsWay(r)'
  <2>1. run'[r].out = run[r].out /\ run'[r].raised = run[r].raised
    BY <1>13, RunFields DEF SavePoint, Go, FlushThen, queues, store, ctl, abt, hist, Types, RunType
  <2>2. pc[r] \notin {"append", "notify", "before_start", "returned"} \/ pc'[r] \in {"append", "notify"}
    BY <1>13 DEF SavePoint, Go, FlushThen, queues, store, ctl, abt, hist, Types, PlaceType, Ops
  <2> QED BY <2>1, <2>2 DEF OnItsWay
<1>14. ASSUME Snapshot(r) PROVE OnItsWay(r)'
  <2>1. run'[r].out = run[r].out /\ run'[r].raised = run[r].raised
    BY <1>14, RunFields DEF Snapshot, Go, queues, store, ctl, abt, hist, Types, RunType
  <2>2. pc[r] \notin {"append", "notify", "before_start", "returned"} \/ pc'[r] \in {"append", "notify"}
    BY <1>14 DEF Snapshot, Go, queues, store, ctl, abt, hist, Types, PlaceType, Ops
  <2> QED BY <2>1, <2>2 DEF OnItsWay
<1>15. ASSUME AgentEnd(r) PROVE OnItsWay(r)'
  <2>1. run'[r].out = run[r].out /\ run'[r].raised = run[r].raised
    BY <1>15, RunFields DEF AgentEnd, Go, queues, store, ctl, abt, hist, Types, RunType
  <2>2. pc[r] \notin {"append", "notify", "before_start", "returned"} \/ pc'[r] \in {"append", "notify"}
    BY <1>15 DEF AgentEnd, Go, queues, store, ctl, abt, hist, Types, PlaceType, Ops
  <2> QED BY <2>1, <2>2 DEF OnItsWay
<1>16. ASSUME Settled(r) PROVE OnItsWay(r)'
  <2>1. run'[r].out = run[r].out /\ run'[r].raised = run[r].raised
    BY <1>16, RunFields DEF Settled, Go, queues, store, ctl, abt, hist, Types, RunType
  <2>2. pc[r] \notin {"append", "notify", "before_start", "returned"} \/ pc'[r] \in {"append", "notify"}
    BY <1>16 DEF Settled, Go, queues, store, ctl, abt, hist, Types, PlaceType, Ops
  <2> QED BY <2>1, <2>2 DEF OnItsWay
<1>17. ASSUME FlushNext(r) PROVE OnItsWay(r)'
  <2>1. run'[r].out = run[r].out /\ run'[r].raised = run[r].raised
    BY <1>17, RunFields DEF FlushNext, Go, queues, store, ctl, abt, hist, Types, RunType
  <2>2. pc[r] \notin {"append", "notify", "before_start", "returned"} \/ pc'[r] \in {"append", "notify"}
    BY <1>17 DEF FlushNext, Go, queues, store, ctl, abt, hist, Types, PlaceType, Ops
  <2> QED BY <2>1, <2>2 DEF OnItsWay
<1>18. ASSUME Flushed(r) PROVE OnItsWay(r)'
  <2>1. run'[r].out = run[r].out /\ run'[r].raised = run[r].raised
    BY <1>18, RunFields DEF Flushed, Go, Shifted, queues, ctl, abt, hist, Types, RunType
  <2>2. pc[r] \notin {"append", "notify", "before_start", "returned"} \/ pc'[r] \in {"append", "notify"}
    BY <1>18 DEF Flushed, Go, Shifted, queues, ctl, abt, hist, Types, PlaceType, Ops
  <2> QED BY <2>1, <2>2 DEF OnItsWay
<1>19. ASSUME FlushDone(r) PROVE OnItsWay(r)'
  <2>1. run' = run /\ pc[r] = "flush"
    BY <1>19 DEF FlushDone, OnItsWay
  <2> QED BY <2>1 DEF OnItsWay
<1>20. ASSUME Rejects(r) PROVE OnItsWay(r)'
  BY <1>20 DEF Rejects, AnyFault
<1> QED
  BY <1>1, <1>2, <1>3, <1>4, <1>5, <1>6, <1>7, <1>8, <1>9, <1>10, <1>11, <1>12, <1>13, <1>14,
     <1>15, <1>16, <1>17, <1>18, <1>19, <1>20 DEF RunStep

\* A run that has nothing to append before and after a step.
Bare(r) == ~Open(r) \/ (pc[r] # "notify" /\ run[r].out = <<>>)

LEMMA BareDue ==
  ASSUME NEW r \in Runs, Bare(r)
  PROVE  \A m : ~DueOf(r, m)
  BY DEF Bare, DueOf, Ahead, Range

LEMMA BareDueNext ==
  ASSUME NEW r \in Runs, Bare(r)'
  PROVE  \A m : ~DueOf(r, m)'
  BY DEF Bare, DueOf, Ahead, Range

\* What a step of a run leaves to append.
SameDue(r) == /\ UNCHANGED announced
              /\ \A m \in Msgs : DueOf(r, m)' <=> DueOf(r, m)

LEMMA BareSame ==
  ASSUME NEW r \in Runs, Bare(r), Bare(r)', UNCHANGED announced
  PROVE  SameDue(r)
  BY BareDue, BareDueNext DEF SameDue

LEMMA RunDue ==
  ASSUME Types, Places, InHand, faults = 0, faults' = 0, NEW r \in Runs, StartRun(r) \/ RunStep(r),
         OnItsWay(r), OnItsWay(r)'
  PROVE  Appended(r) \/ DrainAnnounced(r) \/ SameDue(r)
<1>1. ASSUME StartRun(r) PROVE Appended(r) \/ DrainAnnounced(r) \/ SameDue(r)
  <2>1. pc[r] = "new" /\ pc'[r] = "creating" /\ UNCHANGED <<run, announced>>
    BY <1>1 DEF StartRun, MayStart, Go, Types, PlaceType, Ops, hist
  <2> QED BY <2>1, BareSame DEF OnItsWay, Bare, Open
<1>2. ASSUME StateCreated(r) PROVE Appended(r) \/ DrainAnnounced(r) \/ SameDue(r)
  <2>1. run'[r].out = run[r].out /\ UNCHANGED announced
    BY <1>2, DrainEffect, RunFields DEF StateCreated, Poll, Types, RunType, hist
  <2>2. pc[r] \in {"creating", "poll", "poll_follow"}  BY <1>2 DEF StateCreated
  <2>3. pc'[r] # "notify"  BY <1>2, DrainEffect DEF StateCreated, Poll, Go, Types, PlaceType, Ops
  <2> QED BY <2>1, <2>2, <2>3, BareSame DEF OnItsWay, Bare
<1>3. ASSUME Unknown(r) PROVE Appended(r) \/ DrainAnnounced(r) \/ SameDue(r)
  <2>1. run[r].stage = "start" /\ pc[r] = "creating" /\ UNCHANGED announced
    BY <1>3 DEF Unknown, Places, RunPlace, Types, RunType, RunRecord, hist
  <2>2. pc'[r] = "returned"  BY <1>3, <2>1, ThrowEffect DEF Unknown
  <2> QED BY <2>1, <2>2, BareSame DEF OnItsWay, Bare, Open
<1>4. ASSUME BeforeStart(r) PROVE Appended(r) \/ DrainAnnounced(r) \/ SameDue(r)
  <2>1. Range(run'[r].out) = Range(run[r].out) \cup {Item("prompt", r)}
    <3> DEFINE s == run[r].out
               e == Item("prompt", r)
    <3>1. run'[r].out = Append(s, e) /\ s \in Seq(Entries) /\ e \in Entries  BY <1>4, StartOut
    <3> HIDE DEF s, e
    <3>2. Range(Append(s, e)) = Range(s) \cup {e}  BY <3>1, AppendRange
    <3> QED BY <3>1, <3>2 DEF s, e
  <2>2. pc[r] = "before_start" /\ pc'[r] = "append" /\ UNCHANGED announced
    BY <1>4, StartOut DEF BeforeStart, hist
  <2>3. \A m : Item("message", m) # Item("prompt", r)  BY DEF Item
  <2> QED BY <2>1, <2>2, <2>3 DEF SameDue, DueOf, Ahead, Open
<1>5. ASSUME Appended(r) PROVE Appended(r) \/ DrainAnnounced(r) \/ SameDue(r)
  BY <1>5
<1>6. ASSUME Notified(r) PROVE Appended(r) \/ DrainAnnounced(r) \/ SameDue(r)
  <2>1. UNCHANGED announced  BY <1>6 DEF Notified, hist
  <2> QED BY <1>6, <2>1, NotifiedOut DEF SameDue, DueOf, Ahead, Open
<1>7. ASSUME PollSteering(r) PROVE Appended(r) \/ DrainAnnounced(r) \/ SameDue(r)
  <2>1. run'[r].out = run[r].out /\ UNCHANGED announced
    BY <1>7, DrainEffect, RunFields DEF PollSteering, Poll, Types, RunType, hist
  <2>2. pc[r] \in {"creating", "poll", "poll_follow"}  BY <1>7 DEF PollSteering
  <2>3. pc'[r] # "notify"  BY <1>7, DrainEffect DEF PollSteering, Poll, Go, Types, PlaceType, Ops
  <2> QED BY <2>1, <2>2, <2>3, BareSame DEF OnItsWay, Bare
<1>8. ASSUME PollFollowUp(r) PROVE Appended(r) \/ DrainAnnounced(r) \/ SameDue(r)
  <2>1. run'[r].out = run[r].out /\ UNCHANGED announced
    BY <1>8, DrainEffect, RunFields DEF PollFollowUp, Poll, Types, RunType, hist
  <2>2. pc[r] \in {"creating", "poll", "poll_follow"}  BY <1>8 DEF PollFollowUp
  <2>3. pc'[r] # "notify"  BY <1>8, DrainEffect DEF PollFollowUp, Poll, Go, Types, PlaceType, Ops
  <2> QED BY <2>1, <2>2, <2>3, BareSame DEF OnItsWay, Bare
<1>9. ASSUME DrainAnnounced(r) PROVE Appended(r) \/ DrainAnnounced(r) \/ SameDue(r)
  BY <1>9
<1>10. ASSUME Replied(r) PROVE Appended(r) \/ DrainAnnounced(r) \/ SameDue(r)
  <2>1. PICK kind \in {"calls", "reply"} : run'[r].out = <<Item(kind, r)>>
    BY <1>10, RunFields DEF Replied, Types, RunType
  <2>2. pc[r] \in {"request", "tools"} /\ pc'[r] = "append" /\ UNCHANGED announced
    BY <1>10 DEF Replied, Go, Types, PlaceType, Ops, hist
  <2>3. run[r].out = <<>>  BY <2>2 DEF OnItsWay
  <2>4. \A m : ~DueOf(r, m)  BY <2>2, <2>3, BareDue DEF Bare
  <2>5. \A m : Item("message", m) # Item(kind, r)  BY <2>1 DEF Item
  <2>6. \A m : ~DueOf(r, m)'  BY <2>1, <2>2, <2>5, OneOut DEF DueOf, Ahead
  <2> QED BY <2>2, <2>4, <2>6 DEF SameDue
<1>11. ASSUME ToolsDone(r) PROVE Appended(r) \/ DrainAnnounced(r) \/ SameDue(r)
  <2>1. PICK kind \in {"result"} : run'[r].out = <<Item(kind, r)>>
    BY <1>11, RunFields DEF ToolsDone, Types, RunType
  <2>2. pc[r] \in {"request", "tools"} /\ pc'[r] = "append" /\ UNCHANGED announced
    BY <1>11 DEF ToolsDone, Go, Types, PlaceType, Ops, hist
  <2>3. run[r].out = <<>>  BY <2>2 DEF OnItsWay
  <2>4. \A m : ~DueOf(r, m)  BY <2>2, <2>3, BareDue DEF Bare
  <2>5. \A m : Item("message", m) # Item(kind, r)  BY <2>1 DEF Item
  <2>6. \A m : ~DueOf(r, m)'  BY <2>1, <2>2, <2>5, OneOut DEF DueOf, Ahead
  <2> QED BY <2>2, <2>4, <2>6 DEF SameDue
<1>12. ASSUME TurnEnd(r) PROVE Appended(r) \/ DrainAnnounced(r) \/ SameDue(r)
  <2>1. pc[r] = "turn_end" /\ pc'[r] = "flush" /\ UNCHANGED announced
    BY <1>12 DEF TurnEnd, Go, Types, PlaceType, Ops
  <2> QED BY <2>1, BareSame DEF OnItsWay, Bare
<1>13. ASSUME SavePoint(r) PROVE Appended(r) \/ DrainAnnounced(r) \/ SameDue(r)
  <2>1. /\ pc[r] \notin {"append", "notify", "before_start", "returned"}
        /\ pc'[r] \notin {"append", "notify", "before_start", "returned"} /\ UNCHANGED announced
    BY <1>13 DEF SavePoint, Go, FlushThen, queues, store, ctl, abt, hist, Types, PlaceType, Ops
  <2> QED BY <2>1, BareSame DEF OnItsWay, Bare
<1>14. ASSUME Snapshot(r) PROVE Appended(r) \/ DrainAnnounced(r) \/ SameDue(r)
  <2>1. /\ pc[r] \notin {"append", "notify", "before_start", "returned"}
        /\ pc'[r] \notin {"append", "notify", "before_start", "returned"} /\ UNCHANGED announced
    BY <1>14 DEF Snapshot, Go, queues, store, ctl, abt, hist, Types, PlaceType, Ops
  <2> QED BY <2>1, BareSame DEF OnItsWay, Bare
<1>15. ASSUME AgentEnd(r) PROVE Appended(r) \/ DrainAnnounced(r) \/ SameDue(r)
  <2>1. /\ pc[r] \notin {"append", "notify", "before_start", "returned"}
        /\ pc'[r] \notin {"append", "notify", "before_start", "returned"} /\ UNCHANGED announced
    BY <1>15 DEF AgentEnd, Go, queues, store, ctl, abt, hist, Types, PlaceType, Ops
  <2> QED BY <2>1, BareSame DEF OnItsWay, Bare
<1>16. ASSUME Settled(r) PROVE Appended(r) \/ DrainAnnounced(r) \/ SameDue(r)
  <2>1. /\ pc[r] \notin {"append", "notify", "before_start", "returned"}
        /\ pc'[r] \notin {"append", "notify", "before_start", "returned"} /\ UNCHANGED announced
    BY <1>16 DEF Settled, Go, queues, store, ctl, abt, hist, Types, PlaceType, Ops
  <2> QED BY <2>1, BareSame DEF OnItsWay, Bare
<1>17. ASSUME FlushNext(r) PROVE Appended(r) \/ DrainAnnounced(r) \/ SameDue(r)
  <2>1. /\ pc[r] \notin {"append", "notify", "before_start", "returned"}
        /\ pc'[r] \notin {"append", "notify", "before_start", "returned"} /\ UNCHANGED announced
    BY <1>17 DEF FlushNext, Go, queues, store, ctl, abt, hist, Types, PlaceType, Ops
  <2> QED BY <2>1, BareSame DEF OnItsWay, Bare
<1>18. ASSUME Flushed(r) PROVE Appended(r) \/ DrainAnnounced(r) \/ SameDue(r)
  <2>1. /\ pc[r] \notin {"append", "notify", "before_start", "returned"}
        /\ pc'[r] \notin {"append", "notify", "before_start", "returned"} /\ UNCHANGED announced
    BY <1>18 DEF Flushed, Go, Shifted, queues, ctl, abt, hist, Types, PlaceType, Ops
  <2> QED BY <2>1, BareSame DEF OnItsWay, Bare
<1>19. ASSUME FlushDone(r) PROVE Appended(r) \/ DrainAnnounced(r) \/ SameDue(r)
  <2>1. run' = run /\ pc[r] = "flush" /\ UNCHANGED announced
    BY <1>19 DEF FlushDone, OnItsWay, hist
  <2>2. pc'[r] # "notify"
    BY <1>19, <2>1 DEF FlushDone, Finish, Throw, OnItsWay, Go, Types, PlaceType, Ops
  <2> QED BY <2>1, <2>2, BareSame DEF OnItsWay, Bare
<1>20. ASSUME Rejects(r) PROVE Appended(r) \/ DrainAnnounced(r) \/ SameDue(r)
  BY <1>20 DEF Rejects, AnyFault
<1> QED
  BY <1>1, <1>2, <1>3, <1>4, <1>5, <1>6, <1>7, <1>8, <1>9, <1>10, <1>11, <1>12, <1>13, <1>14,
     <1>15, <1>16, <1>17, <1>18, <1>19, <1>20 DEF RunStep

\* Nothing that queues hold is appended.
LEMMA DeliverySame ==
  ASSUME Types, NEW m \in Msgs, DeliveredOnce(m), UNCHANGED announced,
         session' = session \/ \E e \in Entries : e.kind # "message" /\ session' = Append(session, e),
         Due(m)' <=> Due(m)
  PROVE  DeliveredOnce(m)'
<1> DEFINE x == Item("message", m)
<1>1. Once(session, x) /\ session \in Seq(Entries)  BY DEF DeliveredOnce, Types, StoreType
<1>2. Once(session', x) /\ (x \in Range(session') <=> x \in Range(session))
  <2>1. CASE session' = session  BY <1>1, <2>1
  <2>2. ASSUME NEW e \in Entries, e.kind # "message", session' = Append(session, e)
        PROVE  Once(session', x) /\ (x \in Range(session') <=> x \in Range(session))
    <3>1. x # e  BY <2>2 DEF Item
    <3> HIDE DEF x
    <3> QED BY <1>1, <2>2, <3>1, OnceAppend, AppendRange
  <2> QED BY <2>1, <2>2
<1> HIDE DEF x
<1>3. /\ (\E q \in Queues : m \in Range(announced[q])) <=> (x \in Range(session) \/ Due(m))
      /\ ~(x \in Range(session) /\ Due(m))
  BY DEF DeliveredOnce, x
<1>4. /\ (\E q \in Queues : m \in Range(announced'[q])) <=> (x \in Range(session') \/ Due(m)')
      /\ ~(x \in Range(session') /\ Due(m)')
  BY <1>2, <1>3
<1> QED BY <1>2, <1>4 DEF DeliveredOnce, x

LEMMA DueOther ==
  ASSUME NEW r \in Runs, Aside(r), NEW x \in Runs \ {r}, NEW m
  PROVE  DueOf(x, m)' <=> DueOf(x, m)
  BY DEF Aside, DueOf, Open, Ahead, Ops

LEMMA DeliveredAppended ==
  ASSUME Types, InHand, Control, NEW r \in Runs, Appended(r), Aside(r), OnItsWay(r), NEW m \in Msgs, DeliveredOnce(m)
  PROVE  DeliveredOnce(m)'
<1> DEFINE x == Item("message", m)
           out == run[r].out
           h == Head(run[r].out)
<1>1. /\ session' = Append(session, h) /\ run' = run /\ pc[r] = "append" /\ pc'[r] = "notify"
      /\ UNCHANGED announced
  BY DEF Appended, Go, Types, PlaceType, Ops, hist
<1>2. out \in Seq(Entries) /\ out # <<>> /\ session \in Seq(Entries)
  BY <1>1 DEF InHand, Hand, Types, RunType, RunRecord, StoreType
<1>3. Once(out, x) /\ Once(session, x)  BY DEF OnItsWay, DeliveredOnce
<1>4. \A y \in Runs \ {r} : ~DueOf(y, m)
  BY <1>1 DEF Control, Open, DueOf, Working
<1>5. \A y \in Runs \ {r} : ~DueOf(y, m)'  BY <1>4, DueOther
<1>6. Due(m) <=> x \in Range(out)  BY <1>1, <1>4 DEF Due, DueOf, Open, Ahead
<1>7. Due(m)' <=> x \in Range(Tail(out))  BY <1>1, <1>5 DEF Due, DueOf, Open, Ahead
<1>8. h = Head(out) /\ h \in Entries  BY <1>2
<1>9. /\ (\E q \in Queues : m \in Range(announced[q])) <=> (x \in Range(session) \/ Due(m))
      /\ ~(x \in Range(session) /\ Due(m))
  BY DEF DeliveredOnce
<1> HIDE DEF x, out, h
<1>10. Range(out) = {h} \cup Range(Tail(out)) /\ (x = h => x \notin Range(Tail(out)))
  BY <1>2, <1>3, <1>8, HeadTailRange
<1>11. Range(session') = Range(session) \cup {h}  BY <1>1, <1>2, <1>8, AppendRange
<1>12. Once(session', x)
  <2>1. x = h => x \notin Range(session)  BY <1>6, <1>9, <1>10
  <2> QED BY <1>1, <1>2, <1>3, <1>8, <2>1, OnceAppend
<1>13. /\ (\E q \in Queues : m \in Range(announced'[q])) <=> (x \in Range(session') \/ Due(m)')
       /\ ~(x \in Range(session') /\ Due(m)')
  BY <1>1, <1>6, <1>7, <1>9, <1>10, <1>11
<1> QED BY <1>12, <1>13 DEF DeliveredOnce, x

LEMMA DeliveredDrained ==
  ASSUME Types, InHand, Control, Sent, Fifo, faults = 0, NEW r \in Runs, DrainAnnounced(r), Aside(r),
         OnItsWay(r), NEW m \in Msgs, DeliveredOnce(m)
  PROVE  DeliveredOnce(m)'
<1> DEFINE x == Item("message", m)
           d == run[r].drained
           f == run[r].from
<1>1. /\ pc[r] = "queue_update" /\ session' = session /\ f \in Queues
      /\ announced' = [announced EXCEPT ![f] = announced[f] \o d]
  BY DEF DrainAnnounced, store, Types, RunType, RunRecord
<1>2. /\ run'[r].out = Messages(d) /\ d \in Seq(Msgs) /\ pc'[r] \in {"before_start", "append"}
  BY AnnouncedOut
<1>3. \A y \in Runs \ {r} : ~DueOf(y, m)
  BY <1>1 DEF Control, Open, DueOf, Working
<1>4. ~Due(m)
  <2>1. run[r].out = <<>>  BY <1>1 DEF OnItsWay
  <2>2. ~DueOf(r, m)  BY <1>1, <2>1, BareDue DEF Bare
  <2> QED BY <1>3, <2>2 DEF Due
<1>5. Due(m)' <=> x \in Range(Messages(d))
  <2>1. \A y \in Runs \ {r} : ~DueOf(y, m)'  BY <1>3, DueOther
  <2> QED BY <1>2, <2>1 DEF Due, DueOf, Open, Ahead
<1>6. x \in Range(Messages(d)) <=> m \in Range(d)  BY <1>2, MessagesOnce
<1>7. \A q \in Queues : Range(announced[q]) \cap Range(d) = {}  BY <1>1, DrainedNew
<1>8. /\ (\E q \in Queues : m \in Range(announced[q])) <=> x \in Range(session)
      /\ Once(session, x)
  BY <1>4 DEF DeliveredOnce
<1>9. (\E q \in Queues : m \in Range(announced'[q]))
      <=> (\E q \in Queues : m \in Range(announced[q])) \/ m \in Range(d)
  <2> HIDE DEF d, f
  <2>1. \A q \in Queues : announced[q] \in Seq(Msgs)  BY DEF Types, QueueType
  <2>2. Range(announced[f] \o d) = Range(announced[f]) \cup Range(d)
    <3> DEFINE a == announced[f]
    <3>1. a \in Seq(Msgs) /\ d \in Seq(Msgs)  BY <1>1, <1>2, <2>1
    <3> HIDE DEF a
    <3>2. Range(a \o d) = Range(a) \cup Range(d)  BY <3>1, ConcatRange
    <3> QED BY <3>2 DEF a
  <2>3. \A q \in Queues : announced'[q] = IF q = f THEN announced[f] \o d ELSE announced[q]
    BY <1>1 DEF Types, QueueType
  <2>4. \A q \in Queues : Range(announced'[q]) = IF q = f THEN Range(announced[f]) \cup Range(d) ELSE Range(announced[q])
    BY <2>2, <2>3
  <2> QED BY <1>1, <2>4
<1> HIDE DEF x, d, f
<1>10. /\ (\E q \in Queues : m \in Range(announced'[q])) <=> (x \in Range(session') \/ Due(m)')
       /\ ~(x \in Range(session') /\ Due(m)')
  BY <1>1, <1>5, <1>6, <1>7, <1>8, <1>9
<1> QED BY <1>1, <1>8, <1>10 DEF DeliveredOnce, x

LEMMA DeliveredStep ==
  Types /\ Types' /\ Places /\ InHand /\ Control /\ Outgoing /\ Sent /\ Fifo /\ Delivered /\ [Next]_vars => Delivered'
<1> SUFFICES ASSUME Types, Types', Places, InHand, Control, Outgoing, Sent, Fifo, Delivered, [Next]_vars, faults' = 0
             PROVE  (\A r \in Runs : OnItsWay(r)') /\ (\A m \in Msgs : DeliveredOnce(m)')
  BY DEF Delivered
<1>1. faults = 0  BY FaultsGrow
<1>2. (\A r \in Runs : OnItsWay(r)) /\ (\A m \in Msgs : DeliveredOnce(m))  BY <1>1 DEF Delivered
<1>3. session' = session \/ (\E e \in Entries : e.kind # "message" /\ session' = Append(session, e))
      \/ \E r \in Runs : Appended(r)
  <2> SUFFICES ASSUME session' # session, ~\E r \in Runs : Appended(r)
               PROVE  \E e \in Entries : e.kind # "message" /\ session' = Append(session, e)
    OBVIOUS
  <2>1. CASE pending # <<>> /\ session' = Append(session, Item("write", Head(pending)))
    <3>1. Head(pending) \in Writes  BY <2>1 DEF Types, StoreType
    <3>2. Item("write", Head(pending)) \in Entries /\ Item("write", Head(pending)).kind # "message"
      BY <3>1, EntryTypes DEF Item
    <3> QED BY <2>1, <3>2
  <2>2. ASSUME NEW s \in Structs, session' = Append(session, Item("structural", s))
        PROVE  \E e \in Entries : e.kind # "message" /\ session' = Append(session, e)
    <3>1. Item("structural", s) \in Entries /\ Item("structural", s).kind # "message"
      BY EntryTypes DEF Item
    <3> QED BY <2>2, <3>1
  <2>3. ASSUME NEW w \in Writes, session' = Append(session, Item("write", w))
        PROVE  \E e \in Entries : e.kind # "message" /\ session' = Append(session, e)
    <3>1. Item("write", w) \in Entries /\ Item("write", w).kind # "message"  BY EntryTypes DEF Item
    <3> QED BY <2>3, <3>1
  <2> QED BY <2>1, <2>2, <2>3, Appends
<1>4. ASSUME NEW r \in Runs, StartRun(r) \/ RunStep(r)
      PROVE  (\A x \in Runs : OnItsWay(x)') /\ (\A m \in Msgs : DeliveredOnce(m)')
  <2>1. Aside(r)  BY <1>4, RunFrame
  <2>2. OnItsWay(r)'  BY <1>1, <1>2, <1>4, RunOnItsWay
  <2>3. \A x \in Runs \ {r} : OnItsWay(x)'  BY <1>2, <2>1 DEF Aside, OnItsWay, Ops
  <2>4. ASSUME NEW m \in Msgs PROVE DeliveredOnce(m)'
    <3>1. CASE Appended(r)  BY <1>2, <2>1, <3>1, DeliveredAppended
    <3>2. CASE DrainAnnounced(r)  BY <1>1, <1>2, <2>1, <3>2, DeliveredDrained
    <3>3. CASE ~Appended(r) /\ SameDue(r)
      <4>1. session' = session \/ \E e \in Entries : e.kind # "message" /\ session' = Append(session, e)
        <5>1. ~\E x \in Runs \ {r} : Appended(x)
          <6> SUFFICES ASSUME NEW x \in Runs \ {r}, Appended(x) PROVE FALSE  OBVIOUS
          <6>1. pc[x] = "append" /\ pc'[x] = "notify"  BY DEF Appended, Go, Types, PlaceType, Ops
          <6> QED BY <2>1, <6>1 DEF Aside, Ops
        <5> QED BY <1>3, <3>3, <5>1
      <4>2. Due(m)' <=> Due(m)  BY <2>1, <3>3, DueOther DEF Due, SameDue
      <4>3. UNCHANGED announced  BY <3>3 DEF SameDue
      <4> QED BY <1>2, <4>1, <4>2, <4>3, DeliverySame
    <3> QED BY <1>1, <1>2, <1>4, <2>2, <3>1, <3>2, <3>3, RunDue
  <2> QED BY <2>2, <2>3, <2>4
<1>5. ASSUME UNCHANGED <<run, announced>>, \A x \in Runs : pc'[x] = pc[x], ~\E r \in Runs : Appended(r)
      PROVE  (\A x \in Runs : OnItsWay(x)') /\ (\A m \in Msgs : DeliveredOnce(m)')
  <2>1. \A x \in Runs : OnItsWay(x)'  BY <1>2, <1>5 DEF OnItsWay
  <2>2. \A x \in Runs, m \in Msgs : DueOf(x, m)' <=> DueOf(x, m)  BY <1>5 DEF DueOf, Open, Ahead
  <2>3. \A m \in Msgs : Due(m)' <=> Due(m)  BY <2>2 DEF Due
  <2> QED BY <1>2, <1>3, <1>5, <2>1, <2>3, DeliverySame
<1>6. ASSUME NEW o \in Ops \ Runs,
             \/ o \in Structs /\ (StartStruct(o) \/ StructStep(o))
             \/ o \in Writes /\ (WriteWhenIdle(o) \/ WriteWhenBusy(o) \/ WriteAppended(o))
             \/ o \in Msgs /\ Send(o)
             \/ o \in Aborts /\ (Abort(o) \/ AbortStep(o))
      PROVE  (\A x \in Runs : OnItsWay(x)') /\ (\A m \in Msgs : DeliveredOnce(m)')
  <2>1. UNCHANGED <<run, announced>> /\ \A x \in Runs : pc'[x] = pc[x]  BY <1>6, OthersMail
  <2>2. ~\E r \in Runs : Appended(r)
    <3> SUFFICES ASSUME NEW r \in Runs, Appended(r) PROVE FALSE  OBVIOUS
    <3>1. pc[r] = "append" /\ pc'[r] = "notify"  BY DEF Appended, Go, Types, PlaceType, Ops
    <3> QED BY <2>1, <3>1
  <2> QED BY <1>5, <2>1, <2>2
<1>7. CASE UNCHANGED vars
  <2>1. UNCHANGED <<run, announced>> /\ \A x \in Runs : pc'[x] = pc[x]  BY <1>7 DEF vars, hist
  <2>2. ~\E r \in Runs : Appended(r)
    <3> SUFFICES ASSUME NEW r \in Runs, Appended(r) PROVE FALSE  OBVIOUS
    <3>1. pc[r] = "append" /\ pc'[r] = "notify"  BY DEF Appended, Go, Types, PlaceType, Ops
    <3> QED BY <2>1, <3>1
  <2> QED BY <1>5, <2>1, <2>2
<1> QED BY <1>4, <1>6, <1>7, HarnessAssumption DEF Next, Ops

(***************************************************************************)
(* Theorems.                                                               *)
(***************************************************************************)
Inv == /\ Types /\ InHand /\ Places /\ Control /\ EndFlushed /\ Signalled /\ Synced
       /\ Outgoing /\ LastAnswered /\ CallsMeetResults /\ Placed

LEMMA InitInv == Init => Inv
<1> SUFFICES ASSUME Init PROVE Inv  OBVIOUS
<1>1. Types /\ InHand  BY InitTypes
<1>2. \A r \in Runs : run[r].stage = "start" /\ run[r].out = <<>> /\ pc[r] = "new"
  BY DEF Init, NoRun, Ops
<1>3. \A o \in Ops : pc[o] = "new" /\ ~Open(o)  BY DEF Init, Open
<1>4. Places  BY <1>2, <1>3 DEF Places, RunPlace, Ops
<1>5. Control  BY <1>3 DEF Init, Control, Working, Ops
<1>6. EndFlushed /\ Signalled /\ Synced
  BY <1>3 DEF Init, EndFlushed, Signalled, Synced, Working, Ops
<1>7. Outgoing /\ LastAnswered /\ CallsMeetResults
  BY <1>2 DEF Init, Outgoing, OutFine, LastAnswered, CallsMeetResults
<1>8. Placed
  <2>1. <<>> = SubSeq(deferred, 0 + 1, Len(deferred)) /\ 0 \in 0..Len(deferred)  BY DEF Init
  <2> QED BY <1>3, <2>1 DEF Init, Placed, Once, Range, Ops
<1> QED BY <1>1, <1>4, <1>5, <1>6, <1>7, <1>8 DEF Inv

LEMMA InvStep == ~Overlap /\ Inv /\ [Next]_vars => Inv'
  BY TypesStep, HandStep, PlacesStep, ControlStep, EndFlushedStep, SignalledStep, SyncedStep, OutgoingStep,
     AnsweredStep, PlacedStep DEF Inv

LEMMA Always == ASSUME ~Overlap PROVE Spec => []Inv
<1>1. Inv /\ [Next]_vars => Inv'  BY InvStep
<1> QED BY InitInv, <1>1, PTL DEF Spec

\* Runs and structural operations take turns, and leave nothing behind when they are over.
THEOREM OneAtATime == ASSUME ~Overlap PROVE Spec => []IdleAtLast
<1>1. Inv => IdleAtLast
  <2> SUFFICES ASSUME Inv PROVE IdleAtLast  OBVIOUS
  <2> DEFINE busy == {r \in Runs : Open(r) /\ ~Over(r)} \cup {s \in Structs : Open(s)}
  <2>1. TypeOK  BY TypeParts DEF Inv
  <2>2. \A x, y \in busy : x = y  BY DEF Inv, Control, Working
  <2>3. Cardinality(busy) <= 1
    <3>1. CASE busy = {}  BY <3>1, FS_EmptySet
    <3>2. CASE busy # {}
      <4>1. PICK x : x \in busy  BY <3>2
      <4>2. busy = {x}  BY <2>2, <4>1
      <4>3. Cardinality({x}) = 1  BY FS_Singleton
      <4> HIDE DEF busy
      <4> QED BY <4>2, <4>3
    <3> QED BY <3>1, <3>2
  <2>4. (\A o \in Runs \cup Structs : ~Open(o)) => phase = "idle" /\ controller = None /\ runPromise = None
    BY NoneOpen DEF Inv, Working
  <2> QED BY <2>1, <2>3, <2>4 DEF IdleAtLast
<1> QED BY <1>1, Always, PTL

\* A write that was accepted is in the session or queued, once and in order, whatever fails.
THEOREM WritesAreKept == ASSUME ~Overlap PROVE Spec => []WritesKept
<1>1. Inv => WritesKept  BY PlacedGives DEF Inv
<1> QED BY <1>1, Always, PTL

\* What a run asks the provider, and what a structural operation appends to, is the session.
THEOREM SnapshotsAreSession == ASSUME ~Overlap PROVE Spec => []SnapshotIsSession
<1>1. Inv => SnapshotIsSession
  <2> SUFFICES ASSUME Inv PROVE SnapshotIsSession  OBVIOUS
  <2>1. \A r \in Runs : pc[r] = "request" => run[r].stage \in {"start", "loop"}
    BY DEF Inv, Places, RunPlace, Types, RunType, RunRecord
  <2> QED BY <2>1 DEF Inv, Synced, SnapshotIsSession
<1> QED BY <1>1, Always, PTL

\* Tool calls are followed by their results or by the failure of their run.
THEOREM CallsAreAnswered == ASSUME ~Overlap PROVE Spec => []CallsMeetResults
<1>1. Inv => CallsMeetResults  BY DEF Inv
<1> QED BY <1>1, Always, PTL

\* An abort signals the run that is in its loop, and returns when that run is over.
THEOREM AbortsEndRuns == ASSUME ~Overlap PROVE Spec => AbortEndsRun
<1> DEFINE Signals == (\E a \in Aborts : pc[a] = "new" /\ pc'[a] # "new")
             => {r \in Runs : Open(r) /\ run[r].stage = "loop" /\ ~Over(r)} \subseteq aborted'
           Ends == \A a \in Aborts : pc[a] = "returned" /\ hit[a] # None => pc[hit[a]] = "returned"
<1>1. Inv /\ [Next]_vars => [Signals]_vars  BY AbortSignals DEF Inv
<1>2. Inv => Ends  BY DEF Inv, Signalled
<1>3. Spec => [][Next]_vars  BY PTL DEF Spec
<1> QED BY <1>1, <1>2, <1>3, Always, PTL DEF AbortEndsRun

(***************************************************************************)
(* The queues, as a theorem.                                               *)
(***************************************************************************)
Mail == Sent /\ Fifo /\ Delivered

LEMMA InitMail == Init => Mail
<1> SUFFICES ASSUME Init PROVE Mail  OBVIOUS
<1>1. /\ \A q \in Queues : queue[q] = <<>> /\ sent[q] = <<>> /\ announced[q] = <<>>
      /\ \A r \in Runs : /\ run[r].out = <<>> /\ run[r].array = 0 /\ ~run[r].raised
                         /\ pc[r] = "new"
      /\ arrays = 0 /\ cleared = {} /\ session = <<>>
  BY DEF Init, NoRun, Ops
<1>2. Range(<<>>) = {} /\ \A x : Once(<<>>, x)  BY DEF Range, Once
<1>3. Sent  BY <1>1, <1>2 DEF Sent
<1>4. Fifo
  <2>1. \A q \in Queues : Carried(q) = <<>>  BY <1>1, HeldByNone DEF Carried
  <2>2. \A q \in Queues : Live(q) = <<>>  BY <1>1, <2>1 DEF Live
  <2> QED BY <1>1, <1>2, <2>2 DEF Fifo, Remains
<1>5. \A r \in Runs : OnItsWay(r)  BY <1>1, <1>2 DEF OnItsWay
<1>6. \A m \in Msgs : ~Due(m)  BY <1>1 DEF Due, DueOf, Open
<1>7. \A m \in Msgs : DeliveredOnce(m)  BY <1>1, <1>2, <1>6 DEF DeliveredOnce
<1> QED BY <1>3, <1>4, <1>5, <1>7 DEF Mail, Delivered

LEMMA MailStep == ~Overlap /\ Inv /\ Mail /\ [Next]_vars => Mail'
<1> SUFFICES ASSUME ~Overlap, Inv, Mail, [Next]_vars PROVE Mail'  OBVIOUS
<1>1. Types /\ Places /\ InHand /\ Control /\ Outgoing /\ Sent /\ Fifo /\ Delivered  BY DEF Inv, Mail
<1>2. Types'  BY InvStep DEF Inv
<1> QED BY <1>1, <1>2, SentStep, FifoStep, DeliveredStep DEF Mail

\* A message that is announced is in the session, or one run is about to append it.
LEMMA OneWay ==
  ASSUME Control, Delivered, faults = 0, NEW q \in Queues, NEW m \in Msgs, m \in Range(announced[q])
  PROVE  Occ(session, Item("message", m))
         + Cardinality({r \in Runs : Open(r) /\ Item("message", m) \in Range(Ahead(r))}) = 1
<1> DEFINE x == Item("message", m)
           due == {r \in Runs : Open(r) /\ x \in Range(Ahead(r))}
<1>1. /\ Once(session, x) /\ (x \in Range(session) \/ Due(m))
      /\ ~(x \in Range(session) /\ Due(m))
  BY DEF Delivered, DeliveredOnce
<1>2. Due(m) <=> due # {}  BY DEF Due, DueOf
<1>3. \A y, z \in due : y = z  BY DEF Control, Working
<1> HIDE DEF x, due
<1>4. Occ(session, x) = IF x \in Range(session) THEN 1 ELSE 0  BY <1>1, OccOnce
<1>5. Cardinality(due) = IF due = {} THEN 0 ELSE 1
  <2>1. CASE due = {}  BY <2>1, FS_EmptySet
  <2>2. CASE due # {}
    <3>1. PICK y : y \in due  BY <2>2
    <3>2. due = {y}  BY <1>3, <3>1
    <3>3. Cardinality({y}) = 1  BY FS_Singleton
    <3> QED BY <2>2, <3>2, <3>3
  <2> QED BY <2>1, <2>2
<1>6. Occ(session, x) + Cardinality(due) = 1  BY <1>1, <1>2, <1>4, <1>5
<1> QED BY <1>6 DEF x, due

\* The queues are first in, first out whatever fails: nothing sent is lost but what abort() clears or has
\* cut off from its queue. What they give is delivered once unless something fails.
THEOREM QueuesStayFifo == ASSUME ~Overlap PROVE Spec => []QueuesAreFifo
<1>1. Inv /\ Mail /\ [Next]_vars => Mail'  BY MailStep
<1>2. Types /\ Control /\ Mail => QueuesAreFifo
  <2> SUFFICES ASSUME Types, Control, Mail PROVE QueuesAreFifo  OBVIOUS
  <2>1. \A q \in Queues : Remains(Live(q), sent[q], cleared)  BY DEF Mail, Fifo
  <2>2. ASSUME faults = 0, NEW q \in Queues, NEW m \in Range(announced[q])
        PROVE  Occ(session, Item("message", m))
               + Cardinality({r \in Runs : Open(r) /\ Item("message", m) \in Range(Ahead(r))}) = 1
    <3>1. announced[q] \in Seq(Msgs)  BY DEF Types, QueueType
    <3>2. m \in Msgs  BY <3>1 DEF Range
    <3> QED BY <2>2, <3>2, OneWay DEF Mail
  <2> QED BY <2>1, <2>2 DEF QueuesAreFifo, Live, Carried, HeldOf, OneOf
<1>3. Inv => Types /\ Control  BY DEF Inv
<1> QED BY <1>1, <1>2, <1>3, Always, InitMail, PTL DEF Spec
=============================================================================
