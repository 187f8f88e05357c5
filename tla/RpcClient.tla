------------------------------ MODULE RpcClient ------------------------------
(***************************************************************************)
(* RpcClient of coding-agent/src/modes/rpc/rpc-client.ts and the process   *)
(* it drives, rpc-mode.ts: requests go down stdin as lines, are handled    *)
(* side by side, and are answered on stdout among the session's events, in *)
(* any order.  The client gives up on a request after 30 seconds, when the *)
(* process exits, and in the end after stop().                             *)
(***************************************************************************)
EXTENDS Naturals, Sequences

CONSTANTS
  Requests,    \* calls of send
  Prompts,     \* those that are prompts: they are answered when the prompt is accepted
  MaxStarts,   \* bound: processes started
  RpcEvent     \* an event of the session

ASSUME RpcAssumption == Prompts \subseteq Requests /\ RpcEvent \notin Requests /\ MaxStarts \in Nat

VARIABLES
  request,     \* "new", "sent", "resolved", "rejected"
  timers,      \* requests whose 30 seconds run
  pendingRequests,
  child,       \* the client's process: "none", "up", "stopping"
  running,     \* it has not exited
  starts,
  listening,   \* stopReadingStdout is set
  stdin, stdout,
  handler,     \* rpc-mode's handling of each request: "none", "running", "accepted", "over"
  strays       \* history: the lines given to the event listeners that are no events

rpcVars == <<request, timers, pendingRequests, child, running, starts, listening, stdin, stdout, handler, strays>>

RpcInit ==
  /\ request = [r \in Requests |-> "new"]
  /\ timers = {} /\ pendingRequests = {}
  /\ child = "none" /\ running = FALSE /\ starts = 0 /\ listening = FALSE
  /\ stdin = <<>> /\ stdout = <<>>
  /\ handler = [r \in Requests |-> "none"]
  /\ strays = {}

StartChild ==
  /\ child = "none" /\ starts < MaxStarts
  /\ child' = "up" /\ running' = TRUE /\ starts' = starts + 1 /\ listening' = TRUE
  /\ stdin' = <<>> /\ stdout' = <<>>
  /\ handler' = [r \in Requests |-> IF handler[r] = "none" THEN "none" ELSE "over"]
  /\ UNCHANGED <<request, timers, pendingRequests, strays>>

\* send throws before it has an id when there is no process or it has exited.
SendRequest(r) ==
  /\ request[r] = "new"
  /\ IF child # "none" /\ running
     THEN /\ request' = [request EXCEPT ![r] = "sent"]
          /\ timers' = timers \cup {r} /\ pendingRequests' = pendingRequests \cup {r}
          /\ stdin' = Append(stdin, r)
     ELSE request' = [request EXCEPT ![r] = "rejected"] /\ UNCHANGED <<timers, pendingRequests, stdin>>
  /\ UNCHANGED <<child, running, starts, listening, stdout, handler, strays>>

\* handleInputLine is not awaited: the next line does not wait for this one.
TakeLine ==
  /\ running /\ stdin # <<>>
  /\ stdin' = Tail(stdin)
  /\ handler' = [handler EXCEPT ![Head(stdin)] = "running"]
  /\ UNCHANGED <<request, timers, pendingRequests, child, running, starts, listening, stdout, strays>>

\* The response of a command, or that of a prompt whose preflight succeeded, which then runs on.
Answer(r) ==
  /\ running /\ handler[r] = "running"
  /\ handler' = [handler EXCEPT ![r] = IF r \in Prompts THEN "accepted" ELSE "over"]
  /\ stdout' = Append(stdout, r)
  /\ UNCHANGED <<request, timers, pendingRequests, child, running, starts, listening, stdin, strays>>

Bug_Refused(r) == TRUE

\* preflightSucceeded
Refused(r) == handler[r] = "running"

\* A command or a prompt throws: an error response, unless the prompt has been accepted.
PromptThrows(r) ==
  /\ running /\ handler[r] \in {"running", "accepted"}
  /\ handler' = [handler EXCEPT ![r] = "over"]
  /\ stdout' = IF Refused(r) THEN Append(stdout, r) ELSE stdout
  /\ UNCHANGED <<request, timers, pendingRequests, child, running, starts, listening, stdin, strays>>

\* An accepted prompt runs to its agent_end.
RunOver(r) ==
  /\ running /\ handler[r] = "accepted"
  /\ handler' = [handler EXCEPT ![r] = "over"]
  /\ stdout' = Append(stdout, RpcEvent)
  /\ UNCHANGED <<request, timers, pendingRequests, child, running, starts, listening, stdin, strays>>

Settle(rs, how) == request' = [r \in Requests |-> IF r \in rs THEN how ELSE request[r]]

\* handleLine: a response nobody waits for goes to the event listeners.
HandleLine ==
  /\ listening /\ stdout # <<>>
  /\ stdout' = Tail(stdout)
  /\ LET line == Head(stdout)
     IN IF line \in pendingRequests
        THEN /\ pendingRequests' = pendingRequests \ {line} /\ timers' = timers \ {line}
             /\ Settle({line}, "resolved")
             /\ UNCHANGED strays
        ELSE /\ strays' = strays \cup ({line} \ {RpcEvent})
             /\ UNCHANGED <<request, timers, pendingRequests>>
  /\ UNCHANGED <<child, running, starts, listening, stdin, handler>>

TimesOut(r) ==
  /\ r \in timers
  /\ timers' = timers \ {r} /\ pendingRequests' = pendingRequests \ {r}
  /\ Settle({r}, "rejected")
  /\ UNCHANGED <<child, running, starts, listening, stdin, stdout, handler, strays>>

\* "exit": what the process has written is still in the pipe.
ChildExits ==
  /\ running /\ running' = FALSE
  /\ child' = IF child = "up" THEN "up" ELSE "none"
  /\ pendingRequests' = {} /\ timers' = timers \ pendingRequests
  /\ Settle(pendingRequests, "rejected")
  /\ handler' = [r \in Requests |-> IF handler[r] = "none" THEN "none" ELSE "over"]
  /\ UNCHANGED <<starts, listening, stdin, stdout, strays>>

\* stop(), which kills the process and waits for its exit ...
Stop ==
  /\ child = "up"
  /\ child' = "stopping" /\ listening' = FALSE
  /\ UNCHANGED <<request, timers, pendingRequests, running, starts, stdin, stdout, handler, strays>>

Bug_StopEnds ==
  /\ child = "stopping"
  /\ child' = "none" /\ running' = FALSE
  /\ pendingRequests' = {} /\ timers' = timers \ pendingRequests
  /\ UNCHANGED <<request, starts, listening, stdin, stdout, handler, strays>>

\* ... for a second: what is pending then is dropped, and only its timer rejects it.
StopEnds ==
  /\ child = "stopping"
  /\ child' = "none" /\ running' = FALSE
  /\ pendingRequests' = {}
  /\ UNCHANGED <<request, timers, starts, listening, stdin, stdout, handler, strays>>

RpcNext ==
  \/ StartChild \/ TakeLine \/ HandleLine \/ ChildExits \/ Stop \/ StopEnds
  \/ \E r \in Requests : SendRequest(r) \/ Answer(r) \/ PromptThrows(r) \/ RunOver(r) \/ TimesOut(r)

RpcSpec == RpcInit /\ [][RpcNext]_rpcVars

\* Lines arrive and timers run out.
RpcProgress == TakeLine \/ HandleLine \/ StopEnds \/ \E r \in Requests : Answer(r) \/ TimesOut(r)
RpcFairness == WF_rpcVars(RpcProgress)

(***************************************************************************)
(* Properties.                                                             *)
(***************************************************************************)
\* Every request that was sent is answered or rejected, whatever the process does.
RequestsSettle == (\E r \in Requests : request[r] = "sent") ~> (\A r \in Requests : request[r] # "sent")

\* The listeners take a response for an event only if its request was given up before it came: no
\* request is answered twice, although a prompt goes on, and may fail, after its answer.
StrayAnswers == \A r \in strays : request[r] = "rejected"
=============================================================================
